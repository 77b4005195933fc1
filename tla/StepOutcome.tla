---------------------------- MODULE StepOutcome ----------------------------
(***************************************************************************)
(* What the adapter promises the host about one step: an Execute that was  *)
(* started ends once, either with an error or with one outcome the host    *)
(* can act on.  How the outcome comes about (prompts, reprompts, retries,  *)
(* stalls, the submit_outcome calls) is not visible here.                  *)
(***************************************************************************)
CONSTANTS
    Requests,          \* the steps the host may ask for
    Answers(_)         \* the outcomes a step may end with

VARIABLES
    running,  \* is an Execute under way
    request,  \* the step of the current or the last Execute
    answer,   \* its result: "none" while it runs
    waiting   \* the CLI owes it the answer of a call that nothing times out

answerVars == <<running, request, answer>>  \* waiting is the CLI's affair

Nothing == [kind |-> "none", outcome |-> ""]
Failure == [kind |-> "error", outcome |-> ""]
Result(outcome) == [kind |-> "result", outcome |-> outcome]

Init == ~running /\ answer = Nothing /\ request \in Requests

Start ==
    /\ ~running
    /\ running' = TRUE
    /\ request' \in Requests
    /\ answer' = Nothing

Finish ==
    /\ running
    /\ running' = FALSE
    /\ \/ answer' = Failure
       \/ \E outcome \in Answers(request) : answer' = Result(outcome)
    /\ UNCHANGED request

SafeSpec == Init /\ [][Start \/ Finish]_answerVars

(* It ends unless it waits for ever in ONE such call: to come back to such *)
(* calls again and again is no excuse.                                     *)
Spec == SafeSpec /\ (<>[]waiting \/ WF_answerVars(Finish))
=============================================================================
