-------------------------------- MODULE Turn --------------------------------
(***************************************************************************)
(* The Execute of one adapter session (copilot_turn.go, executeTurn in     *)
(* copilot_watchdog.go, sendWithRetry in copilot_retry.go) against the CLI *)
(* that runs the model.                                                    *)
(*                                                                         *)
(* Three activities interleave: the Execute goroutine (pc walks through    *)
(* its blocking points), the SDK's event handler, which fills the two      *)
(* one-slot channels turnDone and errCh, and the submit_outcome handler of *)
(* SubmitOutcome.  execMu lets one Execute run at a time, so a session is  *)
(* a sequence of Executes; the CLI is not told when one ends.              *)
(***************************************************************************)
EXTENDS SubmitOutcome

CONSTANTS
    MaxTurnsInputs,           \* max_turns of the requests; 0: no cap
    MaxFinalizeAttempts,      \* maxFinalizeAttempts
    WatchdogMaxCallAttempts,  \* watchdogMaxCallAttempts
    RetryMaxAttempts,         \* retryMaxAttempts
    SendFailures,             \* retryable send failures: "stall", "transient"
    MaxLivePrompts            \* bound on prompts the CLI works on at once

ASSUME TurnAssumption ==
    /\ MaxTurnsInputs \subseteq Nat
    /\ MaxFinalizeAttempts \in Nat \ {0}
    /\ WatchdogMaxCallAttempts \in Nat \ {0}
    /\ RetryMaxAttempts \in Nat \ {0}
    /\ SendFailures \subseteq {"stall", "transient"}
    /\ MaxLivePrompts \in Nat \ {0}
    /\ Handshakes # {}

VARIABLES
    pc,            \* where the Execute goroutine is
    req,           \* the ExecuteRequest it serves
    maxTurns,      \* turnState.maxTurns
    turns,         \* turnState.assistantTurns, saturating at maxTurns
    turnDone,      \* turnState.turnDone holds an idle
    errCh,         \* what turnState.errCh holds
    call,          \* executeTurn's attempt: whole provider calls before this one
    attempt,       \* awaitOutcome's attempt
    sending,       \* is the message being sent the prompt or a reprompt
    tries,         \* sendWithRetry's attempt: sends before this one
    failure,       \* sendWithRetry's lastErr
    delivered,     \* the CLI has received the message being sent
    live,          \* prompts the CLI works on: of this Execute, of earlier ones
    cancelled,     \* ctx is done
    result,        \* what the current or the last Execute has decided to return
    late           \* a finalize was accepted after that was decided

loopVars == <<call, attempt, sending, tries, failure, delivered>>
signalVars == <<turns, turnDone, errCh>>
envVars == <<req, maxTurns, cancelled>>
answerOf == <<result, late>>
turnVars == <<submitVars, pc, loopVars, signalVars, envVars, live, answerOf>>

Idle == [kind |-> "none", outcome |-> NoOutcome, cause |-> "none"]

TurnInit ==
    /\ SubmitInit
    /\ pc = "idle" /\ req \in Handshakes /\ maxTurns = 0
    /\ turns = 0 /\ turnDone = FALSE /\ errCh = "none"
    /\ call = 0 /\ attempt = 1 /\ sending = "prompt" /\ tries = 0
    /\ failure = "none" /\ delivered = FALSE
    /\ live = [cur |-> 0, old |-> 0]
    /\ cancelled = FALSE /\ result = Idle /\ late = FALSE

-----------------------------------------------------------------------------
(* Prompts the CLI works on. *)

AtMost(n, bound) == IF n < bound THEN n ELSE bound

NoPrompts == [cur |-> 0, old |-> 0]

(* The end of an Execute does not abort the CLI's turn: what it still does *)
(* reaches the next Execute.                                               *)
LeftBehind(prompts) ==
    [cur |-> 0,
     old |-> IF StraySubmits THEN AtMost(prompts.cur + prompts.old, MaxLivePrompts) ELSE 0]

-----------------------------------------------------------------------------
(* Begin and end of an Execute. *)

Begin(h, limit) ==
    /\ pc = "idle"
    /\ BeginExecution
    /\ pc' = "begun"
    /\ req' = h /\ maxTurns' = limit /\ cancelled' = FALSE
    /\ result' = Idle /\ late' = FALSE
    /\ UNCHANGED <<loopVars, signalVars, live>>

(* Execute installs the handshake, makes a fresh turnState and subscribes. *)
Configure ==
    /\ pc = "begun"
    /\ InstallHandshake(req)
    /\ pc' = "setup"
    /\ turns' = 0 /\ turnDone' = FALSE /\ errCh' = "none"
    /\ call' = 0
    /\ UNCHANGED <<attempt, sending, tries, failure, delivered, envVars, live, answerOf>>

(* What Execute returns is settled, and its deferred calls run: first, if  *)
(* the step overrode the effort, the SetModel that restores it. The        *)
(* channel is open until cleanup, the last of them.                        *)
Decide(kind, outcome, cause, prompts) ==
    /\ pc' \in {"restore", "return"}
    /\ result' = [kind |-> kind, outcome |-> outcome, cause |-> cause]
    /\ live' = prompts
    /\ turnDone' = FALSE /\ errCh' = "none"
    /\ call' = 0 /\ attempt' = 1 /\ sending' = "prompt" /\ tries' = 0
    /\ failure' = "none" /\ delivered' = FALSE
    /\ UNCHANGED <<submitVars, turns, envVars, late>>

Fail(cause) == Decide("error", NoOutcome, cause, live)

(* sink.Send of the terminal result; it may itself fail.                   *)
Deliver(outcome, cause) == Decide("result", outcome, cause, live) \/ Fail("sink")

(* The deferred SetModel answers; its error is only logged.                *)
RestoreEffort ==
    /\ pc = "restore"
    /\ pc' = "return"
    /\ UNCHANGED <<submitVars, loopVars, signalVars, envVars, live, answerOf>>

(* Unsubscribe and cleanup. *)
Return ==
    /\ pc = "return"
    /\ EndExecution
    /\ pc' = "idle"
    /\ live' = LeftBehind(live)
    /\ turnDone' = FALSE /\ errCh' = "none"
    /\ UNCHANGED <<turns, loopVars, envVars, answerOf>>

(* applyRequestEffort and applyRequestModel. *)
Setup ==
    /\ pc = "setup"
    /\ \/ Fail("setup")
       \/ /\ pc' = "call"
          /\ UNCHANGED <<submitVars, loopVars, signalVars, envVars, live, answerOf>>

-----------------------------------------------------------------------------
(* executeTurn and sendWithRetry. *)

StartSend(message) ==
    /\ pc' = "send" /\ sending' = message /\ tries' = 0
    /\ failure' = "none" /\ delivered' = FALSE

Drain == turnDone' = FALSE /\ errCh' = "none"

StartCall ==
    /\ pc = "call"
    /\ Drain
    /\ StartSend("prompt")
    /\ attempt' = 1
    /\ UNCHANGED <<submitVars, turns, call, envVars, live, answerOf>>

(* Send answers: the message id, or an error that is not retryable.        *)
SendReturns ==
    /\ pc = "send"
    /\ \/ /\ delivered
          /\ pc' = "await"
          /\ delivered' = FALSE /\ tries' = 0 /\ failure' = "none"
          /\ UNCHANGED <<submitVars, call, attempt, sending, signalVars, envVars, live, answerOf>>
       \/ Fail("send")

(* An exhausted or abandoned send: only the stall of a reprompt reaches    *)
(* executeTurn's stall handling, the prompt's own send error is final.     *)
GiveUp(why, prompts) ==
    IF sending = "reprompt" /\ why = "stall"
    THEN /\ pc' = "stalled"
         /\ tries' = 0 /\ failure' = "none" /\ delivered' = FALSE
         /\ live' = prompts
         /\ UNCHANGED <<submitVars, call, attempt, sending, signalVars, envVars, answerOf>>
    ELSE Decide("error", NoOutcome, "send", prompts)

(* Send failed retryably: no answer within the window, or a transport or   *)
(* provider failure.                                                       *)
SendFails(why) ==
    /\ pc = "send"
    /\ IF tries + 1 = RetryMaxAttempts \/ cancelled
       THEN GiveUp(why, live)
       ELSE /\ pc' = "recover" /\ failure' = why
            /\ UNCHANGED <<submitVars, call, attempt, sending, tries, delivered,
                           signalVars, envVars, live, answerOf>>

(* recoverTransport, then the backoff. A stall forces the restart of the   *)
(* CLI child, another failure restarts it only if it is dead.              *)
RecoverSend ==
    /\ pc = "recover"
    /\ \E prompts \in IF failure = "stall" THEN {NoPrompts} ELSE {NoPrompts, live} :
       IF cancelled THEN GiveUp(failure, prompts)
       ELSE /\ pc' = "send" /\ tries' = tries + 1 /\ delivered' = FALSE
            /\ live' = prompts
            /\ UNCHANGED <<submitVars, call, attempt, sending, failure, signalVars, envVars, answerOf>>

-----------------------------------------------------------------------------
(* awaitOutcome. *)

Recorded == finalize.outcome # NoOutcome

AwaitCancelled == pc = "await" /\ cancelled /\ Fail("ctx")

MaxTurnsOutcome ==
    IF step.fallback # NoOutcome THEN step.fallback
    ELSE IF "needs_review" \in step.allowed THEN "needs_review"
    ELSE "failure"

(* Mutant: a session loss ends the Execute whatever is recorded. *)
AwaitErrorForgetsFinalize ==
    /\ pc = "await" /\ errCh # "none" /\ ~muHeld
    /\ \/ errCh = "max_turns" /\ Deliver(MaxTurnsOutcome, "max_turns")
       \/ /\ errCh # "max_turns" /\ turnDone
          /\ Drain /\ pc' = "judge"
          /\ UNCHANGED <<submitVars, turns, loopVars, envVars, live, answerOf>>
       \/ errCh # "max_turns" /\ ~turnDone /\ Fail(errCh)

(* An error is taken from errCh. Reaching max_turns ends the Execute; any  *)
(* other error is forgiven when the idle is there too; a session loss      *)
(* yields to a recorded finalize.                                          *)
AwaitError ==
    /\ pc = "await" /\ errCh # "none" /\ ~muHeld
    /\ \/ errCh = "max_turns" /\ Deliver(MaxTurnsOutcome, "max_turns")
       \/ /\ errCh # "max_turns" /\ turnDone
          /\ Drain /\ pc' = "judge"
          /\ UNCHANGED <<submitVars, turns, loopVars, envVars, live, answerOf>>
       \/ /\ errCh = "lost" /\ ~turnDone /\ Recorded
          /\ Deliver(finalize.outcome, "finalize")
       \/ /\ ~turnDone
          /\ \/ errCh = "lost" /\ ~Recorded /\ Fail("lost")
             \/ errCh = "sink" /\ Fail("sink")

AwaitIdle ==
    /\ pc = "await" /\ turnDone
    /\ turnDone' = FALSE
    /\ pc' = "idled"
    /\ UNCHANGED <<submitVars, turns, errCh, loopVars, envVars, live, answerOf>>

AwaitStall ==
    /\ pc = "await"
    /\ pc' = "stalled"
    /\ UNCHANGED <<submitVars, signalVars, loopVars, envVars, live, answerOf>>

DrainIdled ==
    /\ pc = "idled"
    /\ Drain
    /\ pc' = "judge"
    /\ UNCHANGED <<submitVars, turns, loopVars, envVars, live, answerOf>>

(* handleIdleTurn: deliver the finalize, give up, or reprompt. *)
JudgeIdle ==
    /\ pc = "judge" /\ ~muHeld
    /\ \/ Recorded /\ Deliver(finalize.outcome, "finalize")
       \/ /\ ~Recorded /\ attempt = MaxFinalizeAttempts
          /\ pc' = "exhausted"
          /\ UNCHANGED <<submitVars, loopVars, signalVars, envVars, live, answerOf>>
       \/ /\ attempt < MaxFinalizeAttempts
          /\ MarkNoOutcomes
          /\ pc' = "exhausted"
          /\ UNCHANGED <<loopVars, signalVars, envVars, live, answerOf>>
       \/ /\ ~Recorded /\ attempt < MaxFinalizeAttempts /\ step.allowed # {}
          /\ StartSend("reprompt")
          /\ attempt' = attempt + 1
          /\ UNCHANGED <<submitVars, call, signalVars, envVars, live, answerOf>>

(* failExhausted: the fallback contract's outcome, or "failure". *)
FailExhausted ==
    /\ pc = "exhausted"
    /\ Deliver(IF step.fallback # NoOutcome THEN step.fallback ELSE "failure", "exhausted")

(* Mutant: one call too many. *)
StalledOnceMore ==
    /\ pc = "stalled" /\ ~muHeld
    /\ \/ cancelled /\ Fail("ctx")
       \/ ~cancelled /\ Recorded /\ Deliver(finalize.outcome, "finalize")
       \/ ~cancelled /\ ~Recorded /\ call = WatchdogMaxCallAttempts /\ Fail("stall")
       \/ /\ ~cancelled /\ ~Recorded /\ call < WatchdogMaxCallAttempts
          /\ pc' = "restart"
          /\ UNCHANGED <<submitVars, loopVars, signalVars, envVars, live, answerOf>>

(* executeTurn on a stall: a recorded finalize wins, then the call budget. *)
Stalled ==
    /\ pc = "stalled" /\ ~muHeld
    /\ \/ cancelled /\ Fail("ctx")
       \/ ~cancelled /\ Recorded /\ Deliver(finalize.outcome, "finalize")
       \/ ~cancelled /\ ~Recorded /\ call + 1 = WatchdogMaxCallAttempts /\ Fail("stall")
       \/ /\ ~cancelled /\ ~Recorded /\ call + 1 < WatchdogMaxCallAttempts
          /\ pc' = "restart"
          /\ UNCHANGED <<submitVars, loopVars, signalVars, envVars, live, answerOf>>

(* Mutant: the stalled call is not counted. *)
RestartUncounted ==
    /\ pc = "restart"
    /\ IF cancelled THEN Decide("error", NoOutcome, "ctx", NoPrompts)
       ELSE /\ pc' = "call" /\ live' = NoPrompts
            /\ UNCHANGED <<submitVars, call, attempt, sending, tries, failure, delivered,
                           signalVars, envVars, answerOf>>

(* The forced recovery and the backoff before the next whole call. *)
Restart ==
    /\ pc = "restart"
    /\ IF cancelled THEN Decide("error", NoOutcome, "ctx", NoPrompts)
       ELSE /\ pc' = "call" /\ call' = call + 1
            /\ live' = NoPrompts
            /\ UNCHANGED <<submitVars, attempt, sending, tries, failure, delivered,
                           signalVars, envVars, answerOf>>

ExecuteNext ==
    \/ Configure \/ Setup \/ StartCall
    \/ SendReturns \/ RecoverSend
    \/ \E why \in SendFailures : SendFails(why)
    \/ AwaitCancelled \/ AwaitError \/ AwaitIdle \/ AwaitStall
    \/ DrainIdled \/ JudgeIdle \/ FailExhausted
    \/ Stalled \/ Restart
    \/ RestoreEffort \/ Return

-----------------------------------------------------------------------------
(* The CLI and its events. The handler is subscribed from Configure to the *)
(* end of the Execute; no event says which prompt it belongs to.           *)

Subscribed == stage = "open"

Owners == {"cur", "old"}

(* sendErr: a full channel drops the error. *)
SendErr(err) == errCh' = IF errCh = "none" THEN err ELSE errCh

DeliverPrompt ==
    /\ pc = "send" /\ ~delivered
    /\ delivered' = TRUE
    /\ live' = [live EXCEPT !.cur = AtMost(@ + 1, MaxLivePrompts)]
    /\ UNCHANGED <<submitVars, pc, call, attempt, sending, tries, failure,
                   signalVars, envVars, answerOf>>

(* A complete assistant message; it counts whoever's prompt it answers.    *)
AssistantMessage(owner) ==
    /\ Subscribed /\ live[owner] > 0 /\ maxTurns > 0
    /\ turns' = AtMost(turns + 1, maxTurns)
    /\ IF turns' >= maxTurns THEN SendErr("max_turns") ELSE UNCHANGED errCh
    /\ UNCHANGED <<submitVars, pc, turnDone, loopVars, envVars, live, answerOf>>

SessionIdle(owner) ==
    /\ live[owner] > 0
    /\ live' = [live EXCEPT ![owner] = @ - 1]
    /\ turnDone' = (turnDone \/ Subscribed)
    /\ UNCHANGED <<submitVars, pc, turns, errCh, loopVars, envVars, answerOf>>

(* session.error or session.shutdown: the turn may still idle afterwards.  *)
SessionLost ==
    /\ Subscribed
    /\ SendErr("lost")
    /\ live' \in {live, NoPrompts}
    /\ UNCHANGED <<submitVars, pc, turns, turnDone, loopVars, envVars, answerOf>>

(* A forwarded event the host's stream refuses. *)
ForwardFails ==
    /\ Subscribed
    /\ SendErr("sink")
    /\ UNCHANGED <<submitVars, pc, turns, turnDone, loopVars, envVars, live, answerOf>>

(* What the Execute returns no longer depends on what is recorded. *)
Decided == pc \in {"exhausted", "restore", "return"}

ModelSubmits(sub) ==
    /\ live.cur + live.old > 0
    /\ SubmitOutcome(sub)
    /\ late' = (late \/ (Decided /\ finalize'.outcome # finalize.outcome))
    /\ UNCHANGED <<pc, loopVars, signalVars, envVars, live, result>>

(* The CLI child dies, or another session's recovery restarts it.          *)
CliDies ==
    /\ live # NoPrompts
    /\ live' = NoPrompts
    /\ UNCHANGED <<submitVars, pc, loopVars, signalVars, envVars, answerOf>>

Cancel ==
    /\ stage # "idle" /\ ~cancelled
    /\ cancelled' = TRUE
    /\ UNCHANGED <<submitVars, pc, loopVars, signalVars, req, maxTurns, live, answerOf>>

CliNext ==
    \/ DeliverPrompt
    \/ \E owner \in Owners : AssistantMessage(owner) \/ SessionIdle(owner)
    \/ SessionLost \/ ForwardFails
    \/ \E sub \in Submissions : ModelSubmits(sub)
    \/ CliDies

HostNext ==
    \/ \E h \in Handshakes, limit \in MaxTurnsInputs : Begin(h, limit)
    \/ Cancel

TurnNext == ExecuteNext \/ CliNext \/ HostNext

TurnSpec == TurnInit /\ [][TurnNext]_turnVars

(* Where the goroutine waits for the CLI without a timeout: in the SetModel *)
(* calls, and in a recovery, which pings, starts, resumes and creates.      *)
Unsupervised == {"setup", "recover", "restart", "restore"}

(* The goroutine runs, and the watchdog window expires on a stream that    *)
(* stays silent. A call without a timeout may never return.                *)
TurnFairSpec == TurnSpec /\ WF_turnVars(pc \notin Unsupervised /\ ExecuteNext)

-----------------------------------------------------------------------------
(* Properties. *)

Locations == {"idle", "begun", "setup", "call", "send", "recover", "await", "idled",
              "judge", "exhausted", "stalled", "restart", "restore", "return"}

Causes == {"none", "setup", "send", "lost", "sink", "ctx", "stall",
           "finalize", "max_turns", "exhausted"}

LoopTypeOK ==
    /\ pc \in Locations
    /\ req \in Handshakes
    /\ maxTurns \in Nat /\ turns \in Nat
    /\ turnDone \in BOOLEAN
    /\ errCh \in {"none", "max_turns", "lost", "sink"}
    /\ call \in 0..WatchdogMaxCallAttempts - 1
    /\ attempt \in 1..MaxFinalizeAttempts
    /\ sending \in {"prompt", "reprompt"}
    /\ tries \in 0..RetryMaxAttempts - 1
    /\ failure \in {"none", "stall", "transient"}
    /\ delivered \in BOOLEAN
    /\ live \in [Owners -> 0..MaxLivePrompts]
    /\ cancelled \in BOOLEAN
    /\ result \in [kind : {"none", "result", "error"},
                   outcome : Outcomes \cup {NoOutcome, "failure", "needs_review"},
                   cause : Causes]
    /\ late \in BOOLEAN

(* Type invariant of the Execute loop, its channels and the CLI's prompts. *)
TurnTypeOK == SubmitTypeOK /\ LoopTypeOK

Ends == stage # "idle" /\ stage' = "idle"

(* A finalize the model was told is recorded is what the Execute returns,  *)
(* unless the Execute ends for a reason of its own: the turn cap, the      *)
(* host's cancellation or a refusing host stream, a send that failed for   *)
(* good; or the call was accepted only after the return was decided, while *)
(* failExhausted, the restore of the effort or cleanup were still to come. *)
(* No stall, no session loss and no reprompt loop loses one accepted       *)
(* before.                                                                 *)
FinalizeNeverLost ==
    [][Ends /\ Recorded =>
          \/ result'.outcome = finalize.outcome
          \/ result'.cause \in {"max_turns", "ctx", "sink", "send", "setup"}
          \/ late]_turnVars

(* What the host was promised: see StepOutcome. *)
AnswersOf(h) == h.allowed \cup {"failure"} \cup Fallbacks(h.contracts)

Promise == INSTANCE StepOutcome WITH
    Requests <- Handshakes,
    Answers <- AnswersOf,
    running <- stage # "idle",
    request <- req,
    answer <- IF stage = "idle" THEN [kind |-> result.kind, outcome |-> result.outcome]
              ELSE [kind |-> Idle.kind, outcome |-> Idle.outcome],
    waiting <- pc \in Unsupervised

(* Every Execute ends once, with an error or with an outcome its own step  *)
(* declares, and it does end, unless the CLI leaves it in a call that no   *)
(* window covers.                                                          *)
KeepsPromise == Promise!Spec

(* turn.go:740: without a fallback contract of its own, a step whose       *)
(* finalize loop ran out fails as on the legacy path.                      *)
LegacyFailureWithoutFallback ==
    [][Ends /\ result'.cause = "exhausted" /\ Fallbacks(req.contracts) = {}
          => result'.outcome = "failure"]_turnVars

=============================================================================
