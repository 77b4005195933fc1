------------------------------- MODULE MCTurn -------------------------------
(* Small instances of Turn: a legacy step, one without outcomes, and       *)
(* contract steps with and without a fallback; a call that is accepted,    *)
(* one that is refused.                                                    *)
EXTENDS Turn

MCOutcomes == {"success", "failure", "needs_review"}
MCMembers == {"reason", "summary"}

LegacyStep == [allowed |-> {"success"}, contracts |-> NoContracts]
ReviewStep == [allowed |-> {"failure", "needs_review"}, contracts |-> NoContracts]
EmptyStep == [allowed |-> {}, contracts |-> NoContracts]

Contracted(outcome, fallback) ==
    [NoContracts EXCEPT ![outcome] =
        [declared |-> TRUE, schema |-> FALSE, required |-> {},
         requireComment |-> FALSE, fallback |-> fallback]]

ContractStep == [allowed |-> {"success"}, contracts |-> Contracted("success", FALSE)]
FallbackStep == [allowed |-> {"success"}, contracts |-> Contracted("needs_review", TRUE)]

Call(outcome) ==
    [envelope |-> "ok", outcome |-> outcome, reason |-> TRUE, comment |-> FALSE,
     payload |-> [form |-> "absent", members |-> {}]]

MCSubmissions == {Call("success"), Call(NoOutcome)}

(* Steps of which none takes over the fallback of an earlier one. *)
OwnFallbackSteps == {LegacyStep, ReviewStep, EmptyStep, FallbackStep}
TwoSteps == {ReviewStep, FallbackStep}
AllSteps == {LegacyStep, ReviewStep, EmptyStep, ContractStep, FallbackStep}
=============================================================================
