-------------------------- MODULE MCSubmitOutcome --------------------------
(* Small instances of SubmitOutcome: two outcomes, three payload members,  *)
(* one handshake per lane, and every call the model can make with them.    *)
EXTENDS SubmitOutcome

MCOutcomes == {"success", "failure"}
MCMembers == {"reason", "comment", "summary"}

Typing(required, requireComment, fallback) ==
    [declared |-> TRUE, schema |-> TRUE, required |-> required,
     requireComment |-> requireComment, fallback |-> fallback]

Untyped(requireComment, fallback) ==
    [declared |-> TRUE, schema |-> FALSE, required |-> {},
     requireComment |-> requireComment, fallback |-> fallback]

Only(outcome, contract) == [NoContracts EXCEPT ![outcome] = contract]

LegacyStep == [allowed |-> MCOutcomes, contracts |-> NoContracts]
EmptyStep == [allowed |-> {}, contracts |-> NoContracts]
TypedStep == [allowed |-> MCOutcomes,
              contracts |-> Only("success", Typing({"summary"}, TRUE, FALSE))]
FoldStep == [allowed |-> {"success"},
             contracts |-> Only("success", Typing({"reason", "comment"}, FALSE, FALSE))]
FallbackStep == [allowed |-> {"success"},
                 contracts |-> Only("failure", Untyped(FALSE, TRUE))]
CommentStep == [allowed |-> {"success"},
                contracts |-> Only("success", Untyped(TRUE, FALSE))]

MCHandshakes == {LegacyStep, EmptyStep, TypedStep, FoldStep, FallbackStep, CommentStep}

MCSubmissions == {sub \in Submission : sub.envelope # "ok" =>
                     /\ sub.outcome = NoOutcome /\ ~sub.reason /\ ~sub.comment
                     /\ sub.payload.form = "absent"}
=============================================================================
