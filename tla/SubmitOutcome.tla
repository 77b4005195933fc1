--------------------------- MODULE SubmitOutcome ---------------------------
(***************************************************************************)
(* The submit_outcome channel of one adapter session (copilot_outcome.go): *)
(* the step handshake an Execute installs on the session, and the tool     *)
(* handler that classifies every submission of the model against it.       *)
(*                                                                         *)
(* The handler runs on a goroutine of the SDK.  It holds s.mu from its     *)
(* first check to its last assignment, so one submission is one step; the  *)
(* steps of the Execute goroutine (beginExecution, then the handshake)     *)
(* interleave with it.                                                     *)
(***************************************************************************)
EXTENDS Naturals, FiniteSets

CONSTANTS
    Outcomes,      \* names a host can declare or a model can submit (strings)
    Members,       \* names of payload members, "reason" and "comment" among them
    Handshakes,    \* the Execute requests the host may send
    Submissions,   \* the submit_outcome calls the model may make
    MaxAttempts,   \* bound on finalizeAttempts within one Execute
    StraySubmits   \* TRUE: a CLI turn may outlive its Execute and still submit

NoOutcome == ""

(* A payload: its JSON form and, of an object, its members.                *)
Payload ==
    {p \in [form : {"absent", "null", "junk", "object"}, members : SUBSET Members] :
        p.form # "object" => p.members = {}}

EmptyObject == [form |-> "object", members |-> {}]

(* An outcome contract. schema: does schema_json declare one; required: its *)
(* required members (every schema here also asks for an object).            *)
Contract == [declared : BOOLEAN, schema : BOOLEAN, required : SUBSET Members,
             requireComment : BOOLEAN, fallback : BOOLEAN]

NoContract == [declared |-> FALSE, schema |-> FALSE, required |-> {},
               requireComment |-> FALSE, fallback |-> FALSE]

NoContracts == [o \in Outcomes |-> NoContract]

Handshake == [allowed : SUBSET Outcomes, contracts : [Outcomes -> Contract]]

(* The arguments of a call: whether the envelope decodes, the trimmed      *)
(* outcome, whether reason and comment are non-blank, and the payload.     *)
Submission == [envelope : {"ok", "unknown_params", "malformed"},
               outcome : Outcomes \cup {NoOutcome},
               reason : BOOLEAN, comment : BOOLEAN, payload : Payload]

Kinds == {"", "missing", "invalid_outcome", "duplicate", "no_outcomes",
          "invalid_payload", "comment_missing", "invalid_params"}

Step == [allowed : SUBSET Outcomes, contractMode : BOOLEAN,
         contracts : [Outcomes -> Contract], fallback : Outcomes \cup {NoOutcome}]

Finalize == [outcome : Outcomes \cup {NoOutcome}, reason : BOOLEAN,
             payload : Payload, comment : BOOLEAN,
             attempts : 0..MaxAttempts, kind : Kinds, issues : BOOLEAN]

ASSUME OutcomesAssumption == Outcomes \subseteq STRING /\ NoOutcome \notin Outcomes
ASSUME InputsAssumption == Handshakes \subseteq Handshake /\ Submissions \subseteq Submission
ASSUME BoundsAssumption == MaxAttempts \in Nat /\ StraySubmits \in BOOLEAN

VARIABLES
    stage,      \* "idle": no Execute; "begun": beginExecution has run;
                \* "open": the handshake is installed
    step,       \* sessionState.activeAllowedOutcomes, contractMode,
                \* activeContracts, fallbackContractName
    finalize,   \* sessionState.finalized* and finalizeAttempts/FailureKind/Issues
    muHeld      \* a handler died holding s.mu: nobody takes it again

submitVars == <<stage, step, finalize, muHeld>>

NotFinalized ==
    [outcome |-> NoOutcome, reason |-> FALSE, payload |-> EmptyObject,
     comment |-> FALSE, attempts |-> 0, kind |-> "", issues |-> FALSE]

SubmitInit ==
    /\ stage = "idle"
    /\ step = [allowed |-> {}, contractMode |-> FALSE, contracts |-> NoContracts,
               fallback |-> NoOutcome]
    /\ finalize = NotFinalized
    /\ muHeld = FALSE

-----------------------------------------------------------------------------
(* The Execute side. *)

(* Mutant: the finalize of the previous Execute is not reset. *)
BeginWithoutReset ==
    /\ stage = "idle" /\ ~muHeld
    /\ stage' = "begun"
    /\ UNCHANGED <<step, finalize, muHeld>>

BeginExecution ==
    /\ stage = "idle" /\ ~muHeld
    /\ stage' = "begun"
    /\ finalize' = NotFinalized
    /\ UNCHANGED <<step, muHeld>>

Declared(contracts) == {o \in Outcomes : contracts[o].declared}

Fallbacks(contracts) == {o \in Declared(contracts) : contracts[o].fallback}

(* The fallback name Execute leaves on the session: cleared only when the  *)
(* request carries no contract at all.                                     *)
FallbackAfter(h) ==
    IF Declared(h.contracts) = {} THEN {NoOutcome}
    ELSE IF Fallbacks(h.contracts) = {} THEN {step.fallback}
    ELSE Fallbacks(h.contracts)

InstallHandshake(h) ==
    /\ stage = "begun" /\ ~muHeld
    /\ stage' = "open"
    /\ \E name \in FallbackAfter(h) :
          step' = [allowed |-> h.allowed,
                   contractMode |-> Declared(h.contracts) # {},
                   contracts |-> h.contracts,
                   fallback |-> name]
    /\ UNCHANGED <<finalize, muHeld>>

(* handleIdleTurn names the real cause of a step without outcomes before   *)
(* it fails the step, over whatever kind a refused call left.              *)
MarkNoOutcomes ==
    /\ stage = "open" /\ ~muHeld
    /\ finalize.outcome = NoOutcome /\ step.allowed = {}
    /\ finalize' = [finalize EXCEPT !.kind = "no_outcomes"]
    /\ UNCHANGED <<stage, step, muHeld>>

EndExecution ==
    /\ stage # "idle" /\ ~muHeld
    /\ stage' = "idle"
    /\ UNCHANGED <<step, finalize, muHeld>>

-----------------------------------------------------------------------------
(* The handler, one operator per check, in the order of the code. *)

Required(outcome) ==
    IF step.contracts[outcome].schema THEN step.contracts[outcome].required ELSE {}

Typed(outcome) == step.contracts[outcome].schema

(* The members foldDeclaredPayloadParams adds from top-level parameters.   *)
Folded(sub) ==
    {m \in Required(sub.outcome) \ sub.payload.members :
        \/ m = "reason" /\ sub.reason
        \/ m = "comment" /\ sub.comment}

(* Unmarshalling a literal null leaves the map nil: assigning to it panics. *)
FoldPanics(sub) == sub.payload.form = "null" /\ Folded(sub) # {}

(* The folded payload, absent and null normalised to the empty object.     *)
CanonicalPayload(sub) ==
    IF sub.payload.form = "junk" THEN sub.payload
    ELSE [form |-> "object", members |-> sub.payload.members \cup Folded(sub)]

PayloadFits(outcome, payload) ==
    Typed(outcome) => payload.form = "object" /\ Required(outcome) \subseteq payload.members

CommentMissing(outcome, comment) == step.contracts[outcome].requireComment /\ ~comment

(* Mutant: the legacy rules are applied to contract steps as well. *)
LegacyRefusesEverywhere(sub) ==
    sub.comment \/ sub.payload.form \in {"junk", "object"} \/ ~sub.reason

(* What the legacy lane refuses: parameters it would silently drop, and a  *)
(* submission without a reason.                                            *)
LegacyRefuses(sub) ==
    ~step.contractMode /\ (sub.comment \/ sub.payload.form \in {"junk", "object"} \/ ~sub.reason)

WrongLane(sub) == step.contractMode /\ Typed(sub.outcome) /\ sub.reason

(* Mutant: the comment of a contract is not checked. *)
ContractRefusesPayload(sub) ==
    step.contractMode /\ ~PayloadFits(sub.outcome, CanonicalPayload(sub))

ContractRefuses(sub) ==
    /\ step.contractMode
    /\ \/ CommentMissing(sub.outcome, sub.comment)
       \/ ~PayloadFits(sub.outcome, CanonicalPayload(sub))

(* Mutant: the name of the event is stored as the kind. *)
ContractEvent(sub) ==
    IF PayloadFits(sub.outcome, CanonicalPayload(sub)) THEN "comment_missing"
    ELSE "outcome.payload_invalid"

ContractKind(sub) ==
    IF PayloadFits(sub.outcome, CanonicalPayload(sub)) THEN "comment_missing"
    ELSE "invalid_payload"

(* An undecoded envelope is refused before anything else is looked at.     *)
Decoded(sub) == sub.envelope = "ok"
(* Mutant: no check for an earlier finalize. *)
FreshAlways(sub) == Decoded(sub)
Fresh(sub) == Decoded(sub) /\ finalize.outcome = NoOutcome
Eligible(sub) == Fresh(sub) /\ sub.outcome \in step.allowed
InLane(sub) == ~FoldPanics(sub) /\ ~LegacyRefuses(sub) /\ ~WrongLane(sub)
Accepts(sub) == Eligible(sub) /\ InLane(sub) /\ ~ContractRefuses(sub)

(* Mutant: the attempt is counted, its kind is not kept. *)
RejectSilently(kind) == finalize' = [finalize EXCEPT !.attempts = @ + 1]

Reject(kind) ==
    finalize' = [finalize EXCEPT !.attempts = @ + 1, !.kind = kind]

RejectUndecodable(sub) ==
    /\ ~Decoded(sub)
    /\ Reject(IF sub.envelope = "unknown_params" THEN "invalid_params" ELSE "invalid_outcome")
    /\ UNCHANGED muHeld

RejectDuplicate(sub) ==
    /\ Decoded(sub) /\ finalize.outcome # NoOutcome
    /\ finalize' = [finalize EXCEPT !.kind = "duplicate"]
    /\ UNCHANGED muHeld

RejectOutcome(sub) ==
    /\ Fresh(sub) /\ sub.outcome \notin step.allowed
    /\ Reject(IF sub.outcome = NoOutcome THEN "missing"
              ELSE IF step.allowed = {} THEN "no_outcomes"
              ELSE "invalid_outcome")
    /\ UNCHANGED muHeld

PanicInFold(sub) ==
    /\ Eligible(sub) /\ FoldPanics(sub)
    /\ finalize' = [finalize EXCEPT !.attempts = @ + 1]
    /\ muHeld' = TRUE

RejectLane(sub) ==
    /\ Eligible(sub) /\ ~FoldPanics(sub)
    /\ LegacyRefuses(sub) \/ WrongLane(sub)
    /\ Reject("invalid_params")
    /\ UNCHANGED muHeld

RejectContract(sub) ==
    /\ Eligible(sub) /\ InLane(sub) /\ ContractRefuses(sub)
    /\ finalize' = [finalize EXCEPT !.attempts = @ + 1, !.kind = ContractKind(sub),
                                    !.issues = TRUE]
    /\ UNCHANGED muHeld

Accept(sub) ==
    /\ Accepts(sub)
    /\ finalize' = [finalize EXCEPT
                       !.attempts = @ + 1,
                       !.outcome = sub.outcome,
                       !.reason = sub.reason,
                       !.payload = IF step.contractMode THEN CanonicalPayload(sub) ELSE @,
                       !.comment = IF step.contractMode THEN sub.comment ELSE @]
    /\ UNCHANGED muHeld

(* One submit_outcome call. Outside an open step only a CLI turn that      *)
(* outlived its Execute can make it. A duplicate is not counted, so the    *)
(* bound does not concern it.                                              *)
SubmitOutcome(sub) ==
    /\ ~muHeld
    /\ stage = "open" \/ StraySubmits
    /\ \/ RejectDuplicate(sub)
       \/ /\ finalize.attempts < MaxAttempts
          /\ \/ RejectUndecodable(sub)
             \/ RejectOutcome(sub)
             \/ PanicInFold(sub)
             \/ RejectLane(sub)
             \/ RejectContract(sub)
             \/ Accept(sub)
    /\ UNCHANGED <<stage, step>>

SubmitNext ==
    \/ BeginExecution
    \/ \E h \in Handshakes : InstallHandshake(h)
    \/ MarkNoOutcomes
    \/ EndExecution
    \/ \E sub \in Submissions : SubmitOutcome(sub)

SubmitSpec == SubmitInit /\ [][SubmitNext]_submitVars

-----------------------------------------------------------------------------
(* Properties. *)

(* Type invariant of the channel's session fields. *)
SubmitTypeOK ==
    /\ stage \in {"idle", "begun", "open"}
    /\ step \in Step
    /\ finalize \in Finalize
    /\ muHeld \in BOOLEAN

Answer == [outcome |-> finalize.outcome, reason |-> finalize.reason,
           payload |-> finalize.payload, comment |-> finalize.comment]

(* What a recorded finalize must satisfy for the step it belongs to: a     *)
(* declared outcome; on a legacy step a reason and nothing the step would  *)
(* drop; under a contract the schema, the comment, and no reason beside a  *)
(* typed payload.                                                          *)
FitsStep(answer) ==
    /\ answer.outcome \in step.allowed
    /\ step.contractMode =>
          /\ PayloadFits(answer.outcome, answer.payload)
          /\ ~CommentMissing(answer.outcome, answer.comment)
          /\ ~(Typed(answer.outcome) /\ answer.reason)
    /\ ~step.contractMode => answer.reason /\ ~answer.comment /\ answer.payload = EmptyObject

(* While a step is open, a recorded finalize is valid for THAT step        *)
(* (handleSubmitOutcome validates against the session's current handshake, *)
(* Execute replaces the handshake).                                        *)
RecordedFitsStep == stage = "open" /\ finalize.outcome # NoOutcome => FitsStep(Answer)

(* The first accepted submission of an Execute stands: later calls, valid, *)
(* invalid or undecodable, change neither outcome, reason, payload nor     *)
(* comment until the next beginExecution resets them.                      *)
FirstFinalizeStands ==
    [][stage # "idle" /\ finalize.outcome # NoOutcome => Answer' = Answer]_submitVars

(* "duplicate" is reported only of a step that has a finalize, and a step  *)
(* whose calls were all refused always has a kind to report: failExhausted *)
(* falls back on "missing" only when no call was made.                     *)
KindExplainsRefusal ==
    /\ finalize.kind = "duplicate" => finalize.outcome # NoOutcome
    /\ ~muHeld /\ finalize.attempts > 0 /\ finalize.outcome = NoOutcome => finalize.kind # ""

(* The lanes do not contradict each other: whatever the handshake, an open *)
(* step with an allowed outcome and no finalize yet has a submission the   *)
(* handler accepts, so no rejection text asks the model for the impossible.*)
StepCanBeFinalized ==
    stage = "open" /\ finalize.outcome = NoOutcome /\ step.allowed # {}
        => \E sub \in Submission : Accepts(sub)

(* outcome.go:222: a ToolResult is returned in every case, so the handler  *)
(* never dies holding the session lock.                                    *)
AlwaysAnswers == ~muHeld

=============================================================================
