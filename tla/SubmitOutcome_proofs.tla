------------------------ MODULE SubmitOutcome_proofs ------------------------
(* What holds of SubmitOutcome for every value of its constants: any number *)
(* of outcomes, handshakes, payload members and calls.                     *)
EXTENDS SubmitOutcome, TLAPS

-----------------------------------------------------------------------------
(* Helpers: the types of what the handler computes. *)

(* A declared outcome has a contract record, whatever the handshake.       *)
LEMMA StepFields ==
    ASSUME step \in Step
    PROVE  /\ step.allowed \subseteq Outcomes
           /\ step.contractMode \in BOOLEAN
           /\ step.contracts \in [Outcomes -> Contract]
           /\ step.fallback \in Outcomes \cup {NoOutcome}
BY DEF Step

LEMMA RequiredType ==
    ASSUME step \in Step, NEW o \in Outcomes
    PROVE  Required(o) \subseteq Members
<1>1. step.contracts[o] \in Contract
  BY StepFields
<1> QED
  BY <1>1 DEF Required, Contract

(* Folding top-level parameters and normalising an absent payload yields a *)
(* payload again.                                                          *)
LEMMA CanonicalPayloadType ==
    ASSUME step \in Step, NEW sub \in Submission, sub.outcome \in Outcomes
    PROVE  CanonicalPayload(sub) \in Payload
<1>1. sub.payload \in Payload
  BY DEF Submission
<1>2. sub.payload.members \subseteq Members
  BY <1>1 DEF Payload
<1>3. Folded(sub) \subseteq Members
  BY RequiredType DEF Folded
<1>4. CASE sub.payload.form = "junk"
  BY <1>1, <1>4 DEF CanonicalPayload
<1>5. CASE sub.payload.form # "junk"
  <2>1. CanonicalPayload(sub) =
          [form |-> "object", members |-> sub.payload.members \cup Folded(sub)]
    BY <1>5 DEF CanonicalPayload
  <2> QED
    BY <2>1, <1>2, <1>3 DEF Payload
<1> QED
  BY <1>4, <1>5

LEMMA NotFinalizedType == NotFinalized \in Finalize
BY BoundsAssumption DEF NotFinalized, Finalize, EmptyObject, Payload, Kinds

-----------------------------------------------------------------------------
(* Type correctness. *)

LEMMA InitTyped == SubmitInit => SubmitTypeOK
<1> SUFFICES ASSUME SubmitInit PROVE SubmitTypeOK
  OBVIOUS
<1>1. NoContracts \in [Outcomes -> Contract]
  BY DEF NoContracts, NoContract, Contract
<1>2. step \in Step
  BY <1>1 DEF SubmitInit, Step
<1> QED
  BY <1>2, NotFinalizedType DEF SubmitInit, SubmitTypeOK

LEMMA FallbackTyped ==
    ASSUME step \in Step, NEW h \in Handshake
    PROVE  FallbackAfter(h) \subseteq Outcomes \cup {NoOutcome}
BY StepFields DEF FallbackAfter, Fallbacks, Declared

LEMMA InstallTyped ==
    ASSUME SubmitTypeOK, NEW h \in Handshakes, InstallHandshake(h)
    PROVE  SubmitTypeOK'
<1>1. h \in Handshake /\ step \in Step
  BY InputsAssumption DEF SubmitTypeOK
<1>2. h.allowed \subseteq Outcomes /\ h.contracts \in [Outcomes -> Contract]
  BY <1>1 DEF Handshake
<1>3. PICK name \in FallbackAfter(h) :
        step' = [allowed |-> h.allowed,
                 contractMode |-> Declared(h.contracts) # {},
                 contracts |-> h.contracts,
                 fallback |-> name]
  BY DEF InstallHandshake
<1>4. name \in Outcomes \cup {NoOutcome}
  BY <1>1, FallbackTyped
<1>5. step' \in Step
  BY <1>2, <1>3, <1>4 DEF Step
<1> QED
  BY <1>5 DEF InstallHandshake, SubmitTypeOK

(* One call of the handler. *)
LEMMA SubmitTyped ==
    ASSUME SubmitTypeOK, NEW sub \in Submissions, SubmitOutcome(sub)
    PROVE  SubmitTypeOK'
<1> DEFINE more == finalize.attempts + 1
<1>0. sub \in Submission /\ step \in Step /\ finalize \in Finalize /\ muHeld = FALSE
  BY InputsAssumption DEF SubmitTypeOK, SubmitOutcome
<1> DEFINE counted == finalize.attempts < MaxAttempts
<1>1. counted => more \in 0..MaxAttempts
  BY <1>0, BoundsAssumption DEF Finalize
<1>2. UNCHANGED <<stage, step>> /\ stage \in {"idle", "begun", "open"}
  BY DEF SubmitOutcome, SubmitTypeOK
<1>3. ASSUME NEW kind \in Kinds, counted, Reject(kind)
      PROVE  finalize' \in Finalize
  BY <1>0, <1>1, <1>3 DEF Reject, Finalize
<1>4. CASE counted /\ RejectUndecodable(sub)
  BY <1>0, <1>2, <1>3, <1>4 DEF RejectUndecodable, Kinds, SubmitTypeOK
<1>5. CASE RejectDuplicate(sub)
  <2>1. finalize' \in Finalize
    BY <1>0, <1>5 DEF RejectDuplicate, Finalize, Kinds
  <2> QED
    BY <2>1, <1>0, <1>2, <1>5 DEF RejectDuplicate, SubmitTypeOK
<1>6. CASE counted /\ RejectOutcome(sub)
  BY <1>0, <1>2, <1>3, <1>6 DEF RejectOutcome, Kinds, SubmitTypeOK
<1>7. CASE counted /\ PanicInFold(sub)
  <2>1. finalize' \in Finalize
    BY <1>0, <1>1, <1>7 DEF PanicInFold, Finalize
  <2> QED
    BY <2>1, <1>0, <1>2, <1>7 DEF PanicInFold, SubmitTypeOK
<1>8. CASE counted /\ RejectLane(sub)
  BY <1>0, <1>2, <1>3, <1>8 DEF RejectLane, Kinds, SubmitTypeOK
<1>9. CASE counted /\ RejectContract(sub)
  <2>1. ContractKind(sub) \in Kinds
    BY DEF ContractKind, Kinds
  <2>2. finalize' \in Finalize
    BY <2>1, <1>0, <1>1, <1>9 DEF RejectContract, Finalize
  <2> QED
    BY <2>2, <1>0, <1>2, <1>9 DEF RejectContract, SubmitTypeOK
<1>10. CASE counted /\ Accept(sub)
  <2>1. sub.outcome \in Outcomes
    BY <1>0, <1>10, StepFields DEF Accept, Accepts, Eligible
  <2>2. CanonicalPayload(sub) \in Payload
    BY <1>0, <2>1, CanonicalPayloadType
  <2>3. sub.reason \in BOOLEAN /\ sub.comment \in BOOLEAN
    BY <1>0 DEF Submission
  <2>4. finalize' \in Finalize
    BY <2>1, <2>2, <2>3, <1>0, <1>1, <1>10 DEF Accept, Finalize
  <2> QED
    BY <2>4, <1>0, <1>2, <1>10 DEF Accept, SubmitTypeOK
<1> QED
  BY <1>4, <1>5, <1>6, <1>7, <1>8, <1>9, <1>10 DEF SubmitOutcome

LEMMA StepTyped == SubmitTypeOK /\ [SubmitNext]_submitVars => SubmitTypeOK'
<1> SUFFICES ASSUME SubmitTypeOK, [SubmitNext]_submitVars
             PROVE  SubmitTypeOK'
  OBVIOUS
<1>1. CASE BeginExecution
  BY <1>1, NotFinalizedType DEF BeginExecution, SubmitTypeOK
<1>2. CASE \E h \in Handshakes : InstallHandshake(h)
  BY <1>2, InstallTyped
<1>3. CASE MarkNoOutcomes
  <2>1. finalize' \in Finalize
    BY <1>3 DEF MarkNoOutcomes, SubmitTypeOK, Finalize, Kinds
  <2> QED
    BY <2>1, <1>3 DEF MarkNoOutcomes, SubmitTypeOK
<1>4. CASE EndExecution
  BY <1>4 DEF EndExecution, SubmitTypeOK
<1>5. CASE \E sub \in Submissions : SubmitOutcome(sub)
  BY <1>5, SubmitTyped
<1>6. CASE UNCHANGED submitVars
  BY <1>6 DEF submitVars, SubmitTypeOK
<1> QED
  BY <1>1, <1>2, <1>3, <1>4, <1>5, <1>6 DEF SubmitNext

(* The session fields of the channel keep their types: the reset of        *)
(* beginExecution, the handshake Execute installs and every answer of the  *)
(* handler leave a well-formed step and a well-formed finalize.            *)
THEOREM TypeCorrect == SubmitSpec => []SubmitTypeOK
<1>1. SubmitInit => SubmitTypeOK
  BY InitTyped
<1>2. SubmitTypeOK /\ [SubmitNext]_submitVars => SubmitTypeOK'
  BY StepTyped
<1> QED
  BY <1>1, <1>2, PTL DEF SubmitSpec

-----------------------------------------------------------------------------
(* The first accepted submission stands. *)

(* While a finalize is recorded no call reaches Accept, and the others     *)
(* leave the answer alone.                                                 *)
LEMMA CallKeepsAnswer ==
    ASSUME SubmitTypeOK, finalize.outcome # NoOutcome,
           NEW sub \in Submissions, SubmitOutcome(sub)
    PROVE  Answer' = Answer
<1>0. finalize \in Finalize
  BY DEF SubmitTypeOK
<1>1. ~Fresh(sub) /\ ~Eligible(sub)
  BY DEF Fresh, Eligible
<1>2. CASE RejectUndecodable(sub)
  BY <1>0, <1>2 DEF RejectUndecodable, Reject, Answer, Finalize
<1>3. CASE RejectDuplicate(sub)
  BY <1>0, <1>3 DEF RejectDuplicate, Answer, Finalize
<1> QED
  BY <1>1, <1>2, <1>3
     DEF SubmitOutcome, RejectOutcome, PanicInFold, RejectLane, RejectContract, Accept, Accepts

(* Once an Execute has a finalize, nothing changes its outcome, reason,    *)
(* payload or comment before the next beginExecution: the duplicate check  *)
(* of handleSubmitOutcome precedes every other use of the arguments.       *)
THEOREM FirstStands == SubmitSpec => FirstFinalizeStands
<1>1. SubmitTypeOK /\ [SubmitNext]_submitVars
        => [stage # "idle" /\ finalize.outcome # NoOutcome => Answer' = Answer]_submitVars
  <2> SUFFICES ASSUME SubmitTypeOK, SubmitNext,
                      stage # "idle", finalize.outcome # NoOutcome
               PROVE  Answer' = Answer
    BY DEF submitVars
  <2>1. CASE BeginExecution
    BY <2>1 DEF BeginExecution
  <2>2. CASE \E h \in Handshakes : InstallHandshake(h)
    BY <2>2 DEF InstallHandshake, Answer
  <2>3. CASE MarkNoOutcomes
    BY <2>3 DEF MarkNoOutcomes
  <2>4. CASE EndExecution
    BY <2>4 DEF EndExecution, Answer
  <2>5. CASE \E sub \in Submissions : SubmitOutcome(sub)
    BY <2>5, CallKeepsAnswer
  <2> QED
    BY <2>1, <2>2, <2>3, <2>4, <2>5 DEF SubmitNext
<1> QED
  BY <1>1, TypeCorrect, PTL DEF SubmitSpec, FirstFinalizeStands

-----------------------------------------------------------------------------
(* A recorded finalize fits its step. *)

(* Before a finalize is recorded the deliverable fields still hold what    *)
(* beginExecution put there, and before the handshake nothing is recorded. *)
NothingYet ==
    /\ stage = "begun" => finalize.outcome = NoOutcome
    /\ stage # "idle" /\ finalize.outcome = NoOutcome
          => finalize.payload = EmptyObject /\ ~finalize.comment

FitsInv == SubmitTypeOK /\ NothingYet /\ RecordedFitsStep

(* No call is handled between the reset of beginExecution and the new      *)
(* handshake: what reaches the handler there is judged against the step    *)
(* before, and stays.                                                      *)
NoneBeforeHandshake == stage = "begun" => UNCHANGED finalize

(* What handleSubmitOutcome accepts fits the handshake it was checked      *)
(* against.                                                                *)
LEMMA AcceptFits ==
    ASSUME SubmitTypeOK, NothingYet, stage = "open",
           NEW sub \in Submissions, Accept(sub), UNCHANGED step
    PROVE  FitsStep(Answer)'
<1>0. finalize \in Finalize /\ sub \in Submission /\ step \in Step
  BY InputsAssumption DEF SubmitTypeOK
<1>1. /\ sub.outcome \in step.allowed /\ finalize.outcome = NoOutcome
      /\ ~LegacyRefuses(sub) /\ ~WrongLane(sub) /\ ~ContractRefuses(sub)
  BY DEF Accept, Accepts, Eligible, Fresh, InLane
<1>2. finalize.payload = EmptyObject /\ ~finalize.comment
  BY <1>1 DEF NothingYet
<1>3. /\ finalize'.outcome = sub.outcome
      /\ finalize'.reason = sub.reason
      /\ finalize'.payload = IF step.contractMode THEN CanonicalPayload(sub)
                             ELSE finalize.payload
      /\ finalize'.comment = IF step.contractMode THEN sub.comment ELSE finalize.comment
  BY <1>0 DEF Accept, Finalize
<1>4. Answer' = [outcome |-> finalize'.outcome, reason |-> finalize'.reason,
                 payload |-> finalize'.payload, comment |-> finalize'.comment]
  BY DEF Answer
<1>5. CASE step.contractMode
  <2>1. PayloadFits(sub.outcome, CanonicalPayload(sub)) /\ ~CommentMissing(sub.outcome, sub.comment)
    BY <1>1, <1>5 DEF ContractRefuses
  <2>2. ~(Typed(sub.outcome) /\ sub.reason)
    BY <1>1, <1>5 DEF WrongLane
  <2> QED
    BY <1>1, <1>3, <1>4, <1>5, <2>1, <2>2
       DEF FitsStep, PayloadFits, Typed, Required, CommentMissing
<1>6. CASE ~step.contractMode
  BY <1>1, <1>2, <1>3, <1>4, <1>6 DEF FitsStep, LegacyRefuses
<1> QED
  BY <1>5, <1>6

LEMMA CallFits ==
    ASSUME FitsInv, SubmitTypeOK', NoneBeforeHandshake,
           NEW sub \in Submissions, SubmitOutcome(sub)
    PROVE  FitsInv'
<1>0. finalize \in Finalize /\ stage' = stage /\ step' = step
  BY DEF FitsInv, SubmitTypeOK, SubmitOutcome
<1>a. CASE stage = "idle"
  BY <1>0, <1>a DEF FitsInv, NothingYet, RecordedFitsStep
<1>b. CASE stage = "begun"
  BY <1>0, <1>b DEF FitsInv, NothingYet, RecordedFitsStep, NoneBeforeHandshake
<1>1. CASE stage = "open" /\ Accept(sub)
  <2>1. FitsStep(Answer)'
    BY <1>0, <1>1, AcceptFits DEF FitsInv
  <2>2. finalize'.outcome # NoOutcome
    <3>1. sub.outcome \in Outcomes
      BY <1>1, StepFields DEF Accept, Accepts, Eligible, FitsInv, SubmitTypeOK
    <3> QED
      BY <3>1, <1>0, <1>1, OutcomesAssumption DEF Accept, Finalize
  <2> QED
    BY <1>0, <1>1, <2>1, <2>2 DEF FitsInv, NothingYet, RecordedFitsStep
<1>2. CASE stage = "open" /\ ~Accept(sub)
  <2>1. Answer' = Answer
    <3>1. CASE RejectUndecodable(sub)
      BY <1>0, <3>1 DEF RejectUndecodable, Reject, Answer, Finalize
    <3>2. CASE RejectDuplicate(sub)
      BY <1>0, <3>2 DEF RejectDuplicate, Answer, Finalize
    <3>3. CASE RejectOutcome(sub)
      BY <1>0, <3>3 DEF RejectOutcome, Reject, Answer, Finalize
    <3>4. CASE PanicInFold(sub)
      BY <1>0, <3>4 DEF PanicInFold, Answer, Finalize
    <3>5. CASE RejectLane(sub)
      BY <1>0, <3>5 DEF RejectLane, Reject, Answer, Finalize
    <3>6. CASE RejectContract(sub)
      BY <1>0, <3>6 DEF RejectContract, Answer, Finalize
    <3> QED
      BY <1>2, <3>1, <3>2, <3>3, <3>4, <3>5, <3>6 DEF SubmitOutcome
  <2>2. /\ finalize'.outcome = finalize.outcome
        /\ finalize'.payload = finalize.payload
        /\ finalize'.comment = finalize.comment
    BY <2>1 DEF Answer
  <2> QED
    BY <1>0, <2>1, <2>2
       DEF FitsInv, NothingYet, RecordedFitsStep, FitsStep, PayloadFits, Typed, Required,
           CommentMissing
<1> QED
  BY <1>1, <1>2, <1>a, <1>b DEF FitsInv, SubmitTypeOK

(* While a step is open its recorded finalize is valid for that very step, *)
(* whatever turns outlive their Executes, unless one of them is heard in   *)
(* the window between beginExecution and the handshake.                    *)
THEOREM RecordedFits ==
    SubmitSpec /\ [][NoneBeforeHandshake]_submitVars => []RecordedFitsStep
<1>1. SubmitInit => FitsInv
  BY InitTyped DEF FitsInv, NothingYet, RecordedFitsStep, SubmitInit
<1>2. /\ FitsInv /\ SubmitTypeOK'
      /\ [SubmitNext]_submitVars /\ [NoneBeforeHandshake]_submitVars
      => FitsInv'
  <2> SUFFICES ASSUME FitsInv, SubmitTypeOK', [SubmitNext]_submitVars,
                      [NoneBeforeHandshake]_submitVars
               PROVE  FitsInv'
    OBVIOUS
  <2>1. CASE BeginExecution
    BY <2>1 DEF BeginExecution, FitsInv, NothingYet, RecordedFitsStep, NotFinalized
  <2>2. CASE \E h \in Handshakes : InstallHandshake(h)
    BY <2>2 DEF InstallHandshake, FitsInv, NothingYet, RecordedFitsStep
  <2>3. CASE MarkNoOutcomes
    <3>1. /\ finalize.outcome = NoOutcome /\ finalize'.outcome = NoOutcome
          /\ finalize'.payload = finalize.payload /\ finalize'.comment = finalize.comment
          /\ stage' = stage
      BY <2>3 DEF MarkNoOutcomes, FitsInv, SubmitTypeOK, Finalize
    <3> QED
      BY <3>1 DEF FitsInv, NothingYet, RecordedFitsStep
  <2>4. CASE EndExecution
    BY <2>4 DEF EndExecution, FitsInv, NothingYet, RecordedFitsStep
  <2>5. CASE UNCHANGED submitVars
    BY <2>5 DEF submitVars, FitsInv, NothingYet, RecordedFitsStep, FitsStep, Answer,
                PayloadFits, Typed, Required, CommentMissing
  <2>6. CASE \E sub \in Submissions : SubmitOutcome(sub)
    BY <2>5, <2>6, CallFits
  <2> QED
    BY <2>1, <2>2, <2>3, <2>4, <2>5, <2>6 DEF SubmitNext
<1>3. FitsInv => RecordedFitsStep
  BY DEF FitsInv
<1> QED
  BY <1>1, <1>2, <1>3, TypeCorrect, PTL DEF SubmitSpec

(* In particular when no turn outlives its Execute. *)
LEMMA NothingStray ==
    ASSUME ~StraySubmits
    PROVE  [SubmitNext]_submitVars => [NoneBeforeHandshake]_submitVars
BY DEF SubmitNext, BeginExecution, InstallHandshake, MarkNoOutcomes, EndExecution,
       SubmitOutcome, NoneBeforeHandshake, submitVars

(* An Execute whose predecessors left no turn behind records only what is  *)
(* valid for its step.                                                     *)
THEOREM RecordedFitsAlone ==
    ASSUME ~StraySubmits
    PROVE  SubmitSpec => []RecordedFitsStep
BY RecordedFits, NothingStray, PTL DEF SubmitSpec

-----------------------------------------------------------------------------
(* The lanes never contradict each other. *)

(* Whatever handshake the host sends, an open step with an allowed outcome *)
(* has a submission the handler accepts: the rules of the legacy lane, of  *)
(* the wrong-lane check and of the contracts can always be met together.   *)
THEOREM CanBeFinalized == SubmitSpec => []StepCanBeFinalized
<1>1. SubmitTypeOK => StepCanBeFinalized
  <2> SUFFICES ASSUME SubmitTypeOK, finalize.outcome = NoOutcome, step.allowed # {}
               PROVE  \E sub \in Submission : Accepts(sub)
    BY DEF StepCanBeFinalized
  <2>1. PICK o \in step.allowed : TRUE
    OBVIOUS
  <2>2. o \in Outcomes /\ step \in Step /\ step.contractMode \in BOOLEAN
    BY StepFields DEF SubmitTypeOK
  <2>3. CASE ~step.contractMode
    <3> DEFINE sub == [envelope |-> "ok", outcome |-> o, reason |-> TRUE, comment |-> FALSE,
                       payload |-> [form |-> "absent", members |-> {}]]
    <3>1. sub \in Submission
      BY <2>2 DEF Submission, Payload
    <3>2. Accepts(sub)
      BY <2>3 DEF Accepts, Eligible, Fresh, Decoded, InLane, FoldPanics, LegacyRefuses,
                  WrongLane, ContractRefuses
    <3> QED
      BY <3>1, <3>2
  <2>4. CASE step.contractMode
    <3> DEFINE sub == [envelope |-> "ok", outcome |-> o, reason |-> FALSE, comment |-> TRUE,
                       payload |-> [form |-> "object", members |-> Required(o)]]
    <3>1. sub \in Submission
      <4>1. Required(o) \subseteq Members
        BY <2>2, RequiredType
      <4> QED
        BY <4>1, <2>2 DEF Submission, Payload
    <3>2. CanonicalPayload(sub) = [form |-> "object", members |-> Required(o)]
      BY DEF CanonicalPayload, Folded
    <3>3. ~ContractRefuses(sub)
      <4>1. sub.outcome = o /\ sub.comment = TRUE
        OBVIOUS
      <4> HIDE DEF sub
      <4>2. ~CommentMissing(sub.outcome, sub.comment)
        BY <4>1 DEF CommentMissing
      <4>3. PayloadFits(o, CanonicalPayload(sub))
        BY <3>2 DEF PayloadFits
      <4> QED
        BY <4>1, <4>2, <4>3 DEF ContractRefuses
    <3>4. ~FoldPanics(sub) /\ ~LegacyRefuses(sub) /\ ~WrongLane(sub)
      BY <2>4 DEF FoldPanics, LegacyRefuses, WrongLane
    <3>5. Eligible(sub)
      BY DEF Eligible, Fresh, Decoded
    <3> QED
      BY <3>1, <3>3, <3>4, <3>5 DEF Accepts, InLane
  <2> QED
    BY <2>2, <2>3, <2>4
<1> QED
  BY <1>1, TypeCorrect, PTL

-----------------------------------------------------------------------------
(* The kind that failExhausted reports. *)

LEMMA CallExplained ==
    ASSUME SubmitTypeOK, KindExplainsRefusal,
           NEW sub \in Submissions, SubmitOutcome(sub)
    PROVE  KindExplainsRefusal'
<1>0. finalize \in Finalize /\ sub \in Submission /\ muHeld = FALSE
  BY InputsAssumption DEF SubmitTypeOK, SubmitOutcome
<1>1. ASSUME NEW kind \in Kinds \ {"", "duplicate"}, Reject(kind)
      PROVE  KindExplainsRefusal'
  BY <1>0, <1>1 DEF Reject, Finalize, KindExplainsRefusal
<1>2. CASE RejectUndecodable(sub)
  BY <1>1, <1>2 DEF RejectUndecodable, Kinds
<1>3. CASE RejectDuplicate(sub)
  BY <1>0, <1>3 DEF RejectDuplicate, Finalize, KindExplainsRefusal
<1>4. CASE RejectOutcome(sub)
  BY <1>1, <1>4 DEF RejectOutcome, Kinds
<1>5. CASE PanicInFold(sub)
  BY <1>0, <1>5 DEF PanicInFold, Finalize, KindExplainsRefusal, Eligible, Fresh
<1>6. CASE RejectLane(sub)
  BY <1>1, <1>6 DEF RejectLane, Kinds
<1>7. CASE RejectContract(sub)
  <2>1. finalize'.kind = ContractKind(sub)
    BY <1>0, <1>7 DEF RejectContract, Finalize
  <2>2. finalize'.kind \notin {"", "duplicate"}
    BY <2>1 DEF ContractKind
  <2> QED
    BY <2>2 DEF KindExplainsRefusal
<1>8. CASE Accept(sub)
  <2>1. sub.outcome \in Outcomes
    BY <1>8, StepFields DEF Accept, Accepts, Eligible, SubmitTypeOK
  <2>2. finalize'.outcome # NoOutcome
    BY <2>1, <1>0, <1>8, OutcomesAssumption DEF Accept, Finalize
  <2> QED
    BY <2>2 DEF KindExplainsRefusal
<1> QED
  BY <1>2, <1>3, <1>4, <1>5, <1>6, <1>7, <1>8 DEF SubmitOutcome

LEMMA NotFinalizedUnexplained == NotFinalized.kind = "" /\ ~(NotFinalized.attempts > 0)
<1>1. NotFinalized.kind = "" /\ NotFinalized.attempts = 0
  BY DEF NotFinalized
<1>2. ~(0 > 0)
  OBVIOUS
<1>3. ~(NotFinalized.attempts > 0)
  BY <1>1, <1>2, Zenon
<1> QED
  BY <1>1, <1>3

(* "duplicate" is never the reason of a step without a finalize, and a     *)
(* step whose calls were all refused never fails without a reason.         *)
THEOREM KindExplains == SubmitSpec => []KindExplainsRefusal
<1>1. SubmitInit => KindExplainsRefusal
  BY NotFinalizedUnexplained DEF SubmitInit, KindExplainsRefusal
<1>2. SubmitTypeOK /\ KindExplainsRefusal /\ [SubmitNext]_submitVars => KindExplainsRefusal'
  <2> SUFFICES ASSUME SubmitTypeOK, KindExplainsRefusal, [SubmitNext]_submitVars
               PROVE  KindExplainsRefusal'
    OBVIOUS
  <2>1. CASE BeginExecution
    BY <2>1, NotFinalizedUnexplained DEF BeginExecution, KindExplainsRefusal
  <2>2. CASE \E h \in Handshakes : InstallHandshake(h)
    BY <2>2 DEF InstallHandshake, KindExplainsRefusal
  <2>3. CASE MarkNoOutcomes
    BY <2>3 DEF MarkNoOutcomes, SubmitTypeOK, Finalize, KindExplainsRefusal
  <2>4. CASE EndExecution
    BY <2>4 DEF EndExecution, KindExplainsRefusal
  <2>5. CASE \E sub \in Submissions : SubmitOutcome(sub)
    BY <2>5, CallExplained
  <2>6. CASE UNCHANGED submitVars
    BY <2>6 DEF submitVars, KindExplainsRefusal
  <2> QED
    BY <2>1, <2>2, <2>3, <2>4, <2>5, <2>6 DEF SubmitNext
<1> QED
  BY <1>1, <1>2, TypeCorrect, PTL DEF SubmitSpec

-----------------------------------------------------------------------------
(* When the handler dies. *)

(* The host sends a contract whose schema requires reason or comment, and  *)
(* the model calls with a literal null payload and that very parameter at  *)
(* the top level.                                                          *)
NullIsFoldedInto ==
    \E h \in Handshakes, sub \in Submissions :
        /\ sub.envelope = "ok" /\ sub.payload.form = "null" /\ sub.outcome \in h.allowed
        /\ h.contracts[sub.outcome].schema
        /\ \/ "reason" \in h.contracts[sub.outcome].required /\ sub.reason
           \/ "comment" \in h.contracts[sub.outcome].required /\ sub.comment

(* A step with outcomes is one the host asked for. *)
StepOfHost ==
    step.allowed # {} =>
        \E h \in Handshakes : step.allowed = h.allowed /\ step.contracts = h.contracts

AnswersInv == AlwaysAnswers /\ StepOfHost

LEMMA OthersAnswerOn ==
    ASSUME AnswersInv,
           \/ BeginExecution \/ \E h \in Handshakes : InstallHandshake(h)
           \/ MarkNoOutcomes \/ EndExecution \/ UNCHANGED submitVars
    PROVE  AnswersInv'
<1>1. CASE \E h \in Handshakes : InstallHandshake(h)
  <2>1. PICK h \in Handshakes : InstallHandshake(h)
    BY <1>1
  <2>2. step'.allowed = h.allowed /\ step'.contracts = h.contracts /\ UNCHANGED muHeld
    BY <2>1 DEF InstallHandshake
  <2> QED
    BY <2>2 DEF AnswersInv, AlwaysAnswers, StepOfHost
<1>2. CASE UNCHANGED <<step, muHeld>>
  BY <1>2 DEF AnswersInv, AlwaysAnswers, StepOfHost
<1> QED
  BY <1>1, <1>2 DEF BeginExecution, MarkNoOutcomes, EndExecution, submitVars

LEMMA CallAnswers ==
    ASSUME AnswersInv, SubmitTypeOK, ~NullIsFoldedInto,
           NEW sub \in Submissions, SubmitOutcome(sub)
    PROVE  AnswersInv'
<1>1. ~PanicInFold(sub)
  <2> SUFFICES ASSUME PanicInFold(sub) PROVE FALSE
    OBVIOUS
  <2>1. /\ sub.envelope = "ok" /\ sub.outcome \in step.allowed /\ sub.payload.form = "null"
        /\ Folded(sub) # {}
    BY DEF PanicInFold, Eligible, Fresh, Decoded, FoldPanics
  <2>2. PICK h \in Handshakes : step.allowed = h.allowed /\ step.contracts = h.contracts
    BY <2>1 DEF AnswersInv, StepOfHost
  <2>3. \/ "reason" \in Required(sub.outcome) /\ sub.reason
        \/ "comment" \in Required(sub.outcome) /\ sub.comment
    BY <2>1 DEF Folded
  <2>4. /\ h.contracts[sub.outcome].schema
        /\ Required(sub.outcome) = h.contracts[sub.outcome].required
    BY <2>2, <2>3 DEF Required
  <2> QED
    BY <2>1, <2>2, <2>3, <2>4 DEF NullIsFoldedInto
<1>2. UNCHANGED <<step, muHeld>>
  BY <1>1 DEF SubmitOutcome, RejectUndecodable, RejectDuplicate, RejectOutcome, RejectLane,
              RejectContract, Accept
<1> QED
  BY <1>2 DEF AnswersInv, AlwaysAnswers, StepOfHost

(* The handler answers every call, whatever the host declares and the      *)
(* model sends, but for one pair: a top-level parameter folded into a      *)
(* literal null payload (copilot_outcome.go:357).                          *)
THEOREM AnswersUnlessNull ==
    ASSUME ~NullIsFoldedInto
    PROVE  SubmitSpec => []AlwaysAnswers
<1>1. SubmitInit => AnswersInv
  BY DEF SubmitInit, AnswersInv, AlwaysAnswers, StepOfHost
<1>2. AnswersInv /\ SubmitTypeOK /\ [SubmitNext]_submitVars => AnswersInv'
  BY OthersAnswerOn, CallAnswers DEF SubmitNext
<1>3. AnswersInv => AlwaysAnswers
  BY DEF AnswersInv
<1> QED
  BY <1>1, <1>2, <1>3, TypeCorrect, PTL DEF SubmitSpec

=============================================================================
