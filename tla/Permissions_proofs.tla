-------------------------- MODULE Permissions_proofs -------------------------
(* What holds of the permission bridge for any number of sessions,         *)
(* callbacks, streams and Executes.                                        *)
EXTENDS Permissions, TLAPS

(* Only the kinds that wait for the host get as far as waiting. *)
KindsInPlace ==
    \A c \in Callbacks :
        /\ ask[c].pc \in {"registered", "leaving"} => c.kind = "permission"
        /\ ask[c].pc \in {"captured", "waiting"} => c.kind # "own"

(* A registry names callbacks that are still there to be told. *)
RegistriesTrue ==
    /\ \A c \in Callbacks :
          Entry(c) \in pendingPerms => /\ c.kind = "permission"
                                       /\ ask[c].pc \in {"registered", "waiting", "leaving"}
                                       /\ decision[c] = "none"
    /\ \A c \in pendingCalls : /\ ask[c].pc = "waiting" /\ c.kind = "tool"
                               /\ decision[c] = "none"

(* A callback that is pending no more already has its decision. *)
WaitersReached ==
    \A c \in Callbacks :
        /\ ask[c].pc \in {"registered", "waiting"} /\ c.kind = "permission"
              => Entry(c) \in pendingPerms \/ decision[c] # "none"
        /\ ask[c].pc = "waiting" /\ c.kind = "tool"
              => c \in pendingCalls \/ decision[c] # "none"

(* Permission comes from the host, and from it alone. *)
AllowedByHost ==
    \A c \in Callbacks :
        /\ decision[c] = "allow" => c \in granted
        /\ decision[c] # "none" => ask[c].pc \notin {"new", "captured"}
        /\ c \in asked => ask[c].pc \in {"waiting", "leaving", "answered"}

PermInv == PermTypeOK /\ KindsInPlace /\ RegistriesTrue /\ WaitersReached /\ AllowedByHost

-----------------------------------------------------------------------------

(* No two callbacks share an entry. *)
LEMMA EntryFacts ==
    /\ \A c, d : Entry(c) = Entry(d) <=> c = d
    /\ \A c : Entry(c).to = c /\ Entry(c).id = c /\ RequestID(c) = c
BY DEF Entry, RequestID

LEMMA CallbackKinds == \A c \in Callbacks : c.session \in Sessions /\ c.kind \in Kinds
BY PermissionsAssumption DEF Kinds

(* What resolving c leaves of the registry. *)
LEMMA ResolveRemoves ==
    ASSUME PermTypeOK, NEW c \in Callbacks, resolvePendingPerm(c)
    PROVE  /\ pendingPerms' \subseteq pendingPerms
           /\ \A d \in Callbacks : Entry(d) \in pendingPerms' <=> Entry(d) \in pendingPerms /\ d # c
BY EntryFacts DEF resolvePendingPerm

LEMMA RegisterAdds ==
    ASSUME PermTypeOK, NEW c \in Callbacks, registerPendingPerm(c)
    PROVE  /\ pendingPerms' \subseteq {Entry(d) : d \in Callbacks}
           /\ \A d \in Callbacks : Entry(d) \in pendingPerms' <=> Entry(d) \in pendingPerms \/ d = c
BY EntryFacts DEF registerPendingPerm, PermTypeOK

LEMMA InitInv == PermInit => PermInv
BY EntryFacts, PermissionsAssumption
   DEF PermInit, PermInv, PermTypeOK, KindsInPlace, RegistriesTrue, WaitersReached, AllowedByHost,
       Idle, Points, Answers, Verdicts

(* Whom a dispatch reaches: the callback itself, if anybody. *)
LEMMA DispatchReaches ==
    ASSUME PermInv, NEW k \in Streams, NEW c \in Callbacks, NEW verdict \in Verdicts,
           Dispatch(k, c, verdict)
    PROVE  LET hit == Entry(c) \in pendingPerms \/ c \in pendingCalls IN
           /\ decision' = [x \in Callbacks |-> IF x = c /\ hit THEN verdict ELSE decision[x]]
           /\ granted' = IF verdict = "allow" /\ hit THEN granted \cup {c} ELSE granted
<1> DEFINE to == {e.to : e \in {x \in pendingPerms : x.id = RequestID(c)}}
                   \cup ({c} \cap pendingCalls)
           hit == Entry(c) \in pendingPerms \/ c \in pendingCalls
<1>1. {x \in pendingPerms : x.id = RequestID(c)} = {Entry(c)} \cap pendingPerms
  BY EntryFacts DEF PermInv, PermTypeOK
<1>2. to = IF hit THEN {c} ELSE {}
  BY <1>1, EntryFacts
<1>3. hit => decision[c] = "none"
  BY DEF PermInv, RegistriesTrue
<1>4. Reached(to) = IF hit THEN {c} ELSE {}
  BY <1>2, <1>3 DEF Reached
<1> QED
  BY <1>2, <1>4 DEF Dispatch

LEMMA DrainReaches ==
    ASSUME PermInv
    PROVE  \A c \in Callbacks : c \in Reached({e.to : e \in pendingPerms}) <=> Entry(c) \in pendingPerms
<1>1. \A e \in pendingPerms : \E c \in Callbacks : e = Entry(c)
  BY DEF PermInv, PermTypeOK
<1> QED
  BY <1>1, EntryFacts DEF PermInv, RegistriesTrue, Reached

-----------------------------------------------------------------------------
(* The invariant is inductive. *)

(* A callback that is answered, and nobody else, has moved. *)
LEMMA AnsweredMoves ==
    ASSUME PermTypeOK, NEW c \in Callbacks, NEW answer \in Answers, Answered(c, answer)
    PROVE  /\ ask' \in [Callbacks -> [pc : Points, execute : 0..MaxExecutes, answer : Answers]]
           /\ \A d \in Callbacks : ask'[d].pc = IF d = c THEN "answered" ELSE ask[d].pc
           /\ \A d \in Callbacks : ask'[d].answer = IF d = c THEN answer ELSE ask[d].answer
BY DEF Answered, PermTypeOK, Points

(* And so has one that goes on to another point. *)
LEMMA PointMoves ==
    ASSUME PermTypeOK, NEW c \in Callbacks, NEW point \in Points,
           ask' = [ask EXCEPT ![c].pc = point]
    PROVE  /\ ask' \in [Callbacks -> [pc : Points, execute : 0..MaxExecutes, answer : Answers]]
           /\ \A d \in Callbacks : ask'[d].pc = IF d = c THEN point ELSE ask[d].pc
           /\ \A d \in Callbacks : ask'[d].answer = ask[d].answer
BY DEF PermTypeOK

LEMMA CaptureMoves ==
    ASSUME PermTypeOK, NEW c \in Callbacks, NEW n \in 0..MaxExecutes,
           ask' = [ask EXCEPT ![c].pc = "captured", ![c].execute = n]
    PROVE  /\ ask' \in [Callbacks -> [pc : Points, execute : 0..MaxExecutes, answer : Answers]]
           /\ \A d \in Callbacks : ask'[d].pc = IF d = c THEN "captured" ELSE ask[d].pc
           /\ \A d \in Callbacks : ask'[d].answer = ask[d].answer
BY DEF PermTypeOK, Points

LEMMA CallbackInv ==
    ASSUME PermInv, NEW c \in Callbacks,
           AnswerLocally(c) \/ Capture(c) \/ CallbackSteps(c) \/ AbandonCall(c)
    PROVE  PermInv'
<1> USE CallbackKinds
        DEF PermInv, KindsInPlace, RegistriesTrue, WaitersReached, AllowedByHost
<1>a. /\ {"approved", "rejected", "unavailable"} \subseteq Answers
      /\ {"captured", "registered", "waiting", "leaving"} \subseteq Points
      /\ 0 \in 0..MaxExecutes /\ execute[c.session] \in 0..MaxExecutes
  BY PermissionsAssumption DEF Answers, Points, PermTypeOK
<1>1. CASE AnswerLocally(c)
  <2>1. Answered(c, "approved") /\ ask[c].pc = "new"
    BY <1>1 DEF AnswerLocally
  <2>2. UNCHANGED <<active, execute, pendingPerms, pendingCalls, decision, stream, asked, granted>>
    BY <1>1 DEF AnswerLocally, executeVars, bridgeVars, hostVars
  <2>3. /\ ask' \in [Callbacks -> [pc : Points, execute : 0..MaxExecutes, answer : Answers]]
        /\ \A d \in Callbacks : ask'[d].pc = IF d = c THEN "answered" ELSE ask[d].pc
    BY <1>a, <2>1, AnsweredMoves
  <2>4. PermTypeOK'
    BY <2>1, <2>2, <2>3 DEF PermTypeOK, Entry, RequestID
  <2>5. KindsInPlace'
    BY <2>1, <2>2, <2>3 DEF PermTypeOK
  <2>6. RegistriesTrue'
    BY <2>1, <2>2, <2>3 DEF PermTypeOK
  <2>7. WaitersReached'
    BY <2>1, <2>2, <2>3 DEF PermTypeOK
  <2>8. AllowedByHost'
    BY <2>1, <2>2, <2>3 DEF PermTypeOK
  <2> QED BY <2>4, <2>5, <2>6, <2>7, <2>8
<1>2. CASE Capture(c)
  <2>1. CASE active[c.session]
    <3>1. /\ ask[c].pc = "new" /\ c.kind # "own"
          /\ ask' = [ask EXCEPT ![c].pc = "captured", ![c].execute = execute[c.session]]
      BY <1>2, <2>1 DEF Capture
    <3>2. UNCHANGED <<active, execute, pendingPerms, pendingCalls, decision, stream, asked, granted>>
      BY <1>2, <2>1 DEF Capture, executeVars, bridgeVars, hostVars
    <3>3. /\ ask' \in [Callbacks -> [pc : Points, execute : 0..MaxExecutes, answer : Answers]]
          /\ \A d \in Callbacks : ask'[d].pc = IF d = c THEN "captured" ELSE ask[d].pc
      BY <1>a, <3>1, CaptureMoves
    <3>4. PermTypeOK'
      BY <3>1, <3>2, <3>3 DEF PermTypeOK, Entry, RequestID
    <3>5. KindsInPlace'
      BY <3>1, <3>2, <3>3 DEF PermTypeOK
    <3>6. RegistriesTrue'
      BY <3>1, <3>2, <3>3 DEF PermTypeOK
    <3>7. WaitersReached'
      BY <3>1, <3>2, <3>3 DEF PermTypeOK
    <3>8. AllowedByHost'
      BY <3>1, <3>2, <3>3 DEF PermTypeOK
    <3> QED BY <3>4, <3>5, <3>6, <3>7, <3>8
  <2>2. CASE ~active[c.session]
    <3>1. Answered(c, "unavailable") /\ ask[c].pc = "new"
      BY <1>2, <2>2 DEF Capture
    <3>2. UNCHANGED <<active, execute, pendingPerms, pendingCalls, decision, stream, asked, granted>>
      BY <1>2, <2>2 DEF Capture, executeVars, bridgeVars, hostVars
    <3>3. /\ ask' \in [Callbacks -> [pc : Points, execute : 0..MaxExecutes, answer : Answers]]
          /\ \A d \in Callbacks : ask'[d].pc = IF d = c THEN "answered" ELSE ask[d].pc
      BY <1>a, <3>1, AnsweredMoves
    <3>4. PermTypeOK'
      BY <3>1, <3>2, <3>3 DEF PermTypeOK, Entry, RequestID
    <3>5. KindsInPlace'
      BY <3>1, <3>2, <3>3 DEF PermTypeOK
    <3>6. RegistriesTrue'
      BY <3>1, <3>2, <3>3 DEF PermTypeOK
    <3>7. WaitersReached'
      BY <3>1, <3>2, <3>3 DEF PermTypeOK
    <3>8. AllowedByHost'
      BY <3>1, <3>2, <3>3 DEF PermTypeOK
    <3> QED BY <3>4, <3>5, <3>6, <3>7, <3>8
  <2> QED BY <2>1, <2>2
<1>3. CASE Register(c)
  <2>1. /\ ask[c].pc = "captured" /\ c.kind = "permission" /\ registerPendingPerm(c)
        /\ ask' = [ask EXCEPT ![c].pc = "registered"]
    BY <1>3 DEF Register
  <2>2. UNCHANGED <<active, execute, pendingCalls, decision, stream, asked, granted>>
    BY <1>3 DEF Register, executeVars, bridgeVars, hostVars
  <2>3. /\ ask' \in [Callbacks -> [pc : Points, execute : 0..MaxExecutes, answer : Answers]]
        /\ \A d \in Callbacks : ask'[d].pc = IF d = c THEN "registered" ELSE ask[d].pc
    BY <1>a, <2>1, PointMoves DEF Points
  <2>4. /\ pendingPerms' \subseteq {Entry(d) : d \in Callbacks}
        /\ \A d \in Callbacks : Entry(d) \in pendingPerms' <=> Entry(d) \in pendingPerms \/ d = c
    BY <2>1, RegisterAdds
  <2>5. PermTypeOK'
    BY <2>1, <2>2, <2>3, <2>4 DEF PermTypeOK
  <2>6. KindsInPlace'
    BY <2>1, <2>2, <2>3, <2>4 DEF PermTypeOK
  <2>7. RegistriesTrue'
    BY <2>1, <2>2, <2>3, <2>4 DEF PermTypeOK
  <2>8. WaitersReached'
    BY <2>1, <2>2, <2>3, <2>4 DEF PermTypeOK
  <2>9. AllowedByHost'
    BY <2>1, <2>2, <2>3, <2>4 DEF PermTypeOK
  <2> QED BY <2>5, <2>6, <2>7, <2>8, <2>9
<1>4. CASE Forward(c)
  <2>0. ask[c].pc = "registered"
    BY <1>4 DEF Forward
  <2>1. CASE ask' = [ask EXCEPT ![c].pc = "waiting"] /\ asked' = asked \cup {c} /\ UNCHANGED pendingPerms
    <3>1. /\ ask[c].pc = "registered" /\ asked' = asked \cup {c}
          /\ ask' = [ask EXCEPT ![c].pc = "waiting"]
      BY <1>4, <2>0, <2>1 DEF Forward
    <3>2. UNCHANGED <<active, execute, pendingPerms, pendingCalls, decision, stream, granted>>
      BY <1>4, <2>0, <2>1 DEF Forward, executeVars, bridgeVars, hostVars
    <3>3. /\ ask' \in [Callbacks -> [pc : Points, execute : 0..MaxExecutes, answer : Answers]]
          /\ \A d \in Callbacks : ask'[d].pc = IF d = c THEN "waiting" ELSE ask[d].pc
      BY <1>a, <3>1, PointMoves DEF Points
    <3>4. PermTypeOK'
      BY <3>1, <3>2, <3>3 DEF PermTypeOK, Entry, RequestID
    <3>5. KindsInPlace'
      BY <3>1, <3>2, <3>3 DEF PermTypeOK
    <3>6. RegistriesTrue'
      BY <3>1, <3>2, <3>3 DEF PermTypeOK
    <3>7. WaitersReached'
      BY <3>1, <3>2, <3>3 DEF PermTypeOK
    <3>8. AllowedByHost'
      BY <3>1, <3>2, <3>3 DEF PermTypeOK
    <3> QED BY <3>4, <3>5, <3>6, <3>7, <3>8
  <2>2. CASE resolvePendingPerm(c) /\ Answered(c, "unavailable") /\ UNCHANGED asked
    <3>1. Answered(c, "unavailable") /\ ask[c].pc = "registered" /\ resolvePendingPerm(c)
      BY <1>4, <2>0, <2>2 DEF Forward
    <3>2. UNCHANGED <<active, execute, pendingCalls, decision, stream, asked, granted>>
      BY <1>4, <2>0, <2>2 DEF Forward, executeVars, bridgeVars, hostVars
    <3>3. /\ ask' \in [Callbacks -> [pc : Points, execute : 0..MaxExecutes, answer : Answers]]
          /\ \A d \in Callbacks : ask'[d].pc = IF d = c THEN "answered" ELSE ask[d].pc
      BY <1>a, <3>1, AnsweredMoves
    <3>4. /\ pendingPerms' \subseteq pendingPerms
          /\ \A d \in Callbacks : Entry(d) \in pendingPerms' <=> Entry(d) \in pendingPerms /\ d # c
      BY <3>1, ResolveRemoves
    <3>5. PermTypeOK'
      BY <3>1, <3>2, <3>3, <3>4 DEF PermTypeOK
    <3>6. KindsInPlace'
      BY <3>1, <3>2, <3>3, <3>4 DEF PermTypeOK
    <3>7. RegistriesTrue'
      BY <3>1, <3>2, <3>3, <3>4 DEF PermTypeOK
    <3>8. WaitersReached'
      BY <3>1, <3>2, <3>3, <3>4 DEF PermTypeOK
    <3>9. AllowedByHost'
      BY <3>1, <3>2, <3>3, <3>4 DEF PermTypeOK
    <3> QED BY <3>5, <3>6, <3>7, <3>8, <3>9
  <2> QED BY <1>4, <2>1, <2>2 DEF Forward
<1>5. CASE CallBridge(c)
  <2>1. CASE /\ ask' = [ask EXCEPT ![c].pc = "waiting"]
             /\ asked' = asked \cup {c} /\ pendingCalls' = pendingCalls \cup {c}
    <3>1. /\ ask[c].pc = "captured" /\ c.kind = "tool" /\ asked' = asked \cup {c}
          /\ pendingCalls' = pendingCalls \cup {c}
          /\ ask' = [ask EXCEPT ![c].pc = "waiting"]
      BY <1>5, <2>1 DEF CallBridge
    <3>2. UNCHANGED <<active, execute, pendingPerms, decision, stream, granted>>
      BY <1>5, <2>1 DEF CallBridge, executeVars, bridgeVars, hostVars
    <3>3. /\ ask' \in [Callbacks -> [pc : Points, execute : 0..MaxExecutes, answer : Answers]]
          /\ \A d \in Callbacks : ask'[d].pc = IF d = c THEN "waiting" ELSE ask[d].pc
      BY <3>1 DEF PermTypeOK, Points
    <3>4. PermTypeOK'
      BY <3>1, <3>2, <3>3 DEF PermTypeOK, Entry, RequestID
    <3>5. KindsInPlace'
      BY <3>1, <3>2, <3>3 DEF PermTypeOK
    <3>6. RegistriesTrue'
      BY <3>1, <3>2, <3>3 DEF PermTypeOK
    <3>7. WaitersReached'
      BY <3>1, <3>2, <3>3 DEF PermTypeOK
    <3>8. AllowedByHost'
      BY <3>1, <3>2, <3>3 DEF PermTypeOK
    <3> QED BY <3>4, <3>5, <3>6, <3>7, <3>8
  <2>2. CASE Answered(c, "unavailable") /\ UNCHANGED <<pendingCalls, asked>>
    <3>1. Answered(c, "unavailable") /\ ask[c].pc = "captured"
      BY <1>5, <2>2 DEF CallBridge
    <3>2. UNCHANGED <<active, execute, pendingPerms, pendingCalls, decision, stream, asked, granted>>
      BY <1>5, <2>2 DEF CallBridge, executeVars, bridgeVars, hostVars
    <3>3. /\ ask' \in [Callbacks -> [pc : Points, execute : 0..MaxExecutes, answer : Answers]]
          /\ \A d \in Callbacks : ask'[d].pc = IF d = c THEN "answered" ELSE ask[d].pc
      BY <1>a, <3>1, AnsweredMoves
    <3>4. PermTypeOK'
      BY <3>1, <3>2, <3>3 DEF PermTypeOK, Entry, RequestID
    <3>5. KindsInPlace'
      BY <3>1, <3>2, <3>3 DEF PermTypeOK
    <3>6. RegistriesTrue'
      BY <3>1, <3>2, <3>3 DEF PermTypeOK
    <3>7. WaitersReached'
      BY <3>1, <3>2, <3>3 DEF PermTypeOK
    <3>8. AllowedByHost'
      BY <3>1, <3>2, <3>3 DEF PermTypeOK
    <3> QED BY <3>4, <3>5, <3>6, <3>7, <3>8
  <2> QED BY <1>5, <2>1, <2>2 DEF CallBridge
<1>6. CASE TakeDecision(c)
  <2>1. PICK answer \in {"approved", "rejected"} : Answered(c, answer)
    BY <1>6 DEF TakeDecision
  <2>2. ask[c].pc = "waiting" /\ decision[c] # "none" /\ decision' = [decision EXCEPT ![c] = "none"]
    BY <1>6 DEF TakeDecision
  <2>3. UNCHANGED <<active, execute, pendingPerms, pendingCalls, stream, asked, granted>>
    BY <1>6 DEF TakeDecision, executeVars, bridgeVars, hostVars
  <2>4. /\ ask' \in [Callbacks -> [pc : Points, execute : 0..MaxExecutes, answer : Answers]]
        /\ \A d \in Callbacks : ask'[d].pc = IF d = c THEN "answered" ELSE ask[d].pc
    BY <1>a, <2>1, <2>2, AnsweredMoves
  <2>5. PermTypeOK'
    BY <2>1, <2>2, <2>3, <2>4 DEF PermTypeOK, Entry, RequestID
  <2>6. KindsInPlace'
    BY <2>1, <2>2, <2>3, <2>4 DEF PermTypeOK
  <2>7. RegistriesTrue'
    BY <2>1, <2>2, <2>3, <2>4 DEF PermTypeOK
  <2>8. WaitersReached'
    BY <2>1, <2>2, <2>3, <2>4 DEF PermTypeOK
  <2>9. AllowedByHost'
    BY <2>1, <2>2, <2>3, <2>4 DEF PermTypeOK
  <2> QED BY <2>5, <2>6, <2>7, <2>8, <2>9
<1>7. CASE Leave(c)
  <2>1. /\ ask[c].pc = "waiting" /\ c.kind = "permission"
        /\ ask' = [ask EXCEPT ![c].pc = "leaving"]
    BY <1>7 DEF Leave
  <2>2. UNCHANGED <<active, execute, pendingPerms, pendingCalls, decision, stream, asked, granted>>
    BY <1>7 DEF Leave, executeVars, bridgeVars, hostVars
  <2>3. /\ ask' \in [Callbacks -> [pc : Points, execute : 0..MaxExecutes, answer : Answers]]
        /\ \A d \in Callbacks : ask'[d].pc = IF d = c THEN "leaving" ELSE ask[d].pc
    BY <2>1, PointMoves DEF Points
  <2>4. PermTypeOK'
    BY <2>1, <2>2, <2>3 DEF PermTypeOK, Entry, RequestID
  <2>5. KindsInPlace'
    BY <2>1, <2>2, <2>3 DEF PermTypeOK
  <2>6. RegistriesTrue'
    BY <2>1, <2>2, <2>3 DEF PermTypeOK
  <2>7. WaitersReached'
    BY <2>1, <2>2, <2>3 DEF PermTypeOK
  <2>8. AllowedByHost'
    BY <2>1, <2>2, <2>3 DEF PermTypeOK
  <2> QED BY <2>4, <2>5, <2>6, <2>7, <2>8
<1>8. CASE Reject(c)
  <2>1. Answered(c, "rejected") /\ ask[c].pc = "leaving" /\ resolvePendingPerm(c)
    BY <1>8 DEF Reject
  <2>2. UNCHANGED <<active, execute, pendingCalls, decision, stream, asked, granted>>
    BY <1>8 DEF Reject, executeVars, bridgeVars, hostVars
  <2>3. /\ ask' \in [Callbacks -> [pc : Points, execute : 0..MaxExecutes, answer : Answers]]
        /\ \A d \in Callbacks : ask'[d].pc = IF d = c THEN "answered" ELSE ask[d].pc
    BY <1>a, <2>1, AnsweredMoves
  <2>4. /\ pendingPerms' \subseteq pendingPerms
        /\ \A d \in Callbacks : Entry(d) \in pendingPerms' <=> Entry(d) \in pendingPerms /\ d # c
    BY <2>1, ResolveRemoves
  <2>5. PermTypeOK'
    BY <2>1, <2>2, <2>3, <2>4 DEF PermTypeOK
  <2>6. KindsInPlace'
    BY <2>1, <2>2, <2>3, <2>4 DEF PermTypeOK
  <2>7. RegistriesTrue'
    BY <2>1, <2>2, <2>3, <2>4 DEF PermTypeOK
  <2>8. WaitersReached'
    BY <2>1, <2>2, <2>3, <2>4 DEF PermTypeOK
  <2>9. AllowedByHost'
    BY <2>1, <2>2, <2>3, <2>4 DEF PermTypeOK
  <2> QED BY <2>5, <2>6, <2>7, <2>8, <2>9
<1>9. CASE AbandonCall(c)
  <2>1. Answered(c, "rejected") /\ ask[c].pc = "waiting" /\ c \in pendingCalls
        /\ pendingCalls' = pendingCalls \ {c}
    BY <1>9 DEF AbandonCall
  <2>2. UNCHANGED <<active, execute, pendingPerms, decision, stream, asked, granted>>
    BY <1>9 DEF AbandonCall, executeVars, bridgeVars, hostVars
  <2>3. /\ ask' \in [Callbacks -> [pc : Points, execute : 0..MaxExecutes, answer : Answers]]
        /\ \A d \in Callbacks : ask'[d].pc = IF d = c THEN "answered" ELSE ask[d].pc
    BY <1>a, <2>1, AnsweredMoves
  <2>4. PermTypeOK'
    BY <2>1, <2>2, <2>3 DEF PermTypeOK, Entry, RequestID
  <2>5. KindsInPlace'
    BY <2>1, <2>2, <2>3 DEF PermTypeOK
  <2>6. RegistriesTrue'
    BY <2>1, <2>2, <2>3 DEF PermTypeOK
  <2>7. WaitersReached'
    BY <2>1, <2>2, <2>3 DEF PermTypeOK
  <2>8. AllowedByHost'
    BY <2>1, <2>2, <2>3 DEF PermTypeOK
  <2> QED BY <2>4, <2>5, <2>6, <2>7, <2>8
<1> QED
  BY <1>1, <1>2, <1>3, <1>4, <1>5, <1>6, <1>7, <1>8, <1>9 DEF CallbackSteps

LEMMA StreamInv ==
    ASSUME PermInv, NEW k \in Streams,
           \/ Open(k) \/ RecvEnds(k) \/ Teardown(k)
           \/ \E c \in Callbacks, verdict \in Verdicts : Dispatch(k, c, verdict)
    PROVE  PermInv'
<1> USE DEF PermInv, KindsInPlace, RegistriesTrue, WaitersReached, AllowedByHost
<1>1. CASE Open(k) \/ RecvEnds(k)
  BY <1>1 DEF Open, RecvEnds, PermTypeOK, executeVars, bridgeVars, hostVars
<1>2. CASE BridgeLoopEnds(k)
  BY <1>2 DEF BridgeLoopEnds, PermTypeOK, Verdicts, executeVars, hostVars
<1>3. CASE Drain(k)
  <2>1. /\ pendingPerms' = {}
        /\ decision' = [c \in Callbacks |-> IF Entry(c) \in pendingPerms THEN "deny" ELSE decision[c]]
    BY <1>3, DrainReaches DEF Drain
  <2>2. /\ UNCHANGED <<active, execute, ask, pendingCalls, asked, granted>>
        /\ stream' = [stream EXCEPT ![k] = "ended"]
    BY <1>3 DEF Drain, executeVars, hostVars
  <2> QED BY <2>1, <2>2 DEF PermTypeOK, Verdicts
<1>4. ASSUME NEW c \in Callbacks, NEW verdict \in Verdicts, Dispatch(k, c, verdict)
      PROVE  PermInv'
  <2> DEFINE hit == Entry(c) \in pendingPerms \/ c \in pendingCalls
  <2>1. /\ decision' = [x \in Callbacks |-> IF x = c /\ hit THEN verdict ELSE decision[x]]
        /\ granted' = IF verdict = "allow" /\ hit THEN granted \cup {c} ELSE granted
    BY <1>4, DispatchReaches
  <2>2. /\ UNCHANGED <<active, execute, ask, stream, asked>>
        /\ pendingCalls' = pendingCalls \ {c} /\ c \in asked
    BY <1>4 DEF Dispatch, executeVars
  <2>3. /\ pendingPerms' \subseteq pendingPerms
        /\ \A d \in Callbacks : Entry(d) \in pendingPerms' <=> Entry(d) \in pendingPerms /\ d # c
    BY <1>4, ResolveRemoves DEF Dispatch
  <2>4. PermTypeOK' /\ KindsInPlace'
    BY <2>1, <2>2, <2>3 DEF PermTypeOK, Entry, RequestID
  <2>5. RegistriesTrue'
    BY <2>1, <2>2, <2>3 DEF PermTypeOK
  <2>6. WaitersReached' /\ AllowedByHost'
    BY <2>1, <2>2, <2>3 DEF PermTypeOK, Verdicts
  <2> QED BY <2>4, <2>5, <2>6
<1> QED
  BY <1>1, <1>2, <1>3, <1>4 DEF Teardown

LEMMA ExecuteInv ==
    ASSUME PermInv, NEW s \in Sessions, BeginExecute(s) \/ EndExecute(s)
    PROVE  PermInv'
<1>1. UNCHANGED <<ask, pendingPerms, pendingCalls, decision, stream, asked, granted>>
  BY DEF BeginExecute, EndExecute, bridgeVars, hostVars
<1>2. active' \in [Sessions -> BOOLEAN] /\ execute' \in [Sessions -> 0..MaxExecutes]
  <2>1. CASE BeginExecute(s)
    <3>1. execute[s] + 1 \in 0..MaxExecutes
      BY <2>1, PermissionsAssumption DEF BeginExecute, PermInv, PermTypeOK
    <3> QED BY <2>1, <3>1 DEF BeginExecute, PermInv, PermTypeOK
  <2>2. CASE EndExecute(s)
    BY <2>2 DEF EndExecute, PermInv, PermTypeOK
  <2> QED BY <2>1, <2>2
<1> QED
  BY <1>1, <1>2 DEF PermInv, PermTypeOK, KindsInPlace, RegistriesTrue, WaitersReached,
                    AllowedByHost, Entry, RequestID

LEMMA StepInv == PermInv /\ [PermNext]_permVars => PermInv'
<1> SUFFICES ASSUME PermInv, [PermNext]_permVars PROVE PermInv'
  OBVIOUS
<1>1. CASE UNCHANGED permVars
  BY <1>1 DEF permVars, executeVars, bridgeVars, hostVars, PermInv, PermTypeOK, KindsInPlace,
              RegistriesTrue, WaitersReached, AllowedByHost, Entry, RequestID
<1> QED
  BY <1>1, CallbackInv, StreamInv, ExecuteInv DEF PermNext

(* The registries, the channels and what the callbacks have read stay of   *)
(* their types and agree with each other.                                  *)
THEOREM PermInvariant == PermSpec => []PermInv
BY InitInv, StepInv, PTL DEF PermSpec

(* The bridge keeps its types whatever callbacks and streams do. *)
THEOREM PermTypeCorrect == PermSpec => []PermTypeOK
BY PermInvariant, PTL DEF PermInv

(* Whoever waits, a permission request or a tool call, is either pending   *)
(* where the host's answer and a stream's end look for it, or has its      *)
(* answer already, never both.                                             *)
THEOREM WaitersReachable == PermSpec => []WaiterIsReachable
<1>1. PermInv => WaiterIsReachable
  BY CallbackKinds
     DEF PermInv, PermTypeOK, KindsInPlace, RegistriesTrue, WaitersReached, WaiterIsReachable,
         Pending, Kinds
<1> QED BY <1>1, PermInvariant, PTL

(* What is in pendingPerms belongs to a request that still runs. *)
THEOREM NothingStaysPending == PermSpec => []NothingLeftPending
<1>1. PermInv => NothingLeftPending
  BY EntryFacts DEF PermInv, PermTypeOK, RegistriesTrue, NothingLeftPending
<1> QED BY <1>1, PermInvariant, PTL

-----------------------------------------------------------------------------
(* The bridge implements PermissionGate. *)

(* A step that moves one callback only moves its status. *)
LEMMA StatusMoves ==
    ASSUME NEW c \in Callbacks, NEW new,
           \A d \in Callbacks : d # c => ask'[d] = ask[d],
           Status(c)' = new
    PROVE  [d \in Callbacks |-> Status(d)]' = [[d \in Callbacks |-> Status(d)] EXCEPT ![c] = new]
BY DEF Status

LEMMA StatusKept ==
    ASSUME NEW c \in Callbacks, \A d \in Callbacks : d # c => ask'[d] = ask[d],
           Status(c)' = Status(c)
    PROVE  UNCHANGED [d \in Callbacks |-> Status(d)]
BY DEF Status

LEMMA GateInitially == PermInit => Gate!GateInit
BY DEF PermInit, Gate!GateInit, Status, Idle

LEMMA GateCallback ==
    ASSUME PermInv, NEW c \in Callbacks,
           AnswerLocally(c) \/ Capture(c) \/ CallbackSteps(c) \/ AbandonCall(c)
    PROVE  [Gate!GateNext]_(Gate!gateVars)
<1>0. ask \in [Callbacks -> [pc : Points, execute : 0..MaxExecutes, answer : Answers]]
  BY DEF PermInv, PermTypeOK
<1>a. \A d \in Callbacks : d # c => ask'[d] = ask[d]
  BY <1>0 DEF AnswerLocally, Capture, CallbackSteps, Register, Forward, CallBridge, TakeDecision,
         Leave, Reject, AbandonCall, Answered
<1>b. UNCHANGED granted
  BY DEF AnswerLocally, Capture, CallbackSteps, Register, Forward, CallBridge, TakeDecision,
         Leave, Reject, AbandonCall, hostVars
<1>1. ASSUME Status(c) = "asking", Status(c)' = "refused" \/ (Status(c)' = "approved" /\ c \in granted)
      PROVE  Gate!Answer(c)
  BY <1>1, <1>a, <1>b, StatusMoves DEF Gate!Answer
<1>2. ASSUME Status(c)' = Status(c)
      PROVE  UNCHANGED Gate!gateVars
  BY <1>2, <1>a, <1>b, StatusKept DEF Gate!gateVars
<1>3. CASE AnswerLocally(c)
  <2>1. Status(c) = "new" /\ Status(c)' = "approved" /\ c.kind = "own"
    BY <1>3, <1>0 DEF AnswerLocally, Answered, Status
  <2> QED
    BY <2>1, <1>a, <1>b, StatusMoves DEF Gate!GateNext, Gate!Settle
<1>4. CASE Capture(c)
  <2>1. Status(c) = "new" /\ Status(c)' \in {"asking", "refused"} /\ c.kind # "own"
    BY <1>4, <1>0 DEF Capture, Answered, Status
  <2>2. CASE Status(c)' = "asking"
    BY <2>1, <2>2, <1>a, <1>b, StatusMoves DEF Gate!GateNext, Gate!Ask
  <2>3. CASE Status(c)' = "refused"
    BY <2>1, <2>3, <1>a, <1>b, StatusMoves DEF Gate!GateNext, Gate!Settle
  <2> QED BY <2>1, <2>2, <2>3
<1>5. CASE Register(c) \/ Leave(c)
  BY <1>5, <1>2, <1>0 DEF Register, Leave, Status
<1>6. CASE Forward(c) \/ CallBridge(c) \/ Reject(c) \/ AbandonCall(c)
  <2>1. Status(c) = "asking" /\ Status(c)' \in {"asking", "refused"}
    BY <1>6, <1>0 DEF Forward, CallBridge, Reject, AbandonCall, Answered, Status
  <2> QED BY <2>1, <1>1, <1>2 DEF Gate!GateNext
<1>7. CASE TakeDecision(c)
  <2>1. /\ Status(c) = "asking" /\ Status(c)' \in {"approved", "refused"}
        /\ Status(c)' = "approved" => decision[c] = "allow"
    BY <1>7, <1>0 DEF TakeDecision, Answered, Status
  <2> QED BY <2>1, <1>1 DEF Gate!GateNext, PermInv, AllowedByHost
<1> QED
  BY <1>3, <1>4, <1>5, <1>6, <1>7 DEF CallbackSteps

LEMMA GateStream ==
    ASSUME PermInv, NEW k \in Streams, NEW c \in Callbacks, NEW verdict \in Verdicts,
           Dispatch(k, c, verdict)
    PROVE  [Gate!GateNext]_(Gate!gateVars)
<1>1. /\ UNCHANGED [d \in Callbacks |-> Status(d)]
      /\ granted' = granted \cup {c} \/ granted' = granted
  BY DEF Dispatch, Status
<1>2. Status(c) # "new"
  BY DEF Dispatch, Status, PermInv, AllowedByHost
<1> QED
  BY <1>1, <1>2 DEF Gate!GateNext, Gate!Grant, Gate!gateVars

LEMMA GateStep == PermInv /\ [PermNext]_permVars => [Gate!GateNext]_(Gate!gateVars)
<1> SUFFICES ASSUME PermInv, [PermNext]_permVars PROVE [Gate!GateNext]_(Gate!gateVars)
  OBVIOUS
<1>1. ASSUME UNCHANGED <<ask, granted>> PROVE UNCHANGED Gate!gateVars
  BY <1>1 DEF Gate!gateVars, Status
<1>2. CASE \E s \in Sessions : BeginExecute(s) \/ EndExecute(s)
  BY <1>1, <1>2 DEF BeginExecute, EndExecute, hostVars
<1>3. CASE \E k \in Streams : Open(k) \/ RecvEnds(k) \/ Teardown(k)
  BY <1>1, <1>3 DEF Open, RecvEnds, Teardown, BridgeLoopEnds, Drain, hostVars
<1>4. CASE UNCHANGED permVars
  BY <1>1, <1>4 DEF permVars, hostVars
<1> QED
  BY <1>2, <1>3, <1>4, GateCallback, GateStream DEF PermNext

(* The safety of KeepsGate: every callback is answered once, and approved  *)
(* only when the host granted that very callback, or none is needed.       *)
THEOREM PermImplementsGate == PermSpec => Gate!GateInit /\ [][Gate!GateNext]_(Gate!gateVars)
BY GateInitially, GateStep, PermInvariant, PTL DEF PermSpec

=============================================================================
