------------------------- MODULE SessionEpochs_proofs ------------------------
(* What the epochs of a session may be trusted for, for any number of      *)
(* sessions: that it is bound to the runtime it is on, and that a minimal  *)
(* repair reaches the conversation that holds the finalize it repairs.     *)
EXTENDS SessionBinding_proofs

(* A goroutine moves its own entry and nobody else's. *)
LEMMA OthersStay ==
    ASSUME BindingTypeOK, NEW s \in Sessions, Continue(s) \/ HostCalls(s) \/ ModelTurn(s),
           NEW t \in Sessions, t # s
    PROVE  go'[t] = go[t]
<1>1. go \in [Sessions -> Goroutine]
  BY DEF BindingTypeOK
<1> QED
  BY <1>1
     DEF Continue, HostCalls, ModelTurn, OpenCreates, OpenPublishes, RestoreResumes,
         RestoreSwaps, RestoreBinds, Compose, SendSucceeds, SendFails, RestartClient,
         TakesReopenMu, ReopenSkips, ReopenLocks, ReopenOpens, ReopenSwaps, ReopenBinds,
         Open, Close, Snapshot, RestoreInPlace, Restore, Execute, Finalize, Reprompt, EndTurn,
         TurnStalls

(* While the process lives, the client's epoch only grows. *)
LEMMA EpochGrows ==
    ASSUME BindingTypeOK, NEW s \in Sessions, Continue(s) \/ HostCalls(s) \/ ModelTurn(s)
    PROVE  client'.epoch >= client.epoch
<1>1. EnsureClient \/ StartClient \/ UNCHANGED client
  BY DEF Continue, HostCalls, ModelTurn, OpenCreates, OpenPublishes, RestoreResumes,
         RestoreSwaps, RestoreBinds, Compose, SendSucceeds, SendFails, RestartClient,
         TakesReopenMu, ReopenSkips, ReopenLocks, ReopenOpens, ReopenSwaps, ReopenBinds,
         Open, Close, Snapshot, RestoreInPlace, Restore, Execute, Finalize, Reprompt, EndTurn,
         TurnStalls
<1> QED
  BY <1>1, ClientMoves

-----------------------------------------------------------------------------
(* The binding of a session. *)

(* An open or a restore has its SDK session and not yet its epoch. *)
Unbound == {"opened", "restored", "restoreBind"}

(* No child is started in that window. *)
RestartsOutside == client'.epoch > client.epoch => \A s \in Sessions : go[s].pc \notin Unbound

EpochIsCurrent ==
    /\ \A s \in Sessions : go[s].pc \in Unbound => go[s].got.runtime = client.epoch
    /\ \A x \in Sessions :
          (\A s \in Sessions : ~HalfBound(s, x)) => sess[x].runtime = bound[x]

(* What binds nothing and is in no window, unless the epoch is right. *)
LEMMA EpochStays ==
    ASSUME BindingInv, EpochIsCurrent, RestartsOutside, NEW s \in Sessions,
           Continue(s) \/ HostCalls(s) \/ ModelTurn(s),
           go[s].pc \notin {"restoreBind", "rebinding"},
           go'[s].pc \notin {"restoreBind", "rebinding"},
           go'[s].pc \in Unbound => go'[s].got.runtime = client'.epoch,
           UNCHANGED <<sess, bound>>
    PROVE  EpochIsCurrent'
<1>1. \A t \in Sessions : t # s => go'[t] = go[t]
  BY OthersStay DEF BindingInv
<1>2. /\ client'.epoch >= client.epoch /\ client.epoch \in Nat
      /\ client'.epoch \in Runtimes /\ client'.epoch \in Nat
  <2>1. BindingInv'
    BY NextInv DEF BindingNext
  <2> QED
    BY <2>1, EpochGrows, StateNumbers, Numbers DEF BindingInv, BindingTypeOK
<1>3. \A t \in Sessions : go'[t].pc \in Unbound => go'[t].got.runtime = client'.epoch
  BY <1>1, <1>2 DEF EpochIsCurrent, RestartsOutside
<1>4. \A t, x \in Sessions : HalfBound(t, x)' <=> HalfBound(t, x)
  BY <1>1 DEF HalfBound
<1> QED
  BY <1>3, <1>4 DEF EpochIsCurrent

(* The five steps that change what a session is on or bound to. *)
LEMMA EpochMoves ==
    ASSUME BindingInv, EpochIsCurrent, NEW s \in Sessions,
           OpenPublishes(s) \/ RestoreSwaps(s) \/ RestoreBinds(s) \/ ReopenSwaps(s)
              \/ ReopenBinds(s)
    PROVE  EpochIsCurrent'
<1>0. /\ BindingTypeOK /\ \A t \in Sessions : t # s => go'[t] = go[t]
      /\ go[s].got \in SdkSession /\ client' = client
  BY OthersStay, Entries
     DEF BindingInv, Continue, OpenPublishes, RestoreSwaps, RestoreBinds, ReopenSwaps, ReopenBinds
<1>1. CASE OpenPublishes(s)
  <2>1. /\ go[s].pc = "opened" /\ go'[s].pc = "idle"
        /\ \A x \in Sessions : /\ sess'[x] = IF x = s THEN go[s].got ELSE sess[x]
                               /\ bound'[x] = IF x = s THEN client.epoch ELSE bound[x]
    BY <1>0, <1>1, RestingIsTyped DEF OpenPublishes, BindingTypeOK
  <2>2. \A t, x \in Sessions : HalfBound(t, x)' <=> HalfBound(t, x)
    BY <1>0, <2>1 DEF HalfBound
  <2> QED
    BY <1>0, <2>1, <2>2 DEF EpochIsCurrent, Unbound
<1>2. CASE RestoreSwaps(s)
  <2>1. /\ go[s].pc = "restored" /\ go'[s].pc = "restoreBind" /\ go'[s].got = go[s].got
        /\ \A x \in Sessions : sess'[x] = IF x = s THEN go[s].got ELSE sess[x]
        /\ bound' = bound
    BY <1>0, <1>2 DEF RestoreSwaps, BindingTypeOK
  <2>2. \A t, x \in Sessions : x # s => (HalfBound(t, x)' <=> HalfBound(t, x))
    BY <1>0, <2>1 DEF HalfBound
  <2>3. HalfBound(s, s)'
    BY <2>1 DEF HalfBound
  <2> QED
    BY <1>0, <2>1, <2>2, <2>3 DEF EpochIsCurrent, Unbound
<1>3. CASE RestoreBinds(s)
  <2>1. /\ go[s].pc = "restoreBind" /\ go'[s].pc = "idle" /\ sess' = sess /\ sess[s] = go[s].got
        /\ \A x \in Sessions : bound'[x] = IF x = s THEN client.epoch ELSE bound[x]
    BY <1>0, <1>3, RestingIsTyped DEF RestoreBinds, BindingTypeOK, BindingInv, LocalsAgree
  <2>2. \A t, x \in Sessions : x # s => (HalfBound(t, x)' <=> HalfBound(t, x))
    BY <1>0, <2>1 DEF HalfBound
  <2> QED
    BY <1>0, <2>1, <2>2 DEF EpochIsCurrent, Unbound
<1>4. CASE ReopenSwaps(s)
  <2>1. /\ go[s].pc = "reopened" /\ go'[s].pc = "rebinding" /\ go'[s].target = go[s].target
        /\ \A x \in Sessions : x # go[s].target => sess'[x] = sess[x]
        /\ bound' = bound
    BY <1>0, <1>4 DEF ReopenSwaps, BindingTypeOK
  <2>2. \A t, x \in Sessions : x # go[s].target => (HalfBound(t, x)' <=> HalfBound(t, x))
    BY <1>0, <2>1 DEF HalfBound
  <2>3. HalfBound(s, go[s].target)'
    BY <2>1 DEF HalfBound
  <2> QED
    BY <1>0, <2>1, <2>2, <2>3 DEF EpochIsCurrent, Unbound
<1>5. CASE ReopenBinds(s)
  <2>1. go[s].pc = "rebinding" /\ sess' = sess /\ sess[go[s].target] = go[s].got
    BY <1>5 DEF ReopenBinds, BindingInv, LocalsAgree
  <2>2. go[s].target \in Sessions
    BY <2>1 DEF BindingInv, LocksHeld, Reopens
  <2>3. /\ go'[s].pc \in {"compose", "sweep"}
        /\ \A x \in Sessions : bound'[x] = IF x = go[s].target THEN go[s].got.runtime ELSE bound[x]
    BY <1>0, <1>5, <2>2, TargetDone DEF ReopenBinds, BindingTypeOK
  <2>4. \A t, x \in Sessions : x # go[s].target => (HalfBound(t, x)' <=> HalfBound(t, x))
    BY <1>0, <2>1, <2>3 DEF HalfBound
  <2> QED
    BY <1>0, <2>1, <2>2, <2>3, <2>4 DEF EpochIsCurrent, Unbound
<1> QED
  BY <1>1, <1>2, <1>3, <1>4, <1>5

(* The other steps of a goroutine.  The runtime that answered an open or a *)
(* restore is the current one.                                             *)
LEMMA EpochRead ==
    ASSUME BindingInv, NEW s \in Sessions, Continue(s) \/ HostCalls(s) \/ ModelTurn(s),
           ~(OpenPublishes(s) \/ RestoreSwaps(s) \/ RestoreBinds(s) \/ ReopenSwaps(s)
              \/ ReopenBinds(s) \/ Close(s) \/ Snapshot(s))
    PROVE  /\ go[s].pc \notin {"restoreBind", "rebinding"}
           /\ go'[s].pc \notin {"restoreBind", "rebinding"}
           /\ go'[s].pc \in Unbound => go'[s].got.runtime = client'.epoch
           /\ UNCHANGED <<sess, bound>>
<1>0. BindingTypeOK /\ go \in [Sessions -> Goroutine] /\ go[s] \in Goroutine
  BY Entries DEF BindingInv
<1>1. CASE OpenCreates(s)
  <2>1. CASE go' = [go EXCEPT ![s] = Resting]
    BY <1>0, <1>1, <2>1, RestingIsTyped DEF OpenCreates, Unbound, sdkVars
  <2>2. ASSUME NEW got \in SdkSession, NEW resumed \in BOOLEAN,
               OpenSdk(s, go[s].got.runtime, got, resumed),
               go' = [go EXCEPT ![s].pc = "opened", ![s].got = got]
        PROVE  go'[s].pc = "opened" /\ go'[s].got.runtime = client.epoch
    <3>1. go'[s].pc = "opened" /\ go'[s].got = got
      BY <1>0, <2>2 DEF Goroutine
    <3> QED
      BY <2>2, <3>1 DEF OpenSdk, Alive
  <2> QED
    BY <1>1, <2>1, <2>2 DEF OpenCreates, sdkVars
<1>2. CASE RestoreResumes(s)
  BY <1>0, <1>2, RestingIsTyped DEF RestoreResumes, Alive, Unbound, sdkVars, Goroutine
<1>3. CASE Open(s) \/ Restore(s)
  <2>1. go[s].pc = "idle" /\ UNCHANGED <<sess, bound>>
    BY <1>3 DEF Open, Restore, sdkVars
  <2>2. go'[s].pc \in {"idle", "opening", "restoring"}
    BY <1>0, <1>3, <2>1 DEF Open, Restore, Goroutine
  <2> QED
    BY <2>1, <2>2 DEF Unbound
<1>4. CASE RestoreInPlace(s)
  BY <1>0, <1>4 DEF RestoreInPlace, Unbound, sdkVars
<1>5. CASE Execute(s) \/ Compose(s) \/ SendSucceeds(s)
  <2>1. go[s].pc \in Quiet /\ UNCHANGED <<sess, bound>>
    BY <1>5 DEF Execute, Compose, SendSucceeds, sdkVars, Quiet
  <2>2. go'[s].pc \in {"compose", "send", "turn"}
    BY <1>0, <1>5 DEF Execute, Compose, SendSucceeds, Goroutine
  <2> QED
    BY <2>1, <2>2 DEF Unbound, Quiet
<1>6. CASE SendFails(s)
  BY <1>0, <1>6, RestingIsTyped DEF SendFails, Unbound, sdkVars, Goroutine
<1>7. CASE RestartClient(s)
  <2>1. go[s].pc = "failed" /\ UNCHANGED <<sess, bound>>
    BY <1>7 DEF RestartClient, sdkVars
  <2>2. go'[s].pc \in {"sweep", "compose"}
    BY <1>0, <1>7 DEF RestartClient, Goroutine
  <2> QED
    BY <2>1, <2>2 DEF Unbound
<1>8. CASE TakesReopenMu(s)
  <2>1. go[s].pc = "sweep" /\ UNCHANGED <<sess, bound>>
    BY <1>8 DEF TakesReopenMu, ReopenSkips, ReopenLocks, sdkVars
  <2>2. ASSUME NEW x \in Sessions, ReopenSkips(s, x) \/ ReopenLocks(s, x)
        PROVE  go'[s].pc \in {"compose", "sweep", "reopening"}
    <3>1. CASE ReopenSkips(s, x)
      BY <1>0, <3>1, TargetDone DEF ReopenSkips
    <3>2. CASE ReopenLocks(s, x)
      <4> DEFINE got == [runtime |-> client.epoch, conv |-> NoConversation]
      <4>1. go' = [go EXCEPT ![s].pc = "reopening", ![s].target = x, ![s].got = got]
        BY <3>2 DEF ReopenLocks
      <4> HIDE DEF got
      <4> QED
        BY <1>0, <4>1 DEF Goroutine
    <3> QED
      BY <2>2, <3>1, <3>2
  <2> QED
    BY <1>8, <2>1, <2>2 DEF TakesReopenMu, Unbound
<1>9. CASE ReopenOpens(s)
  <2>1. go[s].target \in Sessions /\ go[s].pc = "reopening" /\ UNCHANGED <<sess, bound>>
    BY <1>9 DEF ReopenOpens, sdkVars, BindingInv, LocksHeld, Reopens
  <2>2. go'[s].pc \in {"compose", "sweep", "reopened"}
    <3>1. CASE go' = [go EXCEPT ![s] = AfterTarget(s, go[s].target)]
      BY <1>0, <2>1, <3>1, TargetDone
    <3>2. CASE \E got \in SdkSession, resumed \in BOOLEAN :
                  go' = [go EXCEPT ![s].pc = "reopened", ![s].got = got, ![s].resumed = resumed]
      BY <1>0, <3>2 DEF Goroutine
    <3> QED
      BY <1>9, <3>1, <3>2 DEF ReopenOpens
  <2> QED
    BY <2>1, <2>2 DEF Unbound
<1>10. CASE ModelTurn(s)
  BY <1>0, <1>10, RestingIsTyped
     DEF ModelTurn, Finalize, Reprompt, EndTurn, TurnStalls, Unbound, sdkVars, Goroutine
<1> QED
  BY <1>1, <1>2, <1>3, <1>4, <1>5, <1>6, <1>7, <1>8, <1>9, <1>10 DEF Continue, HostCalls

LEMMA EpochsInv ==
    ASSUME BindingInv, EpochIsCurrent, [BindingNext]_bindingVars, [RestartsOutside]_bindingVars
    PROVE  EpochIsCurrent'
<1>1. CASE UNCHANGED bindingVars
  BY <1>1 DEF bindingVars, sdkVars, EpochIsCurrent, HalfBound
<1>2. CASE Respawn
  <2>1. NoSession.runtime = 0
    BY DEF NoSession
  <2>2. \A s \in Sessions : go'[s].pc = "idle" /\ sess'[s].runtime = 0 /\ bound'[s] = 0
    BY <1>2, <2>1, RestingIsTyped DEF Respawn
  <2> QED
    BY <2>2 DEF EpochIsCurrent, HalfBound, Unbound
<1>3. CASE ChildDies
  <2>1. client'.epoch = client.epoch /\ UNCHANGED <<go, sess, bound>>
    BY <1>3 DEF ChildDies, sdkVars, BindingInv, BindingTypeOK
  <2> QED
    BY <2>1 DEF EpochIsCurrent, HalfBound
<1>4. ASSUME NEW s \in Sessions, Continue(s) \/ HostCalls(s) \/ ModelTurn(s), RestartsOutside
      PROVE  EpochIsCurrent'
  <2>1. CASE Close(s) \/ Snapshot(s)
    BY <2>1 DEF Close, Snapshot, sdkVars, EpochIsCurrent, HalfBound
  <2> QED
    BY <1>4, <2>1, EpochMoves, EpochRead, EpochStays
<1> QED
  BY <1>1, <1>2, <1>3, <1>4 DEF BindingNext

(* A listed session whose reopenMu is free is bound to the runtime it is   *)
(* on, so a sweep of a dead child finds it superseded, if no child is ever *)
(* started between the answer to an open or a restore and its reading of   *)
(* clientEpoch.  That window is what binding_open_race shows; the theorem  *)
(* says that there is no other.                                            *)
THEOREM BoundUnlessRestartedMeanwhile ==
    BindingSpec /\ [][RestartsOutside]_bindingVars => []BindingTruthful
<1>1. BindingInit => EpochIsCurrent
  <2> SUFFICES ASSUME BindingInit PROVE EpochIsCurrent
    OBVIOUS
  <2>1. NoSession.runtime = 0
    BY DEF NoSession
  <2>2. \A s \in Sessions : go[s].pc = "idle" /\ sess[s].runtime = 0 /\ bound[s] = 0
    BY <2>1, RestingIsTyped DEF BindingInit
  <2> QED
    BY <2>2 DEF EpochIsCurrent, HalfBound, Unbound
<1>2. BindingInv /\ EpochIsCurrent => BindingTruthful
  <2> SUFFICES ASSUME BindingInv, EpochIsCurrent, NEW x \in Sessions, Settled(x)
               PROVE  bound[x] = sess[x].runtime
    BY DEF BindingTruthful
  <2>1. ASSUME NEW s \in Sessions PROVE ~HalfBound(s, x)
    <3>1. reopenMu[x] # s /\ LocksHeld
      BY NobodyAssumption DEF Settled, BindingInv
    <3> QED
      BY <3>1 DEF LocksHeld, HalfBound, Restores, Reopens
  <2> QED
    BY <2>1 DEF EpochIsCurrent
<1> QED
  BY <1>1, <1>2, EpochsInv, BindingInvariant, PTL DEF BindingSpec

(* With one session there is no such window: its own goroutine is the only *)
(* one that starts a child, and it starts none on the way from the answer  *)
(* to the epoch.                                                           *)
THEOREM OnlySessionIsBound ==
    ASSUME \A s, t \in Sessions : s = t
    PROVE  BindingSpec => []BindingTruthful
<1>1. BindingInv /\ [BindingNext]_bindingVars => [RestartsOutside]_bindingVars
  <2> SUFFICES ASSUME BindingInv, BindingNext, client'.epoch > client.epoch, NEW t \in Sessions
               PROVE  go[t].pc \notin Unbound
    BY DEF RestartsOutside
  <2>1. client.epoch \in Nat
    BY StateNumbers
  <2>2. ~ChildDies /\ ~Respawn
    BY <2>1 DEF ChildDies, Respawn, NoClient, BindingInv, BindingTypeOK
  <2>3. Continue(t) \/ HostCalls(t) \/ ModelTurn(t)
    <3>1. PICK s \in Sessions : Continue(s) \/ HostCalls(s) \/ ModelTurn(s)
      BY <2>2 DEF BindingNext
    <3>2. s = t
      OBVIOUS
    <3> QED
      BY <3>1, <3>2
  <2>4. Open(t) \/ Restore(t) \/ RestartClient(t) \/ UNCHANGED client
    BY <2>3
       DEF Continue, HostCalls, ModelTurn, OpenCreates, OpenPublishes, RestoreResumes,
           RestoreSwaps, RestoreBinds, Compose, SendSucceeds, SendFails, TakesReopenMu,
           ReopenSkips, ReopenLocks, ReopenOpens, ReopenSwaps, ReopenBinds, Close, Snapshot,
           RestoreInPlace, Execute, Finalize, Reprompt, EndTurn, TurnStalls
  <2>5. client' # client
    BY <2>1
  <2> QED
    BY <2>4, <2>5 DEF Open, Restore, RestartClient, Unbound
<1> QED
  BY <1>1, BoundUnlessRestartedMeanwhile, BindingInvariant, PTL DEF BindingSpec

-----------------------------------------------------------------------------
(* Repairs. *)

(* What the goroutine of s knows of its Execute: while the child its turn  *)
(* was sent to is the current one, the session is still the one it was     *)
(* sent to; and a repair answers a finalize there was.                     *)
ExecuteKnows(s) ==
    /\ go[s].pc = "turn" => /\ go[s].got.runtime <= client.epoch
                            /\ go[s].got.runtime = client.epoch => sess[s] = go[s].got
    /\ go[s].recorded = TRUE => go[s].pc = "turn"
    /\ go[s].repair = TRUE => go[s].pc \notin {"idle"} \cup Opens \cup Restores
    /\ go[s].repair = TRUE /\ go[s].recorded = FALSE => finalizedIn[s] # NoConversation

FinalizeAges == \A s \in Sessions : finalizedAt[s] <= created[s]

(* As SavedUnlessMoving, for sessions closed while their reopenMu is held. *)
SavedWhileHeld ==
    /\ \A x \in Sessions :
          reopenMu[x] # Nobody /\ (\A s \in Sessions : ~HalfSaved(s, x))
             => sess[x].conv = persisted[x]
    /\ \A s \in Sessions : go[s].pc = "reopened" /\ go[s].resumed = TRUE
                              => go[s].got.conv = sess[go[s].target].conv

(* A fresh conversation that the creation epoch does not count yet. *)
Uncounted(s, x) == go[s].pc = "rebinding" /\ go[s].target = x /\ go[s].resumed = FALSE

(* The epochs say truly that the finalize lies in the conversation the     *)
(* session is in, or the host has restored another one since.              *)
FinalizeHeld ==
    \A x \in Sessions :
        /\ finalizedAt[x] > 0 /\ finalizedAt[x] >= created[x]
        /\ go[x].pc # "restoreBind" /\ \A s \in Sessions : ~Uncounted(s, x)
        => finalizedIn[x] \in {NoConversation, sess[x].conv}

RepairInv ==
    (\A s \in Sessions : ExecuteKnows(s)) /\ FinalizeAges /\ SavedWhileHeld /\ FinalizeHeld

(* What is in no window and touches neither conversations nor finalizes. *)
LEMMA RepairStays ==
    ASSUME BindingInv, BindingInv', RepairInv, NEW s \in Sessions,
           \A t \in Sessions : t # s => go'[t] = go[t],
           go[s].pc \notin {"restoreBind", "reopened", "rebinding"},
           go'[s].pc \notin {"restoreBind", "reopened", "rebinding"},
           UNCHANGED <<sess, created, finalizedAt, persisted, finalizedIn>>,
           \A x \in Sessions :
              reopenMu'[x] # Nobody => reopenMu[x] # Nobody \/ sess[x].conv = persisted[x],
           client'.epoch >= client.epoch,
           ExecuteKnows(s)'
    PROVE  RepairInv'
<1>0. /\ client.epoch \in Nat /\ client'.epoch \in Nat
      /\ \A t \in Sessions : go[t].got.runtime \in Nat
  <2>1. client'.epoch \in Runtimes
    BY DEF BindingInv, BindingTypeOK
  <2> QED
    BY <2>1, StateNumbers, Numbers
<1>1. ASSUME NEW t \in Sessions PROVE ExecuteKnows(t)'
  <2>1. CASE t = s
    BY <2>1
  <2>2. CASE t # s
    BY <1>0, <2>2 DEF RepairInv, ExecuteKnows
  <2> QED
    BY <2>1, <2>2
<1>2. FinalizeAges'
  BY DEF RepairInv, FinalizeAges
<1>3. SavedWhileHeld'
  <2>1. \A t, x \in Sessions : HalfSaved(t, x)' <=> HalfSaved(t, x)
    BY DEF HalfSaved
  <2> QED
    BY <2>1 DEF RepairInv, SavedWhileHeld
<1>4. FinalizeHeld'
  <2>1. \A t, x \in Sessions : Uncounted(t, x)' <=> Uncounted(t, x)
    BY DEF Uncounted
  <2> QED
    BY <2>1 DEF RepairInv, FinalizeHeld
<1> QED
  BY <1>1, <1>2, <1>3, <1>4 DEF RepairInv

(* A goroutine that rests knows nothing. *)
LEMMA RestingKnows ==
    ASSUME NEW s \in Sessions, go'[s] = Resting
    PROVE  ExecuteKnows(s)' /\ go'[s].pc = "idle"
BY DEF Resting, ExecuteKnows, Opens, Restores

(* The steps of an Execute up to its end. *)
LEMMA ExecuteMoves ==
    ASSUME BindingInv, BindingInv', RepairInv, NEW s \in Sessions,
           \/ Execute(s) \/ Compose(s) \/ SendSucceeds(s) \/ SendFails(s)
           \/ Reprompt(s) \/ EndTurn(s) \/ TurnStalls(s) \/ RestartClient(s)
    PROVE  RepairInv'
<1>0. /\ BindingTypeOK /\ go \in [Sessions -> Goroutine] /\ go[s] \in Goroutine
      /\ sess[s].runtime \in Nat /\ client.epoch \in Nat /\ sess[s] \in SdkSession
  BY Entries, StateNumbers DEF BindingInv, BindingTypeOK
<1>1. \A t \in Sessions : t # s => go'[t] = go[t]
  BY <1>0, OthersStay DEF Continue, HostCalls, ModelTurn
<1>2. /\ go[s].pc \in Quiet
      /\ UNCHANGED <<sess, created, finalizedAt, persisted, reopenMu, finalizedIn>>
  BY DEF Execute, Compose, SendSucceeds, SendFails, Reprompt, EndTurn, TurnStalls, RestartClient,
         sdkVars, hostVars, Quiet
<1>3. client'.epoch >= client.epoch
  BY <1>0, EpochGrows DEF Continue, HostCalls, ModelTurn
<1>4. ExecuteKnows(s)
  BY DEF RepairInv
<1>5. ExecuteKnows(s)' /\ go'[s].pc \in Quiet
  <2>1. CASE go' = [go EXCEPT ![s] = Resting]
    <3>1. go'[s] = Resting
      BY <1>0, <2>1
    <3> QED
      BY <3>1, RestingKnows DEF Quiet
  <2>2. CASE Execute(s)
    <3> PICK repair \in BOOLEAN :
          /\ repair => finalizedIn[s] # NoConversation
          /\ go' = [go EXCEPT ![s].pc = "compose", ![s].repair = repair]
      BY <2>2 DEF Execute
    <3>1. go'[s].pc = "compose" /\ go'[s].repair = repair /\ go'[s].recorded = go[s].recorded
      BY <1>0 DEF Goroutine
    <3> QED
      BY <1>2, <1>4, <2>2, <3>1 DEF Execute, ExecuteKnows, Opens, Restores, Quiet
  <2>3. CASE Compose(s)
    <3> DEFINE prompt == IF go[s].prompt = "corrective" THEN go[s].prompt
                         ELSE IF go[s].repair /\ RepairInSession(s) THEN "minimal" ELSE "full"
    <3>1. go' = [go EXCEPT ![s].pc = "send", ![s].prompt = prompt]
      BY <1>0, <2>3 DEF Compose
    <3> HIDE DEF prompt
    <3>2. /\ go'[s].pc = "send" /\ go'[s].repair = go[s].repair
          /\ go'[s].recorded = go[s].recorded
      BY <1>0, <3>1 DEF Goroutine
    <3> QED
      BY <1>2, <1>4, <2>3, <3>2 DEF Compose, ExecuteKnows, Opens, Restores, Quiet
  <2>4. CASE SendSucceeds(s)
    <3>1. /\ go'[s].pc = "turn" /\ go'[s].repair = go[s].repair
          /\ go'[s].recorded = go[s].recorded /\ go'[s].got = sess[s]
      BY <1>0, <2>4 DEF SendSucceeds, Goroutine
    <3>2. client' = client /\ client.epoch = sess[s].runtime
      BY <2>4 DEF SendSucceeds, Alive
    <3> QED
      BY <1>0, <1>2, <1>4, <2>4, <3>1, <3>2
         DEF SendSucceeds, ExecuteKnows, Opens, Restores, Quiet
  <2>5. CASE Reprompt(s)
    <3>1. /\ go'[s].pc = "send" /\ go'[s].repair = go[s].repair
          /\ go'[s].recorded = go[s].recorded
      BY <1>0, <2>5 DEF Reprompt, Goroutine
    <3>2. go[s].recorded = FALSE
      BY <1>0, <2>5 DEF Reprompt, Goroutine
    <3> QED
      BY <1>2, <1>4, <3>1, <3>2 DEF ExecuteKnows, Opens, Restores, Quiet
  <2>6. CASE TurnStalls(s)
    <3>1. /\ go'[s].pc = "failed" /\ go'[s].repair = go[s].repair
          /\ go'[s].recorded = go[s].recorded
      BY <1>0, <2>6 DEF TurnStalls, Goroutine
    <3>2. go[s].recorded = FALSE
      BY <1>0, <2>6 DEF TurnStalls, Goroutine
    <3> QED
      BY <1>2, <1>4, <3>1, <3>2 DEF ExecuteKnows, Opens, Restores, Quiet
  <2>7. CASE RestartClient(s)
    <3> DEFINE point == IF client'.up THEN "sweep" ELSE "compose"
               others == IF client'.up THEN open ELSE {}
    <3>1. go' = [go EXCEPT ![s].pc = point, ![s].todo = others, ![s].force = FALSE]
      BY <2>7 DEF RestartClient
    <3>2. point \in {"sweep", "compose"}
      OBVIOUS
    <3> HIDE DEF point, others
    <3>3. /\ go'[s].pc = point /\ go'[s].repair = go[s].repair
          /\ go'[s].recorded = go[s].recorded
      BY <1>0, <3>1 DEF Goroutine
    <3> QED
      BY <1>2, <1>4, <2>7, <3>2, <3>3 DEF RestartClient, ExecuteKnows, Opens, Restores, Quiet
  <2>8. CASE /\ go[s].pc = "send"
             /\ \E stall \in BOOLEAN :
                   go' = [go EXCEPT ![s].pc = "failed", ![s].tries = @ + 1, ![s].force = stall]
    <3> PICK stall \in BOOLEAN :
          go' = [go EXCEPT ![s].pc = "failed", ![s].tries = go[s].tries + 1, ![s].force = stall]
      BY <1>0, <2>8
    <3>1. /\ go'[s].pc = "failed" /\ go'[s].repair = go[s].repair
          /\ go'[s].recorded = go[s].recorded
      BY <1>0 DEF Goroutine
    <3> QED
      BY <1>2, <1>4, <2>8, <3>1 DEF ExecuteKnows, Opens, Restores, Quiet
  <2> QED
    BY <2>1, <2>2, <2>3, <2>4, <2>5, <2>6, <2>7, <2>8 DEF SendFails, EndTurn
<1> QED
  BY <1>1, <1>2, <1>3, <1>5, RepairStays DEF Quiet

(* Who waits for the lock of a listed session finds it saved. *)
LEMMA FreeIsSaved ==
    ASSUME BindingInv, NEW x \in open, reopenMu[x] = Nobody
    PROVE  sess[x].conv = persisted[x]
<1>1. x \in Sessions /\ LocksHeld
  BY DEF BindingInv, BindingTypeOK
<1>2. ASSUME NEW s \in Sessions PROVE ~HalfSaved(s, x)
  <2>1. reopenMu[x] # s
    BY NobodyAssumption
  <2> QED
    BY <1>1, <2>1 DEF LocksHeld, HalfSaved, Restores, Reopens
<1> QED
  BY <1>2 DEF BindingInv, SavedUnlessMoving

LEMMA TargetKnows ==
    ASSUME BindingTypeOK, NEW s \in Sessions, NEW x \in Sessions, ExecuteKnows(s),
           go[s].pc \in {"sweep"} \cup Reopens, go'[s] = AfterTarget(s, x),
           UNCHANGED finalizedIn
    PROVE  ExecuteKnows(s)' /\ go'[s].pc \in {"compose", "sweep"}
<1>1. /\ go'[s].pc \in {"compose", "sweep"}
      /\ go'[s].repair = go[s].repair /\ go'[s].recorded = go[s].recorded
  <2>1. /\ AfterTarget(s, x).pc \in {"compose", "sweep"}
        /\ AfterTarget(s, x).repair = go[s].repair
        /\ AfterTarget(s, x).recorded = go[s].recorded
    BY TargetDone
  <2> QED
    BY <2>1
<1> QED
  BY <1>1 DEF ExecuteKnows, Opens, Restores, Reopens

(* Steps outside the windows that are no part of an Execute. *)
LEMMA CallMoves ==
    ASSUME BindingInv, BindingInv', RepairInv, NEW s \in Sessions,
           \/ Open(s) \/ Restore(s) \/ RestoreResumes(s)
           \/ \E x \in Sessions : ReopenSkips(s, x) \/ ReopenLocks(s, x)
    PROVE  RepairInv'
<1>0. /\ BindingTypeOK /\ go \in [Sessions -> Goroutine] /\ go[s] \in Goroutine
      /\ reopenMu \in [Sessions -> Sessions \cup {Nobody}] /\ open \subseteq Sessions
  BY Entries DEF BindingInv, BindingTypeOK
<1>1. \A t \in Sessions : t # s => go'[t] = go[t]
  BY <1>0, OthersStay DEF Continue, HostCalls, TakesReopenMu
<1>2. /\ go[s].pc \in {"idle", "restoring", "sweep"}
      /\ UNCHANGED <<sess, created, finalizedAt, persisted, finalizedIn>>
  BY DEF Open, Restore, RestoreResumes, ReopenSkips, ReopenLocks, sdkVars, hostVars
<1>3. client'.epoch >= client.epoch
  BY <1>0, EpochGrows DEF Continue, HostCalls, TakesReopenMu
<1>4. ExecuteKnows(s)
  BY DEF RepairInv
<1>5. ASSUME NEW x \in Sessions, reopenMu'[x] # Nobody
      PROVE  reopenMu[x] # Nobody \/ sess[x].conv = persisted[x]
  <2>1. CASE Open(s)
    BY <1>5, <2>1 DEF Open
  <2>2. CASE Restore(s)
    <3>1. reopenMu' = reopenMu \/ (reopenMu' = [reopenMu EXCEPT ![s] = s] /\ s \in open)
      BY <2>2 DEF Restore
    <3> QED
      BY <1>0, <1>5, <3>1, FreeIsSaved
  <2>3. CASE RestoreResumes(s)
    BY <1>0, <1>5, <2>3 DEF RestoreResumes
  <2>4. ASSUME NEW y \in Sessions, ReopenSkips(s, y) \/ ReopenLocks(s, y)
        PROVE  reopenMu[x] # Nobody \/ sess[x].conv = persisted[x]
    <3>1. reopenMu' = reopenMu \/ (reopenMu' = [reopenMu EXCEPT ![y] = s] /\ y \in open)
      BY <2>4 DEF ReopenSkips, ReopenLocks, Superseded
    <3> QED
      BY <1>0, <1>5, <3>1, FreeIsSaved
  <2> QED
    BY <2>1, <2>2, <2>3, <2>4
<1>6. ExecuteKnows(s)' /\ go'[s].pc \notin {"restoreBind", "reopened", "rebinding"}
  <2>1. ASSUME go'[s].repair = go[s].repair, go'[s].recorded = go[s].recorded,
               go'[s].pc \in {"idle", "opening", "restoring", "restored", "reopening"},
               go[s].pc \in {"idle", "restoring"} \/ go'[s].pc = "reopening"
        PROVE  ExecuteKnows(s)'
    BY <1>2, <1>4, <2>1 DEF ExecuteKnows, Opens, Restores
  <2>2. CASE Open(s)
    <3> DEFINE point == IF client'.up THEN "opening" ELSE "idle"
               epoch == IF client'.up THEN client'.epoch ELSE 0
    <3>1. go' = [go EXCEPT ![s].pc = point, ![s].got.runtime = epoch] /\ go[s].pc = "idle"
      BY <2>2 DEF Open
    <3>2. point \in {"opening", "idle"}
      OBVIOUS
    <3> HIDE DEF point, epoch
    <3>3. /\ go'[s].pc = point /\ go'[s].repair = go[s].repair
          /\ go'[s].recorded = go[s].recorded
      BY <1>0, <3>1 DEF Goroutine
    <3> QED
      BY <2>1, <3>1, <3>2, <3>3
  <2>3. CASE Restore(s)
    <3> DEFINE got == [runtime |-> client'.epoch, conv |-> checkpoint[s]]
    <3>1. /\ go' = go \/ go' = [go EXCEPT ![s].pc = "restoring", ![s].got = got]
          /\ go[s].pc = "idle"
      BY <2>3 DEF Restore
    <3> HIDE DEF got
    <3>2. /\ go'[s].pc \in {"idle", "restoring"} /\ go'[s].repair = go[s].repair
          /\ go'[s].recorded = go[s].recorded
      BY <1>0, <3>1 DEF Goroutine
    <3> QED
      BY <2>1, <3>1, <3>2
  <2>4. CASE RestoreResumes(s)
    <3>1. CASE go' = [go EXCEPT ![s] = Resting]
      BY <1>0, <3>1, RestingKnows
    <3>2. CASE go' = [go EXCEPT ![s].pc = "restored"]
      <4>1. /\ go'[s].pc = "restored" /\ go'[s].repair = go[s].repair
            /\ go'[s].recorded = go[s].recorded /\ go[s].pc = "restoring"
        BY <1>0, <2>4, <3>2 DEF RestoreResumes, Goroutine
      <4> QED
        BY <2>1, <4>1
    <3> QED
      BY <2>4, <3>1, <3>2 DEF RestoreResumes
  <2>5. ASSUME NEW x \in Sessions, ReopenSkips(s, x)
        PROVE  ExecuteKnows(s)' /\ go'[s].pc \notin {"restoreBind", "reopened", "rebinding"}
    <3>1. go'[s] = AfterTarget(s, x) /\ go[s].pc = "sweep"
      BY <1>0, <2>5 DEF ReopenSkips
    <3> QED
      BY <1>0, <1>2, <1>4, <3>1, TargetKnows
  <2>6. ASSUME NEW x \in Sessions, ReopenLocks(s, x)
        PROVE  ExecuteKnows(s)' /\ go'[s].pc \notin {"restoreBind", "reopened", "rebinding"}
    <3> DEFINE got == [runtime |-> client.epoch, conv |-> NoConversation]
    <3>1. go' = [go EXCEPT ![s].pc = "reopening", ![s].target = x, ![s].got = got]
      BY <2>6 DEF ReopenLocks
    <3> HIDE DEF got
    <3>2. /\ go'[s].pc = "reopening" /\ go'[s].repair = go[s].repair
          /\ go'[s].recorded = go[s].recorded
      BY <1>0, <3>1 DEF Goroutine
    <3> QED
      BY <2>1, <3>2
  <2> QED
    BY <2>2, <2>3, <2>4, <2>5, <2>6
<1> QED
  BY <1>1, <1>2, <1>3, <1>5, <1>6, RepairStays

(* OpenSession. *)
LEMMA OpenMoves ==
    ASSUME BindingInv, BindingInv', RepairInv, NEW s \in Sessions,
           OpenCreates(s) \/ OpenPublishes(s)
    PROVE  RepairInv'
<1>0. /\ BindingTypeOK /\ go \in [Sessions -> Goroutine] /\ go[s] \in Goroutine
  BY Entries DEF BindingInv, BindingTypeOK
<1>1. \A t \in Sessions : t # s => go'[t] = go[t]
  BY <1>0, OthersStay DEF Continue
<1>2. /\ go[s].pc \in Opens
      /\ UNCHANGED <<client, finalizedIn, reopenMu>>
  BY DEF OpenCreates, OpenPublishes, hostVars, Opens
<1>3. /\ reopenMu[s] = Nobody
      /\ \A t \in Sessions : go[t].pc \in Reopens => go[t].target # s
      /\ go'[s].pc \in {"idle", "opened"}
  <2>1. reopenMu[s] = Nobody
    BY <1>2 DEF BindingInv, LocksHeld
  <2>2. go'[s].pc \in {"idle", "opened"}
    BY <1>0, RestingIsTyped DEF OpenCreates, OpenPublishes, Goroutine
  <2>3. \A t \in Sessions : go[t].pc \in Reopens => go[t].target # s
    BY <2>1, NobodyAssumption DEF BindingInv, LocksHeld
  <2> QED
    BY <2>1, <2>2, <2>3
<1>4. /\ \A x \in Sessions : x # s => /\ sess'[x] = sess[x] /\ created'[x] = created[x]
                                      /\ finalizedAt'[x] = finalizedAt[x]
                                      /\ persisted'[x] = persisted[x]
      /\ finalizedAt'[s] <= created'[s]
      /\ finalizedAt'[s] > 0 => UNCHANGED <<sess, created, finalizedAt>>
  <2>1. CASE OpenPublishes(s)
    BY <1>0, <2>1 DEF OpenPublishes, BindingTypeOK
  <2>2. CASE OpenCreates(s)
    <3>1. UNCHANGED <<sess, created, finalizedAt>>
      BY <2>2 DEF OpenCreates, sdkVars
    <3>2. persisted' = persisted \/ persisted' = [persisted EXCEPT ![s] = born + 1]
      BY <2>2 DEF OpenCreates, OpenSdk
    <3> QED
      BY <1>0, <3>1, <3>2 DEF BindingTypeOK, RepairInv, FinalizeAges
  <2> QED
    BY <2>1, <2>2
<1>5. \A t, x \in Sessions : /\ HalfSaved(t, x)' <=> HalfSaved(t, x)
                             /\ Uncounted(t, x)' <=> Uncounted(t, x)
  BY <1>1, <1>2, <1>3 DEF HalfSaved, Uncounted, Opens
<1>6. ASSUME NEW t \in Sessions PROVE ExecuteKnows(t)'
  <2>1. CASE t # s
    BY <1>1, <1>2, <1>4, <2>1 DEF RepairInv, ExecuteKnows
  <2>2. CASE go'[s] = Resting
    BY <2>1, <2>2, RestingKnows
  <2>3. ASSUME NEW got \in SdkSession, go' = [go EXCEPT ![s].pc = "opened", ![s].got = got]
        PROVE  ExecuteKnows(s)'
    <3>1. /\ go'[s].pc = "opened" /\ go'[s].repair = go[s].repair
          /\ go'[s].recorded = go[s].recorded
      BY <1>0, <2>3 DEF Goroutine
    <3> QED
      BY <1>2, <3>1 DEF RepairInv, ExecuteKnows, Opens
  <2> QED
    BY <1>0, <2>1, <2>2, <2>3 DEF OpenCreates, OpenPublishes
<1>7. FinalizeAges'
  BY <1>4 DEF RepairInv, FinalizeAges
<1>8. SavedWhileHeld'
  <2>1. ASSUME NEW x \in Sessions, reopenMu'[x] # Nobody, \A t \in Sessions : ~HalfSaved(t, x)'
        PROVE  sess'[x].conv = persisted'[x]
    BY <1>2, <1>3, <1>4, <1>5, <2>1 DEF RepairInv, SavedWhileHeld
  <2>2. ASSUME NEW t \in Sessions, go'[t].pc = "reopened", go'[t].resumed = TRUE
        PROVE  go'[t].got.conv = sess'[go'[t].target].conv
    <3>1. t # s /\ go'[t] = go[t]
      BY <1>1, <1>3, <2>2
    <3>2. go[t].target \in Sessions /\ go[t].target # s
      BY <1>3, <2>2, <3>1 DEF BindingInv, LocksHeld, Reopens
    <3> QED
      BY <1>4, <2>2, <3>1, <3>2 DEF RepairInv, SavedWhileHeld
  <2> QED
    BY <2>1, <2>2 DEF SavedWhileHeld
<1>9. FinalizeHeld'
  <2>1. ASSUME NEW x \in Sessions, x # s,
               finalizedAt'[x] > 0, finalizedAt'[x] >= created'[x],
               go'[x].pc # "restoreBind", \A t \in Sessions : ~Uncounted(t, x)'
        PROVE  finalizedIn'[x] \in {NoConversation, sess'[x].conv}
    BY <1>1, <1>2, <1>4, <1>5, <2>1 DEF RepairInv, FinalizeHeld
  <2>2. ASSUME finalizedAt'[s] > 0, finalizedAt'[s] >= created'[s],
               \A t \in Sessions : ~Uncounted(t, s)'
        PROVE  finalizedIn'[s] \in {NoConversation, sess'[s].conv}
    BY <1>2, <1>4, <1>5, <2>2 DEF RepairInv, FinalizeHeld, Opens
  <2> QED
    BY <2>1, <2>2 DEF FinalizeHeld
<1> QED
  BY <1>6, <1>7, <1>8, <1>9 DEF RepairInv

(* Restore. *)
LEMMA RestoreMoves ==
    ASSUME BindingInv, BindingInv', RepairInv, NEW s \in Sessions,
           RestoreInPlace(s) \/ RestoreSwaps(s) \/ RestoreBinds(s)
    PROVE  RepairInv'
<1>0. /\ BindingTypeOK /\ go \in [Sessions -> Goroutine] /\ go[s] \in Goroutine
  BY Entries DEF BindingInv, BindingTypeOK
<1>1. \A t \in Sessions : t # s => go'[t] = go[t]
  BY <1>0, OthersStay DEF Continue, HostCalls
<1>2. /\ go[s].pc \in {"idle", "restored", "restoreBind"}
      /\ go'[s].pc = IF go[s].pc = "restored" THEN "restoreBind" ELSE "idle"
      /\ ExecuteKnows(s)'
      /\ UNCHANGED <<client, created, finalizedAt>>
  <2>1. CASE RestoreInPlace(s)
    BY <2>1 DEF RestoreInPlace, sdkVars, RepairInv, ExecuteKnows
  <2>2. CASE RestoreSwaps(s)
    <3>1. /\ go[s].pc = "restored" /\ go'[s].pc = "restoreBind"
          /\ go'[s].repair = go[s].repair /\ go'[s].recorded = go[s].recorded
      BY <1>0, <2>2 DEF RestoreSwaps, Goroutine
    <3>2. UNCHANGED <<client, created, finalizedAt>>
      BY <2>2 DEF RestoreSwaps
    <3> QED
      BY <1>0, <3>1, <3>2 DEF RepairInv, ExecuteKnows, Restores, Goroutine
  <2>3. CASE RestoreBinds(s)
    <3>1. go'[s] = Resting /\ go[s].pc = "restoreBind" /\ UNCHANGED <<client, created, finalizedAt>>
      BY <1>0, <2>3 DEF RestoreBinds
    <3> QED
      BY <3>1, RestingKnows
  <2> QED
    BY <2>1, <2>2, <2>3
<1>3. /\ go[s].pc \in Restores => reopenMu[s] = s
      /\ \A t \in Sessions : go[t].pc \in Reopens => go[t].target \in Sessions
      /\ \A t \in Sessions : go[t].pc \in Reopens /\ go[s].pc \in Restores => go[t].target # s
  BY DEF BindingInv, LocksHeld, Restores, Reopens
<1>4. \A x \in Sessions : x # s => /\ sess'[x] = sess[x] /\ persisted'[x] = persisted[x]
                                    /\ reopenMu'[x] = reopenMu[x]
                                    /\ finalizedIn'[x] = finalizedIn[x]
  BY <1>0 DEF RestoreInPlace, RestoreSwaps, RestoreBinds, Forget, sdkVars, hostVars, BindingTypeOK
<1>5. go'[s].pc = "idle" => /\ sess' = sess /\ persisted'[s] = sess[s].conv
                            /\ finalizedIn'[s] \in {NoConversation, sess[s].conv}
  <2>1. CASE RestoreInPlace(s)
    BY <1>0, <2>1 DEF RestoreInPlace, Forget, sdkVars, BindingTypeOK
  <2>2. CASE RestoreSwaps(s)
    BY <1>2, <2>2 DEF RestoreSwaps
  <2>3. CASE RestoreBinds(s)
    <3>1. sess[s] = go[s].got
      BY <2>3 DEF RestoreBinds, BindingInv, LocalsAgree
    <3> QED
      BY <1>0, <2>3, <3>1 DEF RestoreBinds, Forget, BindingTypeOK
  <2> QED
    BY <2>1, <2>2, <2>3
<1>6. \A t, x \in Sessions : /\ x # s => (HalfSaved(t, x)' <=> HalfSaved(t, x))
                             /\ Uncounted(t, x)' <=> Uncounted(t, x)
  BY <1>1, <1>2 DEF HalfSaved, Uncounted
<1>7. ASSUME NEW t \in Sessions PROVE ExecuteKnows(t)'
  <2>1. CASE t # s
    BY <1>1, <1>2, <1>4, <2>1 DEF RepairInv, ExecuteKnows
  <2> QED
    BY <1>2, <2>1
<1>8. FinalizeAges'
  BY <1>2 DEF RepairInv, FinalizeAges
<1>9. SavedWhileHeld'
  <2>1. ASSUME NEW x \in Sessions, x # s, reopenMu'[x] # Nobody,
               \A t \in Sessions : ~HalfSaved(t, x)'
        PROVE  sess'[x].conv = persisted'[x]
    BY <1>4, <1>6, <2>1 DEF RepairInv, SavedWhileHeld
  <2>2. ~HalfSaved(s, s)' => sess'[s].conv = persisted'[s]
    BY <1>2, <1>5 DEF HalfSaved
  <2>3. ASSUME NEW t \in Sessions, go'[t].pc = "reopened", go'[t].resumed = TRUE
        PROVE  go'[t].got.conv = sess'[go'[t].target].conv
    <3>1. t # s /\ go'[t] = go[t] /\ go[t].target \in Sessions
      BY <1>1, <1>2, <1>3, <2>3 DEF Reopens
    <3>2. go[t].target # s \/ sess' = sess
      BY <1>2, <1>3, <1>5, <2>3, <3>1 DEF Restores, Reopens
    <3> QED
      BY <1>4, <2>3, <3>1, <3>2 DEF RepairInv, SavedWhileHeld
  <2> QED
    BY <2>1, <2>2, <2>3 DEF SavedWhileHeld
<1>10. FinalizeHeld'
  <2>1. ASSUME NEW x \in Sessions, x # s,
               finalizedAt'[x] > 0, finalizedAt'[x] >= created'[x],
               go'[x].pc # "restoreBind", \A t \in Sessions : ~Uncounted(t, x)'
        PROVE  finalizedIn'[x] \in {NoConversation, sess'[x].conv}
    BY <1>1, <1>2, <1>4, <1>6, <2>1 DEF RepairInv, FinalizeHeld
  <2>2. go'[s].pc # "restoreBind" => finalizedIn'[s] \in {NoConversation, sess'[s].conv}
    BY <1>2, <1>5
  <2> QED
    BY <2>1, <2>2 DEF FinalizeHeld
<1> QED
  BY <1>7, <1>8, <1>9, <1>10 DEF RepairInv

(* The model's finalize lies in the conversation its turn was sent to. *)
LEMMA FinalizeMoves ==
    ASSUME BindingInv, BindingInv', RepairInv, NEW s \in Sessions, Finalize(s)
    PROVE  RepairInv'
<1>0. /\ BindingTypeOK /\ go \in [Sessions -> Goroutine] /\ go[s] \in Goroutine
  BY Entries DEF BindingInv, BindingTypeOK
<1>1. /\ \A t \in Sessions : t # s => go'[t] = go[t]
      /\ UNCHANGED <<client, sess, created, persisted, reopenMu>>
  BY <1>0, OthersStay DEF Finalize, ModelTurn, sdkVars
<1>2. /\ go[s].pc = "turn" /\ go'[s].pc = "turn" /\ go'[s].got = go[s].got
      /\ go'[s].recorded = TRUE /\ go'[s].repair = go[s].repair
  BY <1>0 DEF Finalize, Goroutine
<1>3. sess[s] = go[s].got
  BY <1>2 DEF Finalize, Alive, RepairInv, ExecuteKnows
<1>4. \A x \in Sessions : /\ finalizedAt'[x] = IF x = s THEN created[s] ELSE finalizedAt[x]
                          /\ finalizedIn'[x] = IF x = s THEN sess[s].conv ELSE finalizedIn[x]
  BY <1>0, <1>3 DEF Finalize, BindingTypeOK
<1>5. \A t, x \in Sessions : /\ HalfSaved(t, x)' <=> HalfSaved(t, x)
                             /\ Uncounted(t, x)' <=> Uncounted(t, x)
  BY <1>1, <1>2 DEF HalfSaved, Uncounted
<1>6. ASSUME NEW t \in Sessions PROVE ExecuteKnows(t)'
  <2>1. CASE t # s
    BY <1>1, <1>4, <2>1 DEF RepairInv, ExecuteKnows
  <2>2. CASE t = s
    BY <1>1, <1>2, <1>3, <2>2 DEF RepairInv, ExecuteKnows
  <2> QED
    BY <2>1, <2>2
<1>7. FinalizeAges'
  <2>1. created[s] \in Nat
    BY StateNumbers
  <2> QED
    BY <1>1, <1>4, <2>1 DEF RepairInv, FinalizeAges
<1>8. SavedWhileHeld'
  BY <1>1, <1>2, <1>5 DEF RepairInv, SavedWhileHeld
<1>9. FinalizeHeld'
  BY <1>1, <1>2, <1>4, <1>5 DEF RepairInv, FinalizeHeld
<1> QED
  BY <1>6, <1>7, <1>8, <1>9 DEF RepairInv

(* The re-opening of a session by a sweep. *)
LEMMA ReopenMoves ==
    ASSUME BindingInv, BindingInv', RepairInv, NEW s \in Sessions,
           ReopenOpens(s) \/ ReopenSwaps(s) \/ ReopenBinds(s)
    PROVE  RepairInv'
<1>0. /\ BindingTypeOK /\ go \in [Sessions -> Goroutine] /\ go[s] \in Goroutine
      /\ go[s].resumed \in BOOLEAN
  BY Entries DEF BindingInv, BindingTypeOK, Goroutine
<1>1. \A t \in Sessions : t # s => go'[t] = go[t]
  BY <1>0, OthersStay DEF Continue
<1>2. go[s].pc \in Reopens /\ UNCHANGED <<client, finalizedAt, finalizedIn>>
  BY DEF ReopenOpens, ReopenSwaps, ReopenBinds, hostVars, Reopens
<1> PICK x \in Sessions : x = go[s].target
  BY <1>2 DEF BindingInv, LocksHeld
<1>3. /\ reopenMu[x] = s
      /\ \A t \in Sessions : go[t].pc \in Reopens => go[t].target \in Sessions
      /\ \A t \in Sessions : t # s /\ go[t].pc \in Reopens => go[t].target # x
      /\ \A t \in Sessions : t # s /\ go[t].pc \in Restores => t # x
  BY <1>2 DEF BindingInv, LocksHeld
<1>4. CASE ReopenOpens(s) /\ go' = [go EXCEPT ![s] = AfterTarget(s, x)]
  <2>1. /\ go'[s] = AfterTarget(s, x) /\ go[s].pc = "reopening"
        /\ UNCHANGED <<sess, created, persisted>>
        /\ \A y \in Sessions : reopenMu'[y] # Nobody => reopenMu[y] # Nobody
    <3>1. go'[s] = AfterTarget(s, x)
      BY <1>0, <1>4
    <3>2. AfterTarget(s, x).pc # "reopened"
      BY <1>0, TargetDone
    <3>3. ASSUME NEW got \in SdkSession, NEW resumed \in BOOLEAN,
                 go' = [go EXCEPT ![s].pc = "reopened", ![s].got = got, ![s].resumed = resumed]
          PROVE  FALSE
      <4>1. go'[s].pc = "reopened"
        BY <1>0, <3>3 DEF Goroutine
      <4> QED
        BY <3>1, <3>2, <4>1
    <3>4. /\ reopenMu' = [reopenMu EXCEPT ![x] = Nobody] /\ UNCHANGED persisted
          /\ go[s].pc = "reopening" /\ UNCHANGED <<sess, created>>
      BY <1>4, <3>3 DEF ReopenOpens, sdkVars
    <3> QED
      BY <1>0, <3>1, <3>4 DEF BindingTypeOK
  <2>2. ExecuteKnows(s)' /\ go'[s].pc \in {"compose", "sweep"}
    BY <1>0, <1>2, <2>1, TargetKnows DEF RepairInv
  <2>3. client'.epoch >= client.epoch
    BY <1>2, StateNumbers
  <2> QED
    BY <1>1, <1>2, <2>1, <2>2, <2>3, RepairStays
<1>5. ASSUME NEW got \in SdkSession, NEW resumed \in BOOLEAN,
             ReopenOpens(s), OpenSdk(x, go[s].got.runtime, got, resumed), UNCHANGED reopenMu,
             go' = [go EXCEPT ![s].pc = "reopened", ![s].got = got, ![s].resumed = resumed]
      PROVE  RepairInv'
  <2>1. /\ go[s].pc = "reopening" /\ go'[s].pc = "reopened" /\ go'[s].target = x
        /\ go'[s].got = got /\ go'[s].resumed = resumed
        /\ go'[s].repair = go[s].repair /\ go'[s].recorded = go[s].recorded
        /\ UNCHANGED <<sess, created>>
    BY <1>0, <1>5 DEF ReopenOpens, Goroutine, sdkVars
  <2>2. \A t \in Sessions : ~HalfSaved(t, x)
    BY <1>3, <2>1 DEF HalfSaved, Restores, Reopens
  <2>3. resumed = TRUE => got.conv = sess[x].conv
    <3>1. sess[x].conv = persisted[x]
      BY <1>3, <2>2, NobodyAssumption DEF RepairInv, SavedWhileHeld
    <3>2. resumed = TRUE => got.conv = persisted[x]
      BY <1>5 DEF OpenSdk
    <3> QED
      BY <3>1, <3>2
  <2>4. \A y \in Sessions : y # x => persisted'[y] = persisted[y]
    BY <1>0, <1>5 DEF OpenSdk, BindingTypeOK
  <2>5. /\ \A t, y \in Sessions : y # x => (HalfSaved(t, y)' <=> HalfSaved(t, y))
        /\ \A t, y \in Sessions : Uncounted(t, y)' <=> Uncounted(t, y)
        /\ HalfSaved(s, x)'
    BY <1>1, <2>1 DEF HalfSaved, Uncounted
  <2>6. ASSUME NEW t \in Sessions PROVE ExecuteKnows(t)'
    BY <1>1, <1>2, <2>1 DEF RepairInv, ExecuteKnows, Opens, Restores
  <2>7. FinalizeAges'
    BY <1>2, <2>1 DEF RepairInv, FinalizeAges
  <2>8. SavedWhileHeld'
    <3>1. ASSUME NEW y \in Sessions, reopenMu'[y] # Nobody, \A t \in Sessions : ~HalfSaved(t, y)'
          PROVE  sess'[y].conv = persisted'[y]
      BY <1>5, <2>1, <2>4, <2>5, <3>1 DEF RepairInv, SavedWhileHeld
    <3>2. ASSUME NEW t \in Sessions, go'[t].pc = "reopened", go'[t].resumed = TRUE
          PROVE  go'[t].got.conv = sess'[go'[t].target].conv
      BY <1>1, <2>1, <2>3, <3>2 DEF RepairInv, SavedWhileHeld
    <3> QED
      BY <3>1, <3>2 DEF SavedWhileHeld
  <2>9. FinalizeHeld'
    <3>1. \A y \in Sessions : go'[y].pc # "restoreBind" => go[y].pc # "restoreBind"
      BY <1>1, <2>1
    <3> QED
      BY <1>2, <2>1, <2>5, <3>1 DEF RepairInv, FinalizeHeld
  <2> QED
    BY <2>6, <2>7, <2>8, <2>9 DEF RepairInv
<1>6. CASE ReopenSwaps(s)
  <2>1. /\ go[s].pc = "reopened" /\ go'[s].pc = "rebinding" /\ go'[s].target = x
        /\ go'[s].got = go[s].got /\ go'[s].resumed = go[s].resumed
        /\ go'[s].repair = go[s].repair /\ go'[s].recorded = go[s].recorded
        /\ UNCHANGED <<created, persisted, reopenMu>>
    BY <1>0, <1>6 DEF ReopenSwaps, Goroutine
  <2>2. /\ \A y \in Sessions : y # x => sess'[y] = sess[y]
        /\ sess'[x] = go[s].got
    BY <1>0, <1>6 DEF ReopenSwaps, BindingTypeOK
  <2>3. go[s].resumed = TRUE => sess'[x].conv = sess[x].conv
    BY <2>1, <2>2 DEF RepairInv, SavedWhileHeld
  <2>4. /\ \A t, y \in Sessions : HalfSaved(t, y)' <=> HalfSaved(t, y)
        /\ \A t, y \in Sessions : y # x => (Uncounted(t, y)' <=> Uncounted(t, y))
        /\ HalfSaved(s, x)
    BY <1>1, <2>1 DEF HalfSaved, Uncounted
  <2>5. sess[x].runtime < go[s].got.runtime /\ go[s].got.runtime <= client.epoch
    BY <2>1 DEF BindingInv, EpochsInOrder, Reopens
  <2>6. ASSUME NEW t \in Sessions PROVE ExecuteKnows(t)'
    <3>1. CASE t = s
      BY <1>2, <2>1, <3>1 DEF RepairInv, ExecuteKnows, Opens, Restores
    <3>2. CASE t # s /\ t # x
      BY <1>1, <1>2, <2>2, <3>2 DEF RepairInv, ExecuteKnows
    <3>3. CASE t # s /\ t = x
      <4>1. /\ client.epoch \in Nat /\ sess[x].runtime \in Nat
            /\ go[s].got.runtime \in Nat
        BY StateNumbers
      <4>2. sess[x].runtime # client.epoch
        BY <2>5, <4>1
      <4>3. ~(go[t].pc = "turn" /\ go[t].got.runtime = client.epoch)
        BY <3>3, <4>2 DEF RepairInv, ExecuteKnows
      <4> QED
        BY <1>1, <1>2, <3>3, <4>3 DEF RepairInv, ExecuteKnows
    <3> QED
      BY <3>1, <3>2, <3>3
  <2>7. FinalizeAges'
    BY <1>2, <2>1 DEF RepairInv, FinalizeAges
  <2>8. SavedWhileHeld'
    <3>1. ASSUME NEW y \in Sessions, reopenMu'[y] # Nobody, \A t \in Sessions : ~HalfSaved(t, y)'
          PROVE  sess'[y].conv = persisted'[y]
      BY <2>1, <2>2, <2>4, <3>1 DEF RepairInv, SavedWhileHeld
    <3>2. ASSUME NEW t \in Sessions, go'[t].pc = "reopened", go'[t].resumed = TRUE
          PROVE  go'[t].got.conv = sess'[go'[t].target].conv
      <4>1. t # s /\ go'[t] = go[t] /\ go[t].pc \in Reopens
        BY <1>1, <2>1, <3>2 DEF Reopens
      <4>2. go[t].target \in Sessions /\ go[t].target # x
        BY <1>3, <4>1
      <4> QED
        BY <2>2, <3>2, <4>1, <4>2 DEF RepairInv, SavedWhileHeld
    <3> QED
      BY <3>1, <3>2 DEF SavedWhileHeld
  <2>9. FinalizeHeld'
    <3> SUFFICES ASSUME NEW y \in Sessions, finalizedAt'[y] > 0, finalizedAt'[y] >= created'[y],
                        go'[y].pc # "restoreBind", \A t \in Sessions : ~Uncounted(t, y)'
                 PROVE  finalizedIn'[y] \in {NoConversation, sess'[y].conv}
      BY DEF FinalizeHeld
    <3>1. go[y].pc # "restoreBind"
      BY <1>1, <2>1
    <3>2. CASE y # x
      BY <1>2, <2>1, <2>2, <2>4, <3>1, <3>2 DEF RepairInv, FinalizeHeld
    <3>3. CASE y = x
      <4>1. go[s].resumed = TRUE
        BY <1>0, <2>1, <3>3 DEF Uncounted
      <4>2. \A t \in Sessions : ~Uncounted(t, x)
        BY <1>3, <2>1 DEF Uncounted, Reopens
      <4> QED
        BY <1>2, <2>1, <2>3, <3>1, <3>3, <4>1, <4>2 DEF RepairInv, FinalizeHeld
    <3> QED
      BY <3>2, <3>3
  <2> QED
    BY <2>6, <2>7, <2>8, <2>9 DEF RepairInv
<1>7. CASE ReopenBinds(s)
  <2>1. /\ go[s].pc = "rebinding" /\ go'[s] = AfterTarget(s, x)
        /\ UNCHANGED <<sess, persisted>>
    BY <1>0, <1>7 DEF ReopenBinds
  <2>2. ExecuteKnows(s)' /\ go'[s].pc \in {"compose", "sweep"}
    BY <1>0, <1>2, <2>1, TargetKnows DEF RepairInv
  <2>3. /\ created[x] \in Nat /\ finalizedAt[x] <= created[x] /\ finalizedAt[x] \in Nat
        /\ \A y \in Sessions : created'[y] = IF y = x /\ go[s].resumed = FALSE
                                              THEN created[y] + 1 ELSE created[y]
        /\ \A y \in Sessions : reopenMu'[y] = IF y = x THEN Nobody ELSE reopenMu[y]
    <3>1. finalizedAt[x] \in Nat /\ created[x] \in Nat /\ finalizedAt[x] <= created[x]
      BY <1>0, StateNumbers, Numbers DEF BindingTypeOK, RepairInv, FinalizeAges
    <3> QED
      BY <1>0, <1>7, <3>1 DEF ReopenBinds, BindingTypeOK
  <2>4. \A t, y \in Sessions : y # x => /\ HalfSaved(t, y)' <=> HalfSaved(t, y)
                                        /\ Uncounted(t, y)' <=> Uncounted(t, y)
    BY <1>1, <2>1, <2>2 DEF HalfSaved, Uncounted
  <2>5. ASSUME NEW t \in Sessions PROVE ExecuteKnows(t)'
    <3>1. CASE t # s
      BY <1>1, <1>2, <2>1, <3>1 DEF RepairInv, ExecuteKnows
    <3> QED
      BY <2>2, <3>1
  <2>6. FinalizeAges'
    BY <1>2, <2>3 DEF RepairInv, FinalizeAges
  <2>7. SavedWhileHeld'
    <3>1. ASSUME NEW y \in Sessions, reopenMu'[y] # Nobody, \A t \in Sessions : ~HalfSaved(t, y)'
          PROVE  sess'[y].conv = persisted'[y]
      BY <2>1, <2>3, <2>4, <3>1 DEF RepairInv, SavedWhileHeld
    <3>2. ASSUME NEW t \in Sessions, go'[t].pc = "reopened", go'[t].resumed = TRUE
          PROVE  go'[t].got.conv = sess'[go'[t].target].conv
      BY <1>1, <2>1, <2>2, <3>2 DEF RepairInv, SavedWhileHeld
    <3> QED
      BY <3>1, <3>2 DEF SavedWhileHeld
  <2>8. FinalizeHeld'
    <3> SUFFICES ASSUME NEW y \in Sessions, finalizedAt'[y] > 0, finalizedAt'[y] >= created'[y],
                        go'[y].pc # "restoreBind", \A t \in Sessions : ~Uncounted(t, y)'
                 PROVE  finalizedIn'[y] \in {NoConversation, sess'[y].conv}
      BY DEF FinalizeHeld
    <3>1. go[y].pc # "restoreBind"
      BY <1>1, <2>1
    <3>2. CASE y # x
      BY <1>2, <2>1, <2>3, <2>4, <3>1, <3>2 DEF RepairInv, FinalizeHeld
    <3>3. CASE y = x
      <4>1. go[s].resumed = TRUE
        BY <1>0, <1>2, <2>3, <3>3
      <4>2. \A t \in Sessions : ~Uncounted(t, x)
        BY <1>3, <4>1 DEF Uncounted, Reopens
      <4> QED
        BY <1>2, <2>1, <2>3, <3>1, <3>3, <4>1, <4>2 DEF RepairInv, FinalizeHeld
    <3> QED
      BY <3>2, <3>3
  <2> QED
    BY <2>5, <2>6, <2>7, <2>8 DEF RepairInv
<1> QED
  BY <1>4, <1>5, <1>6, <1>7 DEF ReopenOpens

LEMMA RepairInitially == BindingInit => RepairInv
<1> SUFFICES ASSUME BindingInit PROVE RepairInv
  OBVIOUS
<1>1. \A s \in Sessions : /\ go[s].pc = "idle" /\ go[s].recorded = FALSE /\ go[s].repair = FALSE
                         /\ finalizedAt[s] = 0 /\ created[s] = 0 /\ reopenMu[s] = Nobody
  BY DEF BindingInit, Resting
<1> QED
  BY <1>1 DEF RepairInv, ExecuteKnows, FinalizeAges, SavedWhileHeld, FinalizeHeld

LEMMA RepairNext ==
    ASSUME BindingInv, BindingInv', RepairInv, [BindingNext]_bindingVars
    PROVE  RepairInv'
<1>1. CASE UNCHANGED <<open, sess, created, finalizedAt, persisted, reopenMu, go, finalizedIn>>
           /\ client'.epoch = client.epoch
  BY <1>1
     DEF RepairInv, ExecuteKnows, FinalizeAges, SavedWhileHeld, HalfSaved, FinalizeHeld, Uncounted
<1>2. CASE UNCHANGED bindingVars
  BY <1>1, <1>2 DEF bindingVars, sdkVars, hostVars
<1>3. CASE ChildDies
  BY <1>1, <1>3 DEF ChildDies, sdkVars, hostVars, BindingInv, BindingTypeOK
<1>4. CASE Respawn
  <2>1. \A s \in Sessions : /\ go'[s] = Resting /\ finalizedAt'[s] = 0 /\ created'[s] = 0
                           /\ reopenMu'[s] = Nobody
    BY <1>4 DEF Respawn
  <2>2. \A s \in Sessions : ExecuteKnows(s)' /\ go'[s].pc = "idle"
    BY <2>1, RestingKnows
  <2> QED
    BY <2>1, <2>2 DEF RepairInv, FinalizeAges, SavedWhileHeld, FinalizeHeld
<1>5. ASSUME NEW s \in Sessions, Close(s) \/ Snapshot(s)
      PROVE  RepairInv'
  BY <1>5
     DEF Close, Snapshot, sdkVars, hostVars, RepairInv, ExecuteKnows, FinalizeAges,
         SavedWhileHeld, HalfSaved, FinalizeHeld, Uncounted
<1>6. ASSUME NEW s \in Sessions, Continue(s) \/ HostCalls(s) \/ ModelTurn(s)
      PROVE  RepairInv'
  BY <1>5, <1>6, ExecuteMoves, CallMoves, OpenMoves, RestoreMoves, FinalizeMoves, ReopenMoves
     DEF Continue, HostCalls, ModelTurn, TakesReopenMu
<1> QED
  BY <1>2, <1>3, <1>4, <1>6 DEF BindingNext

(* Always: the epochs the decision for a minimal prompt is made from are   *)
(* true but for the windows in which a restore or a re-open is half done.  *)
LEMMA RepairInvariant == BindingSpec => []RepairInv
<1>1. BindingInv /\ RepairInv /\ [BindingNext]_bindingVars => RepairInv'
  BY NextInv, RepairNext
<1> QED
  BY <1>1, RepairInitially, BindingInvariant, PTL DEF BindingSpec

-----------------------------------------------------------------------------
(* The minimal prompt on its way. *)

(* No sweep puts a session on a fresh conversation while its goroutine has *)
(* composed a minimal prompt and not sent it, or composes one in the       *)
(* middle of that sweep.                                                   *)
NotUnderPrompt ==
    \A s, t \in Sessions :
        Uncounted(t, s) => ~(go[s].pc = "send" /\ go[s].prompt = "minimal")

MinimalReady ==
    \A s \in Sessions :
        go[s].pc = "send" /\ go[s].prompt = "minimal" /\ finalizedAt[s] > 0
           => sess[s].conv = finalizedIn[s]

(* What one goroutine's step does to another's session. *)
LEMMA OthersFinalize ==
    ASSUME BindingTypeOK, NEW t \in Sessions, Continue(t) \/ HostCalls(t) \/ ModelTurn(t),
           NEW s \in Sessions, s # t
    PROVE  /\ finalizedAt'[s] = finalizedAt[s] /\ finalizedIn'[s] = finalizedIn[s]
           /\ sess'[s] = sess[s] \/ (ReopenSwaps(t) /\ go[t].target = s)
<1>1. CASE UNCHANGED <<finalizedAt, finalizedIn, sess>>
  BY <1>1
<1>2. CASE OpenPublishes(t) \/ RestoreInPlace(t) \/ RestoreSwaps(t) \/ RestoreBinds(t) \/ Finalize(t)
  BY <1>2
     DEF BindingTypeOK, OpenPublishes, RestoreInPlace, RestoreSwaps, RestoreBinds, Finalize,
         Forget, sdkVars, hostVars
<1>3. CASE ReopenSwaps(t)
  BY <1>3 DEF BindingTypeOK, ReopenSwaps, hostVars
<1> QED
  BY <1>1, <1>2, <1>3
     DEF Continue, HostCalls, ModelTurn, OpenCreates, RestoreResumes, Compose, SendSucceeds,
         SendFails, RestartClient, TakesReopenMu, ReopenSkips, ReopenLocks, ReopenOpens,
         ReopenBinds, Open, Close, Snapshot, Restore, Execute, Reprompt, EndTurn, TurnStalls,
         sdkVars, hostVars

(* A minimal prompt is new, or was there before. *)
LEMMA OnlyComposed ==
    ASSUME BindingTypeOK, NEW s \in Sessions, Continue(s) \/ HostCalls(s) \/ ModelTurn(s),
           go'[s].pc = "send", go'[s].prompt = "minimal"
    PROVE  \/ go'[s] = go[s] /\ UNCHANGED <<finalizedAt, finalizedIn, sess>>
           \/ /\ Compose(s) /\ go[s].repair = TRUE /\ go[s].recorded = go'[s].recorded
              /\ RepairInSession(s)
<1>1. go \in [Sessions -> Goroutine] /\ go[s] \in Goroutine
  BY Entries DEF BindingTypeOK
<1>2. CASE Close(s) \/ Snapshot(s) \/ RestoreInPlace(s)
  BY <1>2 DEF Close, Snapshot, RestoreInPlace, sdkVars, hostVars
<1>3. CASE Compose(s)
  <2> DEFINE prompt == IF go[s].prompt = "corrective" THEN go[s].prompt
                       ELSE IF go[s].repair /\ RepairInSession(s) THEN "minimal" ELSE "full"
  <2>1. go' = [go EXCEPT ![s].pc = "send", ![s].prompt = prompt]
    BY <1>1, <1>3 DEF Compose
  <2>2. prompt = "minimal" => go[s].repair /\ RepairInSession(s)
    OBVIOUS
  <2> HIDE DEF prompt
  <2>3. go'[s].prompt = prompt /\ go'[s].recorded = go[s].recorded /\ go[s].repair \in BOOLEAN
    BY <1>1, <2>1 DEF Goroutine
  <2> QED
    BY <1>3, <2>2, <2>3
<1>4. CASE Reprompt(s)
  BY <1>1, <1>4 DEF Reprompt, Goroutine
<1>5. go'[s].pc # "idle" /\ go'[s].pc \notin {"compose", "sweep"}
  OBVIOUS
<1>6. CASE \/ OpenCreates(s) \/ OpenPublishes(s) \/ RestoreResumes(s) \/ RestoreSwaps(s)
           \/ RestoreBinds(s) \/ Finalize(s) \/ EndTurn(s) \/ TurnStalls(s)
  BY <1>1, <1>5, <1>6, RestingIsTyped
     DEF OpenCreates, OpenPublishes, RestoreResumes, RestoreSwaps, RestoreBinds, Finalize,
         EndTurn, TurnStalls, Goroutine
<1>7. CASE SendSucceeds(s) \/ SendFails(s) \/ Execute(s)
  BY <1>1, <1>5, <1>7, RestingIsTyped DEF SendSucceeds, SendFails, Execute, Goroutine
<1>8. CASE Open(s) \/ Restore(s) \/ RestartClient(s)
  <2>1. go'[s].pc \in {"idle", "opening", "restoring", "sweep", "compose"}
    BY <1>1, <1>8 DEF Open, Restore, RestartClient, Goroutine
  <2> QED
    BY <2>1
<1>9. CASE ReopenSwaps(s)
  BY <1>1, <1>9 DEF ReopenSwaps, Goroutine
<1>10. ASSUME NEW x \in Sessions, ReopenSkips(s, x) \/ ReopenLocks(s, x)
       PROVE  FALSE
  <2>1. CASE ReopenSkips(s, x)
    BY <1>1, <1>5, <2>1, TargetDone DEF ReopenSkips
  <2>2. CASE ReopenLocks(s, x)
    <3> DEFINE got == [runtime |-> client.epoch, conv |-> NoConversation]
    <3>1. go' = [go EXCEPT ![s].pc = "reopening", ![s].target = x, ![s].got = got]
      BY <2>2 DEF ReopenLocks
    <3> HIDE DEF got
    <3> QED
      BY <1>1, <3>1 DEF Goroutine
  <2> QED
    BY <1>10, <2>1, <2>2
<1>11. CASE ReopenOpens(s) \/ ReopenBinds(s)
  <2>1. CASE go' = [go EXCEPT ![s] = AfterTarget(s, go[s].target)]
    <3>1. go'[s] = AfterTarget(s, go[s].target)
      BY <1>1, <2>1
    <3>2. AfterTarget(s, go[s].target).pc \in {"compose", "sweep"}
      BY <1>1 DEF AfterTarget, Goroutine
    <3> QED
      BY <1>5, <3>1, <3>2
  <2>2. CASE \E got \in SdkSession, resumed \in BOOLEAN :
                go' = [go EXCEPT ![s].pc = "reopened", ![s].got = got, ![s].resumed = resumed]
    BY <1>1, <2>2 DEF Goroutine
  <2> QED
    BY <1>11, <2>1, <2>2 DEF ReopenOpens, ReopenBinds
<1> QED
  BY <1>2, <1>3, <1>4, <1>6, <1>7, <1>8, <1>9, <1>10, <1>11
     DEF Continue, HostCalls, ModelTurn, TakesReopenMu

LEMMA MinimalNext ==
    ASSUME BindingInv, RepairInv, MinimalReady, NotUnderPrompt', [BindingNext]_bindingVars
    PROVE  MinimalReady'
<1> SUFFICES ASSUME NEW s \in Sessions, go'[s].pc = "send", go'[s].prompt = "minimal",
                    finalizedAt'[s] > 0
             PROVE  sess'[s].conv = finalizedIn'[s]
  BY DEF MinimalReady
<1>0. BindingTypeOK
  BY DEF BindingInv
<1>1. CASE UNCHANGED <<go, finalizedAt, finalizedIn, sess>>
  BY <1>1 DEF MinimalReady
<1>2. ~Respawn
  BY RestingIsTyped DEF Respawn
<1>3. CASE ChildDies \/ UNCHANGED bindingVars
  BY <1>1, <1>3 DEF ChildDies, bindingVars, sdkVars, hostVars
<1>4. CASE Continue(s) \/ HostCalls(s) \/ ModelTurn(s)
  <2>1. CASE go'[s] = go[s] /\ UNCHANGED <<finalizedAt, finalizedIn, sess>>
    BY <2>1 DEF MinimalReady
  <2>2. CASE Compose(s) /\ go[s].repair = TRUE /\ go[s].recorded = go'[s].recorded
               /\ RepairInSession(s)
    <3>1. /\ go[s].pc = "compose"
          /\ UNCHANGED <<sess, created, finalizedAt, finalizedIn>>
      BY <2>2 DEF Compose, sdkVars, hostVars
    <3>2. \A t \in Sessions : t # s => go'[t] = go[t]
      BY <1>0, <1>4, OthersStay
    <3>3. \A t \in Sessions : ~Uncounted(t, s)
      BY <3>1, <3>2 DEF NotUnderPrompt, Uncounted
    <3>4. finalizedAt[s] >= created[s]
      <4>1. finalizedAt[s] > 0 /\ finalizedAt[s] \in Nat
        BY <1>0, <3>1, Numbers DEF BindingTypeOK
      <4> QED
        BY <2>2, <4>1 DEF RepairInSession
    <3>5. finalizedIn[s] \in {NoConversation, sess[s].conv}
      BY <3>1, <3>3, <3>4 DEF RepairInv, FinalizeHeld
    <3>6. finalizedIn[s] # NoConversation
      <4>1. go[s].recorded = FALSE
        BY <1>0, <3>1, Entries DEF RepairInv, ExecuteKnows, Goroutine
      <4> QED
        BY <2>2, <4>1 DEF RepairInv, ExecuteKnows
    <3> QED
      BY <3>1, <3>5, <3>6
  <2> QED
    BY <1>0, <1>4, <2>1, <2>2, OnlyComposed
<1>5. ASSUME NEW t \in Sessions, t # s, Continue(t) \/ HostCalls(t) \/ ModelTurn(t)
      PROVE  sess'[s].conv = finalizedIn'[s]
  <2>1. go'[s] = go[s] /\ finalizedAt'[s] = finalizedAt[s] /\ finalizedIn'[s] = finalizedIn[s]
    BY <1>0, <1>5, OthersStay, OthersFinalize
  <2>2. sess[s].conv = finalizedIn[s]
    BY <2>1 DEF MinimalReady
  <2>3. CASE ReopenSwaps(t) /\ go[t].target = s
    <3>1. /\ go[t].pc = "reopened" /\ go'[t].pc = "rebinding" /\ go'[t].target = s
          /\ go'[t].resumed = go[t].resumed /\ go[t].resumed \in BOOLEAN
          /\ sess'[s] = go[t].got
      BY <1>0, <2>3, Entries DEF ReopenSwaps, BindingTypeOK, Goroutine
    <3>2. go[t].resumed = TRUE
      BY <2>1, <3>1 DEF NotUnderPrompt, Uncounted
    <3> QED
      BY <2>1, <2>2, <2>3, <3>1, <3>2 DEF RepairInv, SavedWhileHeld
  <2> QED
    BY <1>0, <1>5, <2>1, <2>2, <2>3, OthersFinalize
<1> QED
  BY <1>2, <1>3, <1>4, <1>5 DEF BindingNext

(* A minimal repair of a finalize this process recorded reaches the        *)
(* conversation that holds it, unless a sweep of another goroutine puts    *)
(* the session on a fresh conversation between the decision for the        *)
(* minimal prompt (repairInSession) and the send: that race is the only    *)
(* way in which "a fresh conversation always means a full prompt" fails.   *)
THEOREM MinimalLandsUnlessOvertaken ==
    BindingSpec /\ []NotUnderPrompt => MinimalRepairLands
<1> DEFINE Lands == \A s \in Sessions :
                       /\ go[s].pc = "send" /\ go'[s].pc = "turn"
                       /\ go[s].prompt = "minimal" /\ finalizedAt[s] > 0
                       => sess[s].conv = finalizedIn[s]
<1>1. BindingInit => MinimalReady
  BY DEF BindingInit, Resting, MinimalReady
<1>2. MinimalReady => [Lands]_bindingVars
  BY DEF MinimalReady
<1>3. BindingInv /\ RepairInv /\ MinimalReady /\ NotUnderPrompt' /\ [BindingNext]_bindingVars
         => MinimalReady'
  BY MinimalNext
<1> QED
  BY <1>1, <1>2, <1>3, BindingInvariant, RepairInvariant, PTL DEF BindingSpec, MinimalRepairLands

(* With one session nobody else sweeps: its minimal repairs always land.   *)
THEOREM OnlySessionsRepairLands ==
    ASSUME \A s, t \in Sessions : s = t
    PROVE  BindingSpec => MinimalRepairLands
<1>1. NotUnderPrompt
  <2> SUFFICES ASSUME NEW s \in Sessions, NEW t \in Sessions, Uncounted(t, s)
               PROVE  ~(go[s].pc = "send" /\ go[s].prompt = "minimal")
    BY DEF NotUnderPrompt
  <2>1. s = t
    OBVIOUS
  <2> QED
    BY <2>1 DEF Uncounted
<1> QED
  BY <1>1, MinimalLandsUnlessOvertaken, PTL
=============================================================================
