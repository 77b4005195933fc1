------------------------ MODULE SessionBinding_proofs -----------------------
(* What holds of the bindings for any number of sessions, children of the  *)
(* CLI, conversations and retries, with or without several lifetimes.      *)
EXTENDS SessionBinding, TLAPS

(* What a goroutine may be in the middle of. *)
Opens == {"opening", "opened"}
Restores == {"restoring", "restored", "restoreBind"}
Reopens == {"reopening", "reopened", "rebinding"}
Quiet == {"idle", "compose", "send", "turn", "failed", "sweep"}

(* Who works on a session holds its reopenMu; an open is alone with it. *)
LocksHeld ==
    \A s \in Sessions :
        /\ go[s].pc \in Restores => reopenMu[s] = s
        /\ go[s].pc \in Reopens => go[s].target \in Sessions /\ reopenMu[go[s].target] = s
        /\ go[s].pc \in Opens => s \notin open /\ reopenMu[s] = Nobody

(* What a goroutine has written so far agrees with what it remembers. *)
LocalsAgree ==
    \A s \in Sessions :
        /\ go[s].pc = "opened" => persisted[s] = go[s].got.conv
        /\ go[s].pc = "restoreBind" => sess[s] = go[s].got
        /\ go[s].pc \in {"reopened", "rebinding"} => persisted[go[s].target] = go[s].got.conv
        /\ go[s].pc = "rebinding" => sess[go[s].target] = go[s].got

(* The id on disk is right but for the window in which one of the two is   *)
(* written already.                                                        *)
HalfSaved(s, x) ==
    \/ go[s].pc = "restoreBind" /\ x = s
    \/ go[s].pc \in {"reopened", "rebinding"} /\ x = go[s].target

SavedUnlessMoving ==
    \A x \in open : (\A s \in Sessions : ~HalfSaved(s, x)) => sess[x].conv = persisted[x]

(* Nothing is bound to a runtime later than it was read from the client.   *)
HalfBound(s, x) ==
    \/ go[s].pc = "restoreBind" /\ x = s
    \/ go[s].pc = "rebinding" /\ x = go[s].target

EpochsInOrder ==
    /\ \A x \in Sessions :
          /\ bound[x] <= client.epoch
          /\ (\A s \in Sessions : ~HalfBound(s, x)) => sess[x].runtime <= bound[x]
    /\ \A s \in Sessions :
          /\ go[s].pc \in Opens \cup Restores \cup Reopens => go[s].got.runtime <= client.epoch
          /\ go[s].pc \in {"reopening", "reopened"}
                => sess[go[s].target].runtime < go[s].got.runtime

(* Every conversation that is named was created. *)
ConversationsBorn ==
    \A s \in Sessions :
        /\ sess[s].conv <= born /\ persisted[s] <= born /\ checkpoint[s] <= born
        /\ go[s].got.conv <= born
        /\ created[s] <= born
        /\ go[s].pc = "opened" => born > 0
        /\ go[s].pc \in {"reopened", "rebinding"} /\ go[s].resumed = FALSE
              => created[go[s].target] < born

BindingInv ==
    /\ BindingTypeOK /\ LocksHeld /\ LocalsAgree /\ SavedUnlessMoving /\ EpochsInOrder
    /\ ConversationsBorn

-----------------------------------------------------------------------------

LEMMA RestingIsTyped == Resting \in Goroutine /\ Resting.pc = "idle" /\ Resting.got = NoSession
<1>1. NoSession \in SdkSession
  BY BindingAssumption DEF NoSession, SdkSession, Runtimes, NoConversation
<1>2. 0 \in 0..RetryMaxAttempts - 1
  BY BindingAssumption
<1>3. "idle" \in Locations /\ {} \in SUBSET Sessions
  BY DEF Locations
<1> QED
  BY <1>1, <1>2, <1>3 DEF Resting, Goroutine

LEMMA InitInv == BindingInit => BindingInv
<1> SUFFICES ASSUME BindingInit PROVE BindingInv
  OBVIOUS
<1>1. /\ client \in [epoch : Runtimes, up : BOOLEAN, alive : BOOLEAN]
      /\ client.epoch = 0
  BY BindingAssumption DEF BindingInit, NoClient, Runtimes
<1>2. NoSession \in SdkSession /\ NoSession.runtime = 0 /\ NoSession.conv = 0
  BY BindingAssumption DEF NoSession, SdkSession, Runtimes, NoConversation
<1>3. \A s \in Sessions : go[s] = Resting /\ sess[s] = NoSession
  BY DEF BindingInit
<1>4. BindingTypeOK
  <2>1. 0 \in Runtimes /\ 0 \in 0..MaxConversations
    BY BindingAssumption DEF Runtimes
  <2> QED
    BY <1>1, <1>2, <2>1, RestingIsTyped DEF BindingInit, BindingTypeOK, NoConversation
<1>5. LocksHeld /\ LocalsAgree /\ SavedUnlessMoving
  BY <1>3, RestingIsTyped
     DEF BindingInit, LocksHeld, LocalsAgree, SavedUnlessMoving, Restores, Reopens, Opens
<1>6. EpochsInOrder
  BY <1>1, <1>2, <1>3, RestingIsTyped
     DEF BindingInit, EpochsInOrder, HalfBound, Restores, Reopens, Opens
<1>7. ConversationsBorn
  <2>1. \A s \in Sessions : go[s].pc = "idle" /\ go[s].got.conv = 0 /\ sess[s].conv = 0
    BY <1>2, <1>3, RestingIsTyped
  <2>2. \A s \in Sessions : persisted[s] = 0 /\ checkpoint[s] = 0 /\ created[s] = 0
    BY DEF BindingInit, NoConversation
  <2>3. born = 0 /\ 0 <= born
    BY DEF BindingInit
  <2>4. \A s \in Sessions : /\ sess[s].conv <= born /\ persisted[s] <= born
                            /\ checkpoint[s] <= born /\ go[s].got.conv <= born
                            /\ created[s] <= born
    BY <2>1, <2>2, <2>3
  <2> QED
    BY <2>1, <2>4 DEF ConversationsBorn
<1> QED
  BY <1>4, <1>5, <1>6, <1>7 DEF BindingInv

(* The bounds, as the arithmetic of the proofs needs them. *)
LEMMA Numbers ==
    /\ \A n \in Runtimes : n \in Nat
    /\ \A n \in 0..MaxConversations : n \in Nat
    /\ \A d \in SdkSession : d.runtime \in Runtimes /\ d.conv \in 0..MaxConversations
BY BindingAssumption DEF Runtimes, SdkSession

LEMMA ClientMoves ==
    ASSUME BindingTypeOK, EnsureClient \/ StartClient \/ UNCHANGED client
    PROVE  /\ client' \in [epoch : Runtimes, up : BOOLEAN, alive : BOOLEAN]
           /\ client'.epoch >= client.epoch
<1>1. client.epoch \in Runtimes /\ client.epoch \in Nat
  BY Numbers DEF BindingTypeOK
<1>2. CASE StartClient
  <2>1. CASE client.epoch < MaxEpoch
             /\ client' = [epoch |-> client.epoch + 1, up |-> TRUE, alive |-> TRUE]
    <3>1. client.epoch + 1 \in Runtimes /\ client.epoch + 1 >= client.epoch
      BY <1>1, <2>1, BindingAssumption DEF Runtimes
    <3>2. client'.epoch = client.epoch + 1
      BY <2>1
    <3>3. client' \in [epoch : Runtimes, up : BOOLEAN, alive : BOOLEAN]
      BY <2>1, <3>1, Zenon
    <3> QED
      BY <3>1, <3>2, <3>3
  <2>2. CASE client' = [client EXCEPT !.up = FALSE, !.alive = FALSE]
    <3>1. client'.epoch = client.epoch
      BY <2>2 DEF BindingTypeOK
    <3>2. client' \in [epoch : Runtimes, up : BOOLEAN, alive : BOOLEAN]
      BY <2>2 DEF BindingTypeOK
    <3> QED
      BY <1>1, <3>1, <3>2
  <2> QED
    BY <1>2, <2>1, <2>2 DEF StartClient
<1>3. CASE UNCHANGED client
  BY <1>1, <1>3 DEF BindingTypeOK
<1> QED
  BY <1>2, <1>3 DEF EnsureClient

-----------------------------------------------------------------------------
(* The invariant is inductive. *)

(* A goroutine that holds nothing, before and after, disturbs nothing:     *)
(* composing, sending, the model's turn, a restart of the child.           *)
LEMMA QuietStep ==
    ASSUME BindingInv, NEW s \in Sessions,
           go' \in [Sessions -> Goroutine],
           \A t \in Sessions : t # s => go'[t] = go[t],
           go[s].pc \in Quiet \cup Opens, go'[s].pc \in Quiet,
           go'[s].got.conv <= born,
           client' \in [epoch : Runtimes, up : BOOLEAN, alive : BOOLEAN],
           client'.epoch >= client.epoch,
           finalizedAt' \in [Sessions -> 0..MaxConversations],
           finalizedIn' \in [Sessions -> 0..MaxConversations],
           UNCHANGED <<open, sess, bound, created, persisted, reopenMu, born, checkpoint>>
    PROVE  BindingInv'
<1> USE DEF BindingInv, Quiet, Opens, Restores, Reopens
<1>1. /\ client.epoch \in Nat /\ client'.epoch \in Nat
      /\ \A x \in Sessions : bound[x] \in Nat /\ sess[x].runtime \in Nat
      /\ \A x \in Sessions : go[x].got.runtime \in Nat
  BY Numbers DEF BindingTypeOK, Goroutine
<1>2. BindingTypeOK'
  BY DEF BindingTypeOK
<1>3. LocksHeld'
  BY DEF LocksHeld
<1>4. LocalsAgree'
  BY DEF LocalsAgree
<1>5. SavedUnlessMoving'
  BY DEF SavedUnlessMoving, HalfSaved
<1>6. EpochsInOrder'
  <2>1. \A t, x \in Sessions : HalfBound(t, x)' <=> HalfBound(t, x)
    BY DEF HalfBound
  <2>2. \A x \in Sessions : /\ bound'[x] <= client'.epoch
                            /\ (\A t \in Sessions : ~HalfBound(t, x)') => sess'[x].runtime <= bound'[x]
    BY <1>1, <2>1 DEF EpochsInOrder
  <2>3. \A t \in Sessions :
          /\ go'[t].pc \in Opens \cup Restores \cup Reopens => go'[t].got.runtime <= client'.epoch
          /\ go'[t].pc \in {"reopening", "reopened"}
                => sess'[go'[t].target].runtime < go'[t].got.runtime
    BY <1>1 DEF EpochsInOrder
  <2> QED
    BY <2>2, <2>3 DEF EpochsInOrder
<1>7. ConversationsBorn'
  BY DEF ConversationsBorn
<1> QED
  BY <1>2, <1>3, <1>4, <1>5, <1>6, <1>7

(* The entry of s is replaced by e, nobody else's. *)
LEMMA EntryMoves ==
    ASSUME go \in [Sessions -> Goroutine], NEW s \in Sessions, NEW e \in Goroutine,
           go' = [go EXCEPT ![s] = e]
    PROVE  /\ go' \in [Sessions -> Goroutine] /\ go'[s] = e
           /\ \A t \in Sessions : t # s => go'[t] = go[t]
OBVIOUS

LEMMA Entries ==
    ASSUME BindingTypeOK, NEW s \in Sessions
    PROVE  /\ go \in [Sessions -> Goroutine] /\ go[s] \in Goroutine
           /\ go[s].got \in SdkSession /\ go[s].target \in Sessions \cup {Nobody}
BY DEF BindingTypeOK, Goroutine

Prompts == {"full", "minimal", "corrective"}
Tries == 0..RetryMaxAttempts - 1

LEMMA TargetDone ==
    ASSUME BindingTypeOK, NEW s \in Sessions, NEW x \in Sessions
    PROVE  /\ AfterTarget(s, x) \in Goroutine
           /\ AfterTarget(s, x).pc \in {"compose", "sweep"}
           /\ AfterTarget(s, x).got.conv = 0
           /\ AfterTarget(s, x).repair = go[s].repair
           /\ AfterTarget(s, x).recorded = go[s].recorded
<1>1. NoSession \in SdkSession /\ NoSession.conv = 0
  BY BindingAssumption DEF NoSession, SdkSession, Runtimes, NoConversation
<1>2. (IF x = s THEN "compose" ELSE "sweep") \in Locations \cap {"compose", "sweep"}
  BY DEF Locations
<1>3. ASSUME NEW p \in Locations
      PROVE  LET e == [go[s] EXCEPT !.pc = p, !.todo = @ \ {x}, !.target = Nobody,
                                    !.got = NoSession, !.resumed = FALSE]
             IN  /\ e \in Goroutine /\ e.pc = p /\ e.got = NoSession
                 /\ e.repair = go[s].repair /\ e.recorded = go[s].recorded
  <2>1. go[s] \in Goroutine
    BY Entries
  <2> QED
    BY <1>1, <2>1 DEF Goroutine
<1>4. PICK p \in Locations \cap {"compose", "sweep"} :
            AfterTarget(s, x) = [go[s] EXCEPT !.pc = p, !.todo = @ \ {x}, !.target = Nobody,
                                              !.got = NoSession, !.resumed = FALSE]
  BY <1>2, Zenon DEF AfterTarget
<1> QED
  BY <1>1, <1>3, <1>4

LEMMA TurnInv ==
    ASSUME BindingInv, NEW s \in Sessions,
           Compose(s) \/ Execute(s) \/ ModelTurn(s) \/ SendSucceeds(s) \/ SendFails(s)
    PROVE  BindingInv'
<1>0. BindingTypeOK /\ go[s] \in Goroutine
  BY Entries DEF BindingInv
<1>1. /\ go[s].pc \in Quiet
      /\ UNCHANGED <<client, open, sess, bound, created, persisted, reopenMu, born, checkpoint>>
  BY DEF Compose, Execute, ModelTurn, Reprompt, Finalize, EndTurn, TurnStalls, SendSucceeds,
         SendFails, sdkVars, hostVars, Quiet
<1>2. /\ finalizedAt' \in [Sessions -> 0..MaxConversations]
      /\ finalizedIn' \in [Sessions -> 0..MaxConversations]
  <2>1. CASE Finalize(s)
    BY <2>1, Entries, Numbers DEF Finalize, BindingInv, BindingTypeOK
  <2>2. CASE UNCHANGED <<finalizedAt, finalizedIn>>
    BY <2>2 DEF BindingInv, BindingTypeOK
  <2> QED
    BY <2>1, <2>2
       DEF Compose, Execute, ModelTurn, Reprompt, EndTurn, TurnStalls, SendSucceeds, SendFails,
           hostVars
<1>3. /\ go' \in [Sessions -> Goroutine] /\ go'[s].pc \in Quiet
      /\ \A t \in Sessions : t # s => go'[t] = go[t]
      /\ go'[s].got \in {go[s].got, sess[s], NoSession}
  <2>1. CASE Compose(s)
    <3> DEFINE prompt == IF go[s].prompt = "corrective" THEN go[s].prompt
                         ELSE IF go[s].repair /\ RepairInSession(s) THEN "minimal" ELSE "full"
               e == [go[s] EXCEPT !.pc = "send", !.prompt = prompt]
    <3>1. go' = [go EXCEPT ![s] = e]
      BY <2>1, Entries DEF Compose, BindingInv
    <3>2. "send" \in Locations /\ prompt \in Prompts
      BY DEF Locations, Prompts
    <3> HIDE DEF prompt
    <3>3. e \in Goroutine /\ e.pc = "send" /\ e.got = go[s].got
      BY <1>0, <3>2 DEF Goroutine, Prompts
    <3> QED
      BY <1>0, <1>1, <3>1, <3>2, <3>3, EntryMoves DEF BindingTypeOK, Quiet
  <2>2. CASE Execute(s)
    <3> PICK repair \in BOOLEAN : go' = [go EXCEPT ![s].pc = "compose", ![s].repair = repair]
      BY <2>2 DEF Execute
    <3> DEFINE e == [go[s] EXCEPT !.pc = "compose", !.repair = repair]
    <3>1. go' = [go EXCEPT ![s] = e]
      BY Entries DEF BindingInv
    <3>2. "compose" \in Locations
      BY DEF Locations
    <3>3. e \in Goroutine /\ e.pc = "compose" /\ e.got = go[s].got
      BY <1>0, <3>2 DEF Goroutine
    <3> QED
      BY <1>0, <1>1, <3>1, <3>2, <3>3, EntryMoves DEF BindingTypeOK, Quiet
  <2>3. CASE Reprompt(s)
    <3> DEFINE e == [go[s] EXCEPT !.pc = "send", !.prompt = "corrective"]
    <3>1. go' = [go EXCEPT ![s] = e]
      BY <2>3, Entries DEF Reprompt, BindingInv
    <3>2. "send" \in Locations /\ "corrective" \in Prompts
      BY DEF Locations, Prompts
    <3>3. e \in Goroutine /\ e.pc = "send" /\ e.got = go[s].got
      BY <1>0, <3>2 DEF Goroutine, Prompts
    <3> QED
      BY <1>0, <1>1, <3>1, <3>2, <3>3, EntryMoves DEF BindingTypeOK, Quiet
  <2>4. CASE Finalize(s)
    <3> DEFINE e == [go[s] EXCEPT !.recorded = TRUE]
    <3>1. go' = [go EXCEPT ![s] = e]
      BY <2>4, Entries DEF Finalize, BindingInv
    <3>2. go[s].pc \in Quiet
      BY <1>1
    <3>3. e \in Goroutine /\ e.pc = go[s].pc /\ e.got = go[s].got
      BY <1>0, <3>2 DEF Goroutine
    <3> QED
      BY <1>0, <1>1, <3>1, <3>2, <3>3, EntryMoves DEF BindingTypeOK, Quiet
  <2>5. CASE EndTurn(s)
    BY <2>5, RestingIsTyped, Entries, EntryMoves DEF EndTurn, BindingInv, Quiet
  <2>6. CASE TurnStalls(s)
    <3> DEFINE e == [go[s] EXCEPT !.pc = "failed", !.force = TRUE, !.prompt = "full"]
    <3>1. go' = [go EXCEPT ![s] = e]
      BY <2>6, Entries DEF TurnStalls, BindingInv
    <3>2. "failed" \in Locations /\ "full" \in Prompts
      BY DEF Locations, Prompts
    <3>3. e \in Goroutine /\ e.pc = "failed" /\ e.got = go[s].got
      BY <1>0, <3>2 DEF Goroutine, Prompts
    <3> QED
      BY <1>0, <1>1, <3>1, <3>2, <3>3, EntryMoves DEF BindingTypeOK, Quiet
  <2>7. CASE SendSucceeds(s)
    <3> DEFINE e == [go[s] EXCEPT !.pc = "turn", !.got = sess[s], !.tries = 0]
    <3>1. go' = [go EXCEPT ![s] = e]
      BY <2>7, Entries DEF SendSucceeds, BindingInv
    <3>2. "turn" \in Locations /\ 0 \in Tries /\ sess[s] \in SdkSession
      BY BindingAssumption DEF Locations, Tries, BindingInv, BindingTypeOK
    <3>3. e \in Goroutine /\ e.pc = "turn" /\ e.got = sess[s]
      BY <1>0, <3>2 DEF Goroutine, Tries
    <3> QED
      BY <1>0, <1>1, <3>1, <3>2, <3>3, EntryMoves DEF BindingTypeOK, Quiet
  <2>8. CASE SendFails(s)
    <3>1. CASE go' = [go EXCEPT ![s] = Resting]
      BY <3>1, RestingIsTyped, Entries, EntryMoves DEF BindingInv, Quiet
    <3>2. ASSUME go[s].tries + 1 < RetryMaxAttempts, NEW stall \in BOOLEAN,
                 go' = [go EXCEPT ![s].pc = "failed", ![s].tries = @ + 1, ![s].force = stall]
          PROVE  /\ go' \in [Sessions -> Goroutine] /\ go'[s].pc \in Quiet
                 /\ \A t \in Sessions : t # s => go'[t] = go[t]
                 /\ go'[s].got \in {go[s].got, sess[s], NoSession}
      <4> DEFINE e == [go[s] EXCEPT !.pc = "failed", !.tries = @ + 1, !.force = stall]
      <4>1. go' = [go EXCEPT ![s] = e]
        BY <3>2, Entries DEF BindingInv
      <4>2. go[s].tries + 1 \in Tries /\ "failed" \in Locations
        BY <3>2, Entries, BindingAssumption DEF BindingInv, Goroutine, Tries, Locations
      <4>3. e \in Goroutine /\ e.pc = "failed" /\ e.got = go[s].got
        BY <1>0, <3>2, <4>2 DEF Goroutine, Tries
      <4> QED
        BY <1>0, <4>1, <4>3, EntryMoves DEF BindingTypeOK, Quiet
    <3> QED
      BY <2>8, <3>1, <3>2 DEF SendFails
  <2> QED
    BY <2>1, <2>2, <2>3, <2>4, <2>5, <2>6, <2>7, <2>8 DEF ModelTurn
<1>4. go'[s].got.conv <= born
  BY <1>3, Numbers DEF BindingInv, BindingTypeOK, ConversationsBorn, NoSession, NoConversation
<1> QED
  BY <1>1, <1>2, <1>3, <1>4, QuietStep, Numbers DEF BindingInv, BindingTypeOK

LEMMA RestartInv ==
    ASSUME BindingInv, NEW s \in Sessions, RestartClient(s)
    PROVE  BindingInv'
<1>0. BindingTypeOK /\ go[s] \in Goroutine
  BY Entries DEF BindingInv
<1>1. /\ go[s].pc \in Quiet
      /\ UNCHANGED <<open, sess, bound, created, finalizedAt, persisted, reopenMu, born,
                     finalizedIn, checkpoint>>
  BY DEF RestartClient, sdkVars, hostVars, Quiet
<1>2. /\ client' \in [epoch : Runtimes, up : BOOLEAN, alive : BOOLEAN]
      /\ client'.epoch >= client.epoch
  BY ClientMoves DEF RestartClient, BindingInv
<1>3. /\ go' \in [Sessions -> Goroutine] /\ go'[s].pc \in Quiet
      /\ \A t \in Sessions : t # s => go'[t] = go[t]
      /\ go'[s].got = go[s].got
  <2> DEFINE point == IF client'.up THEN "sweep" ELSE "compose"
             others == IF client'.up THEN open ELSE {}
             e == [go[s] EXCEPT !.pc = point, !.todo = others, !.force = FALSE]
  <2>1. go' = [go EXCEPT ![s] = e]
    BY Entries DEF RestartClient, BindingInv
  <2>2. point \in Locations /\ point \in Quiet /\ others \in SUBSET Sessions
    BY DEF BindingInv, BindingTypeOK, Locations, Quiet
  <2> HIDE DEF point, others
  <2>3. e \in Goroutine /\ e.pc = point /\ e.got = go[s].got
    BY <1>0, <2>2 DEF Goroutine
  <2> QED
    BY <1>0, <2>1, <2>2, <2>3, EntryMoves DEF BindingTypeOK
<1> QED
  BY <1>1, <1>2, <1>3, QuietStep DEF BindingInv, BindingTypeOK, ConversationsBorn

LEMMA ReopenSkipsInv ==
    ASSUME BindingInv, NEW s \in Sessions, NEW x \in Sessions, ReopenSkips(s, x)
    PROVE  BindingInv'
<1>1. /\ go[s].pc \in Quiet /\ go' = [go EXCEPT ![s] = AfterTarget(s, x)]
      /\ UNCHANGED <<client, open, sess, bound, created, finalizedAt, persisted, reopenMu, born,
                     finalizedIn, checkpoint>>
  BY DEF ReopenSkips, sdkVars, hostVars, Quiet
<1>2. /\ go' \in [Sessions -> Goroutine] /\ go'[s].pc \in Quiet
      /\ \A t \in Sessions : t # s => go'[t] = go[t]
      /\ go'[s].got.conv = 0
  BY <1>1, TargetDone, EntryMoves DEF BindingInv, BindingTypeOK, Quiet
<1> QED
  BY <1>1, <1>2, QuietStep, Numbers DEF BindingInv, BindingTypeOK

(* The numbers of a state. *)
LEMMA StateNumbers ==
    ASSUME BindingInv
    PROVE  /\ client.epoch \in Nat /\ born \in Nat
           /\ \A x \in Sessions :
                 /\ bound[x] \in Nat /\ created[x] \in Nat
                 /\ sess[x].runtime \in Nat /\ sess[x].conv \in Nat
                 /\ persisted[x] \in Nat /\ checkpoint[x] \in Nat
                 /\ go[x].got.runtime \in Nat /\ go[x].got.conv \in Nat
BY Numbers DEF BindingInv, BindingTypeOK, Goroutine

(* What a successful opening leaves behind. *)
OpenedSdk(x, runtime, got, resumed) ==
    /\ persisted' \in [Sessions -> 0..MaxConversations] /\ born' \in 0..MaxConversations
    /\ got.runtime = runtime
    /\ persisted'[x] = got.conv
    /\ \A y \in Sessions : y # x => persisted'[y] = persisted[y]
    /\ born' >= born /\ got.conv <= born' /\ born' > 0
    /\ resumed = FALSE => created[x] < born'

LEMMA OpenSdkMoves ==
    ASSUME BindingInv, NEW x \in Sessions, NEW runtime, NEW got \in SdkSession,
           NEW resumed \in BOOLEAN, OpenSdk(x, runtime, got, resumed)
    PROVE  OpenedSdk(x, runtime, got, resumed)
<1>1. /\ born \in Nat /\ persisted[x] \in Nat /\ created[x] \in Nat
      /\ born \in 0..MaxConversations /\ persisted \in [Sessions -> 0..MaxConversations]
      /\ persisted[x] <= born /\ created[x] <= born
  BY StateNumbers DEF BindingInv, BindingTypeOK, ConversationsBorn
<1>2. CASE /\ persisted[x] # NoConversation
           /\ got = [runtime |-> runtime, conv |-> persisted[x]] /\ resumed
           /\ UNCHANGED <<persisted, born>>
  BY <1>1, <1>2 DEF OpenedSdk, NoConversation
<1>3. CASE /\ born < MaxConversations
           /\ got = [runtime |-> runtime, conv |-> born + 1] /\ ~resumed
           /\ born' = born + 1
           /\ persisted' = [persisted EXCEPT ![x] = born + 1]
  <2>1. born + 1 \in 0..MaxConversations
    BY <1>1, <1>3, BindingAssumption
  <2> QED
    BY <1>1, <1>3, <2>1 DEF OpenedSdk
<1> QED
  BY <1>2, <1>3 DEF OpenSdk

(* OpenSession. *)

LEMMA OpenInv ==
    ASSUME BindingInv, NEW s \in Sessions, Open(s)
    PROVE  BindingInv'
<1> DEFINE point == IF client'.up THEN "opening" ELSE "idle"
           epoch == IF client'.up THEN client'.epoch ELSE 0
<1>0. BindingTypeOK /\ go[s] \in Goroutine
  BY Entries DEF BindingInv
<1>1. /\ go[s].pc = "idle" /\ s \notin open /\ reopenMu[s] = Nobody
      /\ UNCHANGED <<open, sess, bound, created, finalizedAt, persisted, reopenMu, born,
                     finalizedIn, checkpoint>>
  BY DEF Open, sdkVars, hostVars
<1>2. /\ client' \in [epoch : Runtimes, up : BOOLEAN, alive : BOOLEAN]
      /\ client'.epoch >= client.epoch /\ client'.epoch \in Nat
  BY <1>0, ClientMoves, Numbers DEF Open
<1>3. epoch \in Runtimes /\ epoch \in Nat /\ epoch <= client'.epoch
      /\ point \in Locations /\ point \in {"opening", "idle"}
  BY <1>2, BindingAssumption DEF Runtimes, Locations
<1>4. go' = [go EXCEPT ![s].pc = point, ![s].got.runtime = epoch]
  BY DEF Open
<1> HIDE DEF point, epoch
<1>5. /\ go' \in [Sessions -> Goroutine]
      /\ go'[s].pc = point /\ go'[s].got.runtime = epoch /\ go'[s].got.conv = go[s].got.conv
      /\ \A t \in Sessions : t # s => go'[t] = go[t]
  <2> DEFINE e == [go[s] EXCEPT !.pc = point, !.got = [@ EXCEPT !.runtime = epoch]]
  <2>1. [go[s].got EXCEPT !.runtime = epoch] \in SdkSession
    BY <1>0, <1>3, Entries DEF SdkSession
  <2>2. e \in Goroutine /\ e.pc = point /\ e.got = [go[s].got EXCEPT !.runtime = epoch]
    BY <1>0, <1>3, <2>1 DEF Goroutine
  <2>3. go' = [go EXCEPT ![s] = e]
    BY <1>0, <1>4 DEF BindingTypeOK
  <2>4. go[s].got \in SdkSession
    BY <1>0, Entries
  <2>5. e.got.runtime = epoch /\ e.got.conv = go[s].got.conv
    BY <2>2, <2>4 DEF SdkSession
  <2> QED
    BY <1>0, <2>2, <2>3, <2>5, EntryMoves DEF BindingTypeOK
<1> USE DEF BindingInv
<1>6. BindingTypeOK'
  BY <1>1, <1>2, <1>5 DEF BindingTypeOK
<1>7. LocksHeld'
  BY <1>1, <1>3, <1>5 DEF LocksHeld, Opens, Restores, Reopens
<1>8. LocalsAgree' /\ SavedUnlessMoving'
  BY <1>1, <1>3, <1>5 DEF LocalsAgree, SavedUnlessMoving, HalfSaved
<1>9. EpochsInOrder'
  <2>1. \A t, x \in Sessions : HalfBound(t, x)' <=> HalfBound(t, x)
    BY <1>1, <1>3, <1>5 DEF HalfBound
  <2>2. \A x \in Sessions : /\ bound'[x] <= client'.epoch
                            /\ (\A t \in Sessions : ~HalfBound(t, x)') => sess'[x].runtime <= bound'[x]
    BY <1>1, <1>2, <2>1, StateNumbers DEF EpochsInOrder
  <2>3. \A t \in Sessions :
          /\ go'[t].pc \in Opens \cup Restores \cup Reopens => go'[t].got.runtime <= client'.epoch
          /\ go'[t].pc \in {"reopening", "reopened"}
                => sess'[go'[t].target].runtime < go'[t].got.runtime
    BY <1>1, <1>2, <1>3, <1>5, StateNumbers DEF EpochsInOrder, Opens, Restores, Reopens
  <2> QED
    BY <2>2, <2>3 DEF EpochsInOrder
<1>10. ConversationsBorn'
  BY <1>1, <1>3, <1>5 DEF ConversationsBorn
<1> QED
  BY <1>6, <1>7, <1>8, <1>9, <1>10

LEMMA OpenCreatesInv ==
    ASSUME BindingInv, NEW s \in Sessions, OpenCreates(s)
    PROVE  BindingInv'
<1>0. BindingTypeOK /\ go[s] \in Goroutine
  BY Entries DEF BindingInv
<1>1. /\ go[s].pc = "opening"
      /\ UNCHANGED <<client, open, sess, bound, created, finalizedAt, reopenMu,
                     finalizedIn, checkpoint>>
  BY DEF OpenCreates, sdkVars, hostVars
<1>2. CASE go' = [go EXCEPT ![s] = Resting] /\ UNCHANGED <<persisted, born>>
  <2>1. /\ go' \in [Sessions -> Goroutine] /\ go'[s] = Resting
        /\ \A t \in Sessions : t # s => go'[t] = go[t]
    BY <1>0, <1>2, EntryMoves, RestingIsTyped DEF BindingTypeOK
  <2>2. go'[s].pc \in Quiet /\ go'[s].got.conv <= born
    BY <2>1, RestingIsTyped, StateNumbers DEF NoSession, NoConversation, Quiet
  <2>3. client.epoch \in Nat /\ client'.epoch >= client.epoch
    BY <1>1, StateNumbers
  <2> QED
    BY <1>0, <1>1, <1>2, <2>1, <2>2, <2>3, QuietStep DEF BindingTypeOK, Opens
<1>3. ASSUME NEW got \in SdkSession, NEW resumed \in BOOLEAN,
             OpenSdk(s, go[s].got.runtime, got, resumed),
             go' = [go EXCEPT ![s].pc = "opened", ![s].got = got]
      PROVE  BindingInv'
  <2> PICK runtime : runtime = go[s].got.runtime
    OBVIOUS
  <2>1. OpenSdk(s, runtime, got, resumed)
    BY <1>3 DEF OpenSdk, Alive
  <2>2. OpenedSdk(s, runtime, got, resumed)
    BY <2>1, OpenSdkMoves
  <2>3. born' \in Nat /\ born \in Nat /\ born <= born'
    BY <2>2, Numbers, StateNumbers DEF OpenedSdk
  <2>4. /\ go' \in [Sessions -> Goroutine]
        /\ go'[s].pc = "opened" /\ go'[s].got = got
        /\ \A t \in Sessions : t # s => go'[t] = go[t]
    <3> DEFINE e == [go[s] EXCEPT !.pc = "opened", !.got = got]
    <3>1. "opened" \in Locations
      BY DEF Locations
    <3>2. e \in Goroutine /\ e.pc = "opened" /\ e.got = got
      BY <1>0, <3>1 DEF Goroutine
    <3>3. go' = [go EXCEPT ![s] = e]
      BY <1>0, <1>3 DEF BindingTypeOK
    <3> QED
      BY <1>0, <3>2, <3>3, EntryMoves DEF BindingTypeOK
  <2>5. s \notin open /\ reopenMu[s] = Nobody
        /\ \A t \in Sessions : go[t].pc \in Reopens => go[t].target # s
    BY <1>1, NobodyAssumption DEF BindingInv, LocksHeld, Opens
  <2> USE DEF BindingInv
  <2>6. BindingTypeOK'
    BY <1>1, <2>2, <2>4 DEF OpenedSdk, BindingTypeOK
  <2>7. LocksHeld'
    BY <1>1, <2>4, <2>5 DEF LocksHeld, Opens, Restores, Reopens
  <2>8. LocalsAgree'
    BY <1>1, <2>2, <2>4, <2>5 DEF OpenedSdk, LocalsAgree, LocksHeld, Reopens
  <2>9. SavedUnlessMoving'
    BY <1>0, <1>1, <2>2, <2>4, <2>5 DEF OpenedSdk, SavedUnlessMoving, HalfSaved, BindingTypeOK
  <2>10. EpochsInOrder'
    BY <1>1, <2>2, <2>4 DEF OpenedSdk, EpochsInOrder, HalfBound, Opens, Restores, Reopens
  <2>11. ConversationsBorn'
    <3>1. \A t \in Sessions : /\ sess'[t].conv <= born' /\ persisted'[t] <= born'
                              /\ checkpoint'[t] <= born' /\ go'[t].got.conv <= born'
                              /\ created'[t] <= born'
      <4>1. \A t \in Sessions : /\ sess[t].conv <= born /\ persisted[t] <= born
                                /\ checkpoint[t] <= born /\ created[t] <= born
                                /\ go[t].got.conv <= born
        BY DEF ConversationsBorn
      <4>2. \A n \in Nat : n <= born => n <= born'
        BY <2>3
      <4>3. \A t \in Sessions : /\ sess[t].conv <= born' /\ persisted[t] <= born'
                                /\ checkpoint[t] <= born' /\ created[t] <= born'
                                /\ go[t].got.conv <= born'
        BY <4>1, <4>2, StateNumbers
      <4> QED
        BY <1>1, <2>2, <2>4, <4>3 DEF OpenedSdk
    <3>2. \A t \in Sessions :
             go'[t].pc \in {"reopened", "rebinding"} /\ go'[t].resumed = FALSE
                => created'[go'[t].target] < born'
      <4> SUFFICES ASSUME NEW t \in Sessions,
                          go[t].pc \in {"reopened", "rebinding"}, go[t].resumed = FALSE, t # s
                   PROVE  created[go[t].target] < born'
        BY <1>1, <2>4
      <4>1. created[go[t].target] < born /\ go[t].target \in Sessions
        BY DEF ConversationsBorn, LocksHeld, Reopens
      <4> QED
        BY <2>3, <4>1, StateNumbers
    <3> QED
      BY <2>2, <3>1, <3>2 DEF OpenedSdk, ConversationsBorn
  <2> QED
    BY <2>6, <2>7, <2>8, <2>9, <2>10, <2>11
<1> QED
  BY <1>2, <1>3 DEF OpenCreates

LEMMA OpenPublishesInv ==
    ASSUME BindingInv, NEW s \in Sessions, OpenPublishes(s)
    PROVE  BindingInv'
<1>0. BindingTypeOK /\ go[s] \in Goroutine /\ go[s].got \in SdkSession
  BY Entries DEF BindingInv
<1>1. /\ go[s].pc = "opened" /\ open' = open \cup {s}
      /\ go' = [go EXCEPT ![s] = Resting]
      /\ UNCHANGED <<client, persisted, reopenMu, born, finalizedIn, checkpoint>>
  BY DEF OpenPublishes, hostVars
<1>2. /\ go' \in [Sessions -> Goroutine] /\ go'[s] = Resting
      /\ \A t \in Sessions : t # s => go'[t] = go[t]
  BY <1>0, <1>1, EntryMoves, RestingIsTyped DEF BindingTypeOK
<1>3. go'[s].pc = "idle" /\ go'[s].got.conv = 0
  BY <1>2, RestingIsTyped DEF NoSession, NoConversation
<1>4. \A x \in Sessions :
         /\ sess'[x] = IF x = s THEN go[s].got ELSE sess[x]
         /\ bound'[x] = IF x = s THEN client.epoch ELSE bound[x]
         /\ created'[x] = IF x = s THEN 1 ELSE created[x]
  BY <1>0 DEF OpenPublishes, BindingTypeOK
<1>5. reopenMu[s] = Nobody /\ \A t \in Sessions : go[t].pc \in Reopens => go[t].target # s
  BY <1>1, NobodyAssumption DEF BindingInv, LocksHeld, Opens
<1>6. born > 0 /\ go[s].got.conv <= born /\ persisted[s] = go[s].got.conv
      /\ go[s].got.runtime <= client.epoch
  BY <1>1 DEF BindingInv, ConversationsBorn, LocalsAgree, EpochsInOrder, Opens
<1> USE DEF BindingInv
<1>7. BindingTypeOK'
  <2>1. 1 \in 0..MaxConversations /\ 0 \in 0..MaxConversations
    BY <1>0, <1>6, BindingAssumption DEF BindingTypeOK
  <2> QED
    BY <1>0, <1>1, <1>2, <2>1 DEF OpenPublishes, BindingTypeOK
<1>8. LocksHeld'
  BY <1>1, <1>2, <1>3 DEF LocksHeld, Opens, Restores, Reopens
<1>9. LocalsAgree'
  BY <1>1, <1>2, <1>3, <1>4, <1>5 DEF LocalsAgree, LocksHeld, Reopens
<1>10. SavedUnlessMoving'
  BY <1>0, <1>1, <1>2, <1>3, <1>4, <1>6 DEF SavedUnlessMoving, HalfSaved, BindingTypeOK
<1>11. EpochsInOrder'
  <2>1. \A t, x \in Sessions : HalfBound(t, x)' <=> HalfBound(t, x)
    BY <1>1, <1>2, <1>3 DEF HalfBound
  <2>2. \A x \in Sessions : /\ bound'[x] <= client'.epoch
                            /\ (\A t \in Sessions : ~HalfBound(t, x)') => sess'[x].runtime <= bound'[x]
    BY <1>1, <1>4, <1>6, <2>1, StateNumbers DEF EpochsInOrder
  <2>3. \A t \in Sessions :
          /\ go'[t].pc \in Opens \cup Restores \cup Reopens => go'[t].got.runtime <= client'.epoch
          /\ go'[t].pc \in {"reopening", "reopened"}
                => sess'[go'[t].target].runtime < go'[t].got.runtime
    BY <1>1, <1>2, <1>3, <1>4, <1>5 DEF EpochsInOrder, LocksHeld, Opens, Restores, Reopens
  <2> QED
    BY <2>2, <2>3 DEF EpochsInOrder
<1>12. ConversationsBorn'
  <2>1. \A t \in Sessions : /\ sess'[t].conv <= born' /\ persisted'[t] <= born'
                            /\ checkpoint'[t] <= born' /\ go'[t].got.conv <= born'
                            /\ created'[t] <= born'
    <3>1. \A t \in Sessions : /\ sess'[t].conv <= born /\ persisted[t] <= born
                              /\ checkpoint[t] <= born
      BY <1>4, <1>6 DEF ConversationsBorn
    <3>2. born \in Nat /\ 0 <= born /\ 1 <= born
      BY <1>6, StateNumbers
    <3>3. \A t \in Sessions : go'[t].got.conv <= born
      BY <1>2, <1>3, <3>2 DEF ConversationsBorn
    <3>4. \A t \in Sessions : created'[t] <= born
      BY <1>4, <3>2 DEF ConversationsBorn
    <3> QED
      BY <1>1, <3>1, <3>3, <3>4
  <2>2. \A t \in Sessions :
           /\ go'[t].pc = "opened" => born' > 0
           /\ go'[t].pc \in {"reopened", "rebinding"} /\ go'[t].resumed = FALSE
                => created'[go'[t].target] < born'
    BY <1>1, <1>2, <1>3, <1>4, <1>5 DEF ConversationsBorn, LocksHeld, Reopens
  <2> QED
    BY <2>1, <2>2 DEF ConversationsBorn
<1> QED
  BY <1>7, <1>8, <1>9, <1>10, <1>11, <1>12

(* CloseSession, Snapshot and Restore. *)

LEMMA CloseInv ==
    ASSUME BindingInv, NEW s \in Sessions, Close(s)
    PROVE  BindingInv'
<1>1. /\ open' = open \ {s}
      /\ UNCHANGED <<client, sess, bound, created, finalizedAt, persisted, reopenMu, go, born,
                     finalizedIn, checkpoint>>
  BY DEF Close, sdkVars, hostVars
<1> USE <1>1 DEF BindingInv
<1>2. BindingTypeOK' /\ LocksHeld' /\ LocalsAgree'
  BY DEF BindingTypeOK, LocksHeld, LocalsAgree
<1>3. SavedUnlessMoving'
  BY DEF SavedUnlessMoving, HalfSaved
<1>4. EpochsInOrder' /\ ConversationsBorn'
  BY DEF EpochsInOrder, HalfBound, ConversationsBorn
<1> QED
  BY <1>2, <1>3, <1>4

LEMMA SnapshotInv ==
    ASSUME BindingInv, NEW s \in Sessions, Snapshot(s)
    PROVE  BindingInv'
<1>1. /\ \A x \in Sessions : checkpoint'[x] \in {checkpoint[x], sess[x].conv}
      /\ checkpoint' \in [Sessions -> 0..MaxConversations]
      /\ UNCHANGED <<client, open, sess, bound, created, finalizedAt, persisted, reopenMu, go,
                     born, finalizedIn>>
  BY Numbers DEF Snapshot, sdkVars, BindingInv, BindingTypeOK
<1> USE <1>1 DEF BindingInv
<1>2. BindingTypeOK' /\ LocksHeld' /\ LocalsAgree'
  BY DEF BindingTypeOK, LocksHeld, LocalsAgree
<1>3. SavedUnlessMoving'
  BY DEF SavedUnlessMoving, HalfSaved
<1>4. EpochsInOrder'
  BY DEF EpochsInOrder, HalfBound
<1>5. ConversationsBorn'
  BY DEF ConversationsBorn
<1> QED
  BY <1>2, <1>3, <1>4, <1>5

LEMMA RestoreInPlaceInv ==
    ASSUME BindingInv, NEW s \in Sessions, RestoreInPlace(s)
    PROVE  BindingInv'
<1>0. BindingTypeOK
  BY DEF BindingInv
<1>1. /\ go[s].pc = "idle" /\ reopenMu[s] = Nobody /\ sess[s].conv = checkpoint[s]
      /\ UNCHANGED <<client, open, sess, bound, created, finalizedAt, reopenMu, go, born,
                     checkpoint>>
  BY DEF RestoreInPlace, sdkVars
<1>2. /\ persisted' \in [Sessions -> 0..MaxConversations]
      /\ \A x \in Sessions : persisted'[x] = IF x = s THEN checkpoint[s] ELSE persisted[x]
  BY <1>0 DEF RestoreInPlace, BindingTypeOK
<1>3. finalizedIn' \in [Sessions -> 0..MaxConversations]
  BY <1>0, BindingAssumption DEF RestoreInPlace, Forget, BindingTypeOK, NoConversation
<1>4. \A t \in Sessions : go[t].pc \in Reopens => go[t].target # s
  BY <1>1, NobodyAssumption DEF BindingInv, LocksHeld
<1> USE DEF BindingInv
<1>5. BindingTypeOK' /\ LocksHeld'
  BY <1>1, <1>2, <1>3 DEF BindingTypeOK, LocksHeld
<1>6. LocalsAgree'
  BY <1>1, <1>2, <1>4 DEF LocalsAgree, LocksHeld, Reopens
<1>7. SavedUnlessMoving'
  BY <1>0, <1>1, <1>2 DEF SavedUnlessMoving, HalfSaved, BindingTypeOK
<1>8. EpochsInOrder'
  BY <1>1 DEF EpochsInOrder, HalfBound
<1>9. ConversationsBorn'
  BY <1>1, <1>2 DEF ConversationsBorn
<1> QED
  BY <1>5, <1>6, <1>7, <1>8, <1>9

LEMMA RestoreInv ==
    ASSUME BindingInv, NEW s \in Sessions, Restore(s)
    PROVE  BindingInv'
<1>0. BindingTypeOK /\ go[s] \in Goroutine
  BY Entries DEF BindingInv
<1>1. /\ go[s].pc = "idle" /\ s \in open /\ reopenMu[s] = Nobody
      /\ UNCHANGED <<open, sess, bound, created, finalizedAt, persisted, born, finalizedIn,
                     checkpoint>>
  BY DEF Restore, sdkVars, hostVars
<1>2. /\ client' \in [epoch : Runtimes, up : BOOLEAN, alive : BOOLEAN]
      /\ client'.epoch >= client.epoch /\ client'.epoch \in Nat /\ client'.epoch \in Runtimes
  BY <1>0, ClientMoves, Numbers DEF Restore
<1>3. CASE UNCHANGED <<reopenMu, go>>
  <2>1. go[s].got.conv <= born
    BY DEF BindingInv, ConversationsBorn
  <2> QED
    BY <1>0, <1>1, <1>2, <1>3, <2>1, QuietStep DEF BindingTypeOK, Quiet
<1>4. CASE /\ reopenMu' = [reopenMu EXCEPT ![s] = s]
           /\ go' = [go EXCEPT ![s].pc = "restoring",
                               ![s].got = [runtime |-> client'.epoch, conv |-> checkpoint[s]]]
  <2> DEFINE got == [runtime |-> client'.epoch, conv |-> checkpoint[s]]
  <2>1. got \in SdkSession /\ got.runtime = client'.epoch /\ got.conv = checkpoint[s]
    BY <1>0, <1>2 DEF SdkSession, BindingTypeOK
  <2>2. /\ go' \in [Sessions -> Goroutine]
        /\ go'[s].pc = "restoring" /\ go'[s].got = got
        /\ \A t \in Sessions : t # s => go'[t] = go[t]
    <3> HIDE DEF got
    <3> DEFINE e == [go[s] EXCEPT !.pc = "restoring", !.got = got]
    <3>1. "restoring" \in Locations
      BY DEF Locations
    <3>2. e \in Goroutine /\ e.pc = "restoring" /\ e.got = got
      BY <1>0, <2>1, <3>1 DEF Goroutine
    <3>3. go' = [go EXCEPT ![s] = e]
      BY <1>0, <1>4 DEF BindingTypeOK, got
    <3> QED
      BY <1>0, <3>2, <3>3, EntryMoves DEF BindingTypeOK
  <2> HIDE DEF got
  <2>3. /\ reopenMu' \in [Sessions -> Sessions \cup {Nobody}]
        /\ \A x \in Sessions : reopenMu'[x] = IF x = s THEN s ELSE reopenMu[x]
    BY <1>0, <1>4 DEF BindingTypeOK
  <2>4. \A t \in Sessions : go[t].pc \in Reopens => go[t].target # s
    BY <1>1, NobodyAssumption DEF BindingInv, LocksHeld
  <2>5. /\ client.epoch \in Nat
        /\ \A x \in Sessions : bound[x] \in Nat /\ go[x].got.runtime \in Nat
    BY StateNumbers
  <2> USE DEF BindingInv
  <2>6. BindingTypeOK'
    BY <1>1, <1>2, <2>2, <2>3 DEF BindingTypeOK
  <2>7. LocksHeld'
    BY <1>1, <2>2, <2>3, <2>4 DEF LocksHeld, Opens, Restores, Reopens
  <2>8. LocalsAgree' /\ SavedUnlessMoving'
    BY <1>1, <2>2 DEF LocalsAgree, SavedUnlessMoving, HalfSaved
  <2>9. EpochsInOrder'
    <3>1. \A t, x \in Sessions : HalfBound(t, x)' <=> HalfBound(t, x)
      BY <1>1, <2>2 DEF HalfBound
    <3>2. \A x \in Sessions :
             /\ bound'[x] <= client'.epoch
             /\ (\A t \in Sessions : ~HalfBound(t, x)') => sess'[x].runtime <= bound'[x]
      BY <1>1, <1>2, <2>5, <3>1 DEF EpochsInOrder
    <3>3. \A t \in Sessions :
            /\ go'[t].pc \in Opens \cup Restores \cup Reopens => go'[t].got.runtime <= client'.epoch
            /\ go'[t].pc \in {"reopening", "reopened"}
                  => sess'[go'[t].target].runtime < go'[t].got.runtime
      BY <1>1, <1>2, <2>1, <2>2, <2>5 DEF EpochsInOrder, Opens, Restores, Reopens
    <3> QED
      BY <3>2, <3>3 DEF EpochsInOrder
  <2>10. ConversationsBorn'
    BY <1>1, <2>1, <2>2 DEF ConversationsBorn
  <2> QED
    BY <2>6, <2>7, <2>8, <2>9, <2>10
<1> QED
  BY <1>3, <1>4 DEF Restore

(* Only the point of a goroutine changes. *)
LEMMA PointMoves ==
    ASSUME BindingTypeOK, NEW s \in Sessions, NEW p \in Locations,
           go' = [go EXCEPT ![s].pc = p]
    PROVE  /\ go' \in [Sessions -> Goroutine] /\ go'[s].pc = p
           /\ go'[s].got = go[s].got /\ go'[s].target = go[s].target
           /\ go'[s].resumed = go[s].resumed
           /\ \A t \in Sessions : t # s => go'[t] = go[t]
<1> DEFINE e == [go[s] EXCEPT !.pc = p]
<1>1. go[s] \in Goroutine /\ go \in [Sessions -> Goroutine]
  BY Entries
<1>2. /\ e \in Goroutine /\ e.pc = p /\ e.got = go[s].got
      /\ e.target = go[s].target /\ e.resumed = go[s].resumed
  BY <1>1 DEF Goroutine
<1>3. go' = [go EXCEPT ![s] = e]
  BY <1>1
<1> QED
  BY <1>1, <1>2, <1>3, EntryMoves

LEMMA RestoreResumesInv ==
    ASSUME BindingInv, NEW s \in Sessions, RestoreResumes(s)
    PROVE  BindingInv'
<1>0. BindingTypeOK /\ client.epoch \in Nat /\ born \in Nat
  BY StateNumbers DEF BindingInv
<1>1. /\ go[s].pc = "restoring"
      /\ UNCHANGED <<client, open, sess, bound, created, finalizedAt, persisted, born,
                     finalizedIn, checkpoint>>
  BY DEF RestoreResumes, sdkVars, hostVars
<1>2. reopenMu[s] = s /\ \A t \in Sessions : t # s /\ go[t].pc \in Reopens => go[t].target # s
  BY <1>1 DEF BindingInv, LocksHeld, Restores
<1>3. /\ go' \in [Sessions -> Goroutine] /\ go'[s].pc \in {"restored", "idle"}
      /\ go'[s].got \in {go[s].got, NoSession}
      /\ \A t \in Sessions : t # s => go'[t] = go[t]
  <2>1. CASE go' = [go EXCEPT ![s].pc = "restored"]
    <3>1. "restored" \in Locations
      BY DEF Locations
    <3> QED
      BY <1>0, <2>1, <3>1, PointMoves
  <2>2. CASE go' = [go EXCEPT ![s] = Resting]
    BY <1>0, <2>2, EntryMoves, RestingIsTyped DEF BindingTypeOK
  <2> QED
    BY <2>1, <2>2 DEF RestoreResumes
<1>4. /\ reopenMu' \in [Sessions -> Sessions \cup {Nobody}]
      /\ \A x \in Sessions : x # s => reopenMu'[x] = reopenMu[x]
      /\ go'[s].pc = "restored" => reopenMu'[s] = s
  <2>1. CASE go' = [go EXCEPT ![s].pc = "restored"] /\ UNCHANGED reopenMu
    BY <1>0, <1>2, <2>1 DEF BindingTypeOK
  <2>2. CASE go' = [go EXCEPT ![s] = Resting] /\ reopenMu' = [reopenMu EXCEPT ![s] = Nobody]
    BY <1>0, <2>2, EntryMoves, RestingIsTyped DEF BindingTypeOK
  <2> QED
    BY <2>1, <2>2 DEF RestoreResumes
<1>5. go'[s].got.conv <= born
  BY <1>0, <1>3 DEF BindingInv, ConversationsBorn, NoSession, NoConversation
<1>6. go'[s].pc \in Restores => go'[s].got.runtime <= client.epoch
  <2>1. NoSession.runtime = 0 /\ 0 <= client.epoch
    BY <1>0 DEF NoSession
  <2> QED
    BY <1>1, <1>3, <2>1 DEF BindingInv, EpochsInOrder, Restores
<1> USE DEF BindingInv
<1>7. BindingTypeOK'
  BY <1>1, <1>3, <1>4 DEF BindingTypeOK
<1>8. LocksHeld'
  <2>1. ASSUME NEW t \in Sessions, t # s
        PROVE  /\ go'[t].pc \in Restores => reopenMu'[t] = t
               /\ go'[t].pc \in Reopens => go'[t].target \in Sessions /\ reopenMu'[go'[t].target] = t
               /\ go'[t].pc \in Opens => t \notin open' /\ reopenMu'[t] = Nobody
    BY <1>1, <1>2, <1>3, <1>4, <2>1 DEF LocksHeld
  <2> QED
    BY <1>3, <1>4, <2>1 DEF LocksHeld, Opens, Restores, Reopens
<1>9. LocalsAgree' /\ SavedUnlessMoving'
  BY <1>1, <1>3 DEF LocalsAgree, SavedUnlessMoving, HalfSaved
<1>10. EpochsInOrder'
  BY <1>1, <1>3, <1>6 DEF EpochsInOrder, HalfBound, Opens, Restores, Reopens
<1>11. ConversationsBorn'
  BY <1>1, <1>3, <1>5 DEF ConversationsBorn
<1> QED
  BY <1>7, <1>8, <1>9, <1>10, <1>11

LEMMA RestoreSwapsInv ==
    ASSUME BindingInv, NEW s \in Sessions, RestoreSwaps(s)
    PROVE  BindingInv'
<1>0. BindingTypeOK /\ go[s].got \in SdkSession
  BY Entries DEF BindingInv
<1>1. /\ go[s].pc = "restored" /\ go' = [go EXCEPT ![s].pc = "restoreBind"]
      /\ UNCHANGED <<client, open, bound, created, finalizedAt, persisted, reopenMu, born,
                     finalizedIn, checkpoint>>
  BY DEF RestoreSwaps, hostVars
<1>2. /\ go' \in [Sessions -> Goroutine]
      /\ go'[s].pc = "restoreBind" /\ go'[s].got = go[s].got
      /\ \A t \in Sessions : t # s => go'[t] = go[t]
  <2>1. "restoreBind" \in Locations
    BY DEF Locations
  <2> QED
    BY <1>0, <1>1, <2>1, PointMoves
<1>3. /\ sess' \in [Sessions -> SdkSession]
      /\ \A x \in Sessions : sess'[x] = IF x = s THEN go[s].got ELSE sess[x]
  BY <1>0 DEF RestoreSwaps, BindingTypeOK
<1>4. /\ \A t \in Sessions : go[t].pc \in Reopens => go[t].target # s
      /\ \A t \in Sessions : go[t].pc \in Reopens => go[t].target \in Sessions
  BY <1>1 DEF BindingInv, LocksHeld, Restores, Reopens
<1> USE DEF BindingInv
<1>5. BindingTypeOK' /\ LocksHeld'
  BY <1>1, <1>2, <1>3 DEF BindingTypeOK, LocksHeld, Opens, Restores, Reopens
<1>6. LocalsAgree'
  BY <1>1, <1>2, <1>3, <1>4 DEF LocalsAgree, Reopens
<1>7. SavedUnlessMoving'
  BY <1>0, <1>1, <1>2, <1>3 DEF SavedUnlessMoving, HalfSaved, BindingTypeOK
<1>8. EpochsInOrder'
  BY <1>1, <1>2, <1>3, <1>4 DEF EpochsInOrder, HalfBound, Opens, Restores, Reopens
<1>9. ConversationsBorn'
  BY <1>1, <1>2, <1>3 DEF ConversationsBorn
<1> QED
  BY <1>5, <1>6, <1>7, <1>8, <1>9

LEMMA RestoreBindsInv ==
    ASSUME BindingInv, NEW s \in Sessions, RestoreBinds(s)
    PROVE  BindingInv'
<1>0. /\ BindingTypeOK /\ go[s].got \in SdkSession /\ client.epoch \in Runtimes
      /\ client.epoch \in Nat /\ go[s].got.conv \in 0..MaxConversations
  BY Entries, Numbers DEF BindingInv, BindingTypeOK
<1>1. /\ go[s].pc = "restoreBind" /\ go' = [go EXCEPT ![s] = Resting]
      /\ UNCHANGED <<client, open, sess, created, finalizedAt, born, checkpoint>>
  BY DEF RestoreBinds
<1>2. /\ go' \in [Sessions -> Goroutine] /\ go'[s] = Resting
      /\ \A t \in Sessions : t # s => go'[t] = go[t]
  BY <1>0, <1>1, EntryMoves, RestingIsTyped DEF BindingTypeOK
<1>3. go'[s].pc = "idle" /\ go'[s].got.conv = 0
  BY <1>2, RestingIsTyped DEF NoSession, NoConversation
<1>4. /\ bound' \in [Sessions -> Runtimes]
      /\ persisted' \in [Sessions -> 0..MaxConversations]
      /\ reopenMu' \in [Sessions -> Sessions \cup {Nobody}]
      /\ finalizedIn' \in [Sessions -> 0..MaxConversations]
      /\ \A x \in Sessions :
            /\ bound'[x] = IF x = s THEN client.epoch ELSE bound[x]
            /\ persisted'[x] = IF x = s THEN go[s].got.conv ELSE persisted[x]
            /\ reopenMu'[x] = IF x = s THEN Nobody ELSE reopenMu[x]
  BY <1>0, BindingAssumption DEF RestoreBinds, Forget, BindingTypeOK, NoConversation
<1>5. /\ sess[s] = go[s].got /\ go[s].got.conv <= born /\ go[s].got.runtime <= client.epoch
      /\ born \in Nat /\ 0 <= born
  <2>1. born \in Nat
    BY StateNumbers
  <2> QED
    BY <1>1, <2>1 DEF BindingInv, LocalsAgree, ConversationsBorn, EpochsInOrder, Restores
<1>6. \A t \in Sessions : go[t].pc \in Reopens => go[t].target \in Sessions /\ go[t].target # s
  BY <1>1 DEF BindingInv, LocksHeld, Restores, Reopens
<1> USE DEF BindingInv
<1>7. BindingTypeOK'
  BY <1>1, <1>2, <1>4 DEF BindingTypeOK
<1>8. LocksHeld'
  BY <1>1, <1>2, <1>3, <1>4, <1>6 DEF LocksHeld, Opens, Restores, Reopens
<1>9. LocalsAgree'
  BY <1>1, <1>2, <1>3, <1>4, <1>6 DEF LocalsAgree, Reopens
<1>10. SavedUnlessMoving'
  BY <1>0, <1>1, <1>2, <1>3, <1>4, <1>5 DEF SavedUnlessMoving, HalfSaved, BindingTypeOK
<1>11. EpochsInOrder'
  BY <1>0, <1>1, <1>2, <1>3, <1>4, <1>5
     DEF EpochsInOrder, HalfBound, Opens, Restores, Reopens
<1>12. ConversationsBorn'
  BY <1>1, <1>2, <1>3, <1>4, <1>5 DEF ConversationsBorn
<1> QED
  BY <1>7, <1>8, <1>9, <1>10, <1>11, <1>12

(* The sweep of a recovery. *)

LEMMA ReopenLocksInv ==
    ASSUME BindingInv, NEW s \in Sessions, NEW x \in Sessions, ReopenLocks(s, x)
    PROVE  BindingInv'
<1>0. /\ BindingTypeOK /\ go[s] \in Goroutine /\ client.epoch \in Runtimes
      /\ client.epoch \in Nat /\ born \in Nat /\ bound[x] \in Nat /\ sess[x].runtime \in Nat
  BY Entries, StateNumbers DEF BindingInv, BindingTypeOK
<1>1. /\ go[s].pc = "sweep" /\ reopenMu[x] = Nobody /\ x \in open /\ bound[x] # client.epoch
      /\ UNCHANGED <<client, open, sess, bound, created, finalizedAt, persisted, born,
                     finalizedIn, checkpoint>>
  BY DEF ReopenLocks, Superseded, sdkVars, hostVars
<1> DEFINE got == [runtime |-> client.epoch, conv |-> NoConversation]
<1>2. got \in SdkSession /\ got.runtime = client.epoch /\ got.conv = 0
  BY <1>0, BindingAssumption DEF SdkSession, NoConversation
<1>3. go' = [go EXCEPT ![s].pc = "reopening", ![s].target = x, ![s].got = got]
  BY DEF ReopenLocks
<1> HIDE DEF got
<1>4. /\ go' \in [Sessions -> Goroutine]
      /\ go'[s].pc = "reopening" /\ go'[s].target = x /\ go'[s].got = got
      /\ \A t \in Sessions : t # s => go'[t] = go[t]
  <2> DEFINE e == [go[s] EXCEPT !.pc = "reopening", !.target = x, !.got = got]
  <2>1. "reopening" \in Locations
    BY DEF Locations
  <2>2. e \in Goroutine /\ e.pc = "reopening" /\ e.target = x /\ e.got = got
    BY <1>0, <1>2, <2>1 DEF Goroutine
  <2>3. go' = [go EXCEPT ![s] = e]
    BY <1>0, <1>3 DEF BindingTypeOK
  <2> QED
    BY <1>0, <2>2, <2>3, EntryMoves DEF BindingTypeOK
<1>5. /\ reopenMu' \in [Sessions -> Sessions \cup {Nobody}]
      /\ \A y \in Sessions : reopenMu'[y] = IF y = x THEN s ELSE reopenMu[y]
  BY <1>0 DEF ReopenLocks, BindingTypeOK
<1>6. \A t \in Sessions : ~HalfBound(t, x)
  BY <1>1, NobodyAssumption DEF BindingInv, LocksHeld, HalfBound, Restores, Reopens
<1>7. sess[x].runtime < client.epoch
  BY <1>0, <1>1, <1>6 DEF BindingInv, EpochsInOrder
<1>8. \A t \in Sessions : /\ go[t].pc \in Reopens => go[t].target # x
                          /\ go[t].pc \in Restores => t # x
  BY <1>1, NobodyAssumption DEF BindingInv, LocksHeld
<1> USE DEF BindingInv
<1>9. BindingTypeOK'
  BY <1>1, <1>4, <1>5 DEF BindingTypeOK
<1>10. LocksHeld'
  <2>1. ASSUME NEW t \in Sessions, t # s
        PROVE  /\ go'[t].pc \in Restores => reopenMu'[t] = t
               /\ go'[t].pc \in Reopens => go'[t].target \in Sessions /\ reopenMu'[go'[t].target] = t
               /\ go'[t].pc \in Opens => t \notin open' /\ reopenMu'[t] = Nobody
    <3>1. go'[t] = go[t]
      BY <1>4, <2>1
    <3>2. go[t].pc \in Restores => t # x /\ reopenMu[t] = t
      BY <1>8 DEF LocksHeld
    <3>3. go[t].pc \in Reopens => /\ go[t].target \in Sessions /\ go[t].target # x
                                  /\ reopenMu[go[t].target] = t
      BY <1>8 DEF LocksHeld
    <3>4. go[t].pc \in Opens => t # x /\ t \notin open /\ reopenMu[t] = Nobody
      BY <1>1 DEF LocksHeld
    <3> QED
      BY <1>1, <1>5, <3>1, <3>2, <3>3, <3>4
  <2> QED
    BY <1>4, <1>5, <2>1 DEF LocksHeld, Opens, Restores, Reopens
<1>11. LocalsAgree' /\ SavedUnlessMoving'
  BY <1>1, <1>4 DEF LocalsAgree, SavedUnlessMoving, HalfSaved
<1>12. EpochsInOrder'
  BY <1>0, <1>1, <1>2, <1>4, <1>7 DEF EpochsInOrder, HalfBound, Opens, Restores, Reopens
<1>13. ConversationsBorn'
  BY <1>0, <1>1, <1>2, <1>4 DEF ConversationsBorn
<1> QED
  BY <1>9, <1>10, <1>11, <1>12, <1>13

LEMMA ReopenOpensInv ==
    ASSUME BindingInv, NEW s \in Sessions, ReopenOpens(s)
    PROVE  BindingInv'
<1>0. BindingTypeOK /\ go[s] \in Goroutine /\ born \in Nat
  BY Entries, StateNumbers DEF BindingInv
<1>1. /\ go[s].pc = "reopening"
      /\ UNCHANGED <<client, open, sess, bound, created, finalizedAt, finalizedIn, checkpoint>>
  BY DEF ReopenOpens, sdkVars, hostVars
<1> PICK x \in Sessions : x = go[s].target
  BY <1>1 DEF BindingInv, LocksHeld, Reopens
<1>2. /\ reopenMu[x] = s
      /\ \A t \in Sessions : t # s => /\ go[t].pc \in Reopens => go[t].target # x
                                      /\ go[t].pc \in Restores => t # x
      /\ \A t \in Sessions : go[t].pc \in Opens => t # x
  BY <1>1, NobodyAssumption DEF BindingInv, LocksHeld, Reopens
<1>3. CASE /\ go' = [go EXCEPT ![s] = AfterTarget(s, x)]
           /\ reopenMu' = [reopenMu EXCEPT ![x] = Nobody]
           /\ UNCHANGED <<persisted, born>>
  <2>1. /\ go' \in [Sessions -> Goroutine] /\ go'[s].pc \in {"compose", "sweep"}
        /\ go'[s].got.conv = 0
        /\ \A t \in Sessions : t # s => go'[t] = go[t]
    BY <1>0, <1>3, TargetDone, EntryMoves DEF BindingTypeOK
  <2>2. /\ reopenMu' \in [Sessions -> Sessions \cup {Nobody}]
        /\ \A y \in Sessions : reopenMu'[y] = IF y = x THEN Nobody ELSE reopenMu[y]
    BY <1>0, <1>3 DEF BindingTypeOK
  <2> USE DEF BindingInv
  <2>3. BindingTypeOK'
    BY <1>1, <1>3, <2>1, <2>2 DEF BindingTypeOK
  <2>4. LocksHeld'
    BY <1>1, <1>2, <2>1, <2>2 DEF LocksHeld, Opens, Restores, Reopens
  <2>5. LocalsAgree' /\ SavedUnlessMoving'
    BY <1>1, <1>3, <2>1 DEF LocalsAgree, SavedUnlessMoving, HalfSaved
  <2>6. EpochsInOrder'
    BY <1>1, <2>1 DEF EpochsInOrder, HalfBound, Opens, Restores, Reopens
  <2>7. ConversationsBorn'
    BY <1>0, <1>1, <1>3, <2>1 DEF ConversationsBorn
  <2> QED
    BY <2>3, <2>4, <2>5, <2>6, <2>7
<1>4. ASSUME NEW got \in SdkSession, NEW resumed \in BOOLEAN,
             OpenSdk(go[s].target, go[s].got.runtime, got, resumed),
             go' = [go EXCEPT ![s].pc = "reopened", ![s].got = got, ![s].resumed = resumed],
             UNCHANGED reopenMu
      PROVE  BindingInv'
  <2> PICK runtime : runtime = go[s].got.runtime
    OBVIOUS
  <2>1. OpenSdk(x, runtime, got, resumed)
    BY <1>4 DEF OpenSdk, Alive
  <2>2. OpenedSdk(x, runtime, got, resumed)
    BY <2>1, OpenSdkMoves
  <2>3. born' \in Nat /\ born <= born'
    BY <1>0, <2>2, Numbers DEF OpenedSdk
  <2>4. /\ go' \in [Sessions -> Goroutine]
        /\ go'[s].pc = "reopened" /\ go'[s].got = got /\ go'[s].resumed = resumed
        /\ go'[s].target = x
        /\ \A t \in Sessions : t # s => go'[t] = go[t]
    <3> DEFINE e == [go[s] EXCEPT !.pc = "reopened", !.got = got, !.resumed = resumed]
    <3>1. "reopened" \in Locations
      BY DEF Locations
    <3>2. /\ e \in Goroutine /\ e.pc = "reopened" /\ e.got = got /\ e.resumed = resumed
          /\ e.target = go[s].target
      BY <1>0, <3>1 DEF Goroutine
    <3>3. go' = [go EXCEPT ![s] = e]
      BY <1>0, <1>4 DEF BindingTypeOK
    <3> QED
      BY <1>0, <3>2, <3>3, EntryMoves DEF BindingTypeOK
  <2> USE DEF BindingInv
  <2>5. BindingTypeOK'
    BY <1>1, <1>4, <2>2, <2>4 DEF OpenedSdk, BindingTypeOK
  <2>6. LocksHeld'
    BY <1>1, <1>2, <1>4, <2>4 DEF LocksHeld, Opens, Restores, Reopens
  <2>7. LocalsAgree'
    BY <1>1, <1>2, <2>2, <2>4 DEF OpenedSdk, LocalsAgree, LocksHeld, Opens, Restores, Reopens
  <2>8. SavedUnlessMoving'
    BY <1>0, <1>1, <2>2, <2>4 DEF OpenedSdk, SavedUnlessMoving, HalfSaved, BindingTypeOK
  <2>9. EpochsInOrder'
    BY <1>1, <2>2, <2>4 DEF OpenedSdk, EpochsInOrder, HalfBound, Opens, Restores, Reopens
  <2>10. ConversationsBorn'
    <3>1. \A n \in Nat : (n <= born => n <= born') /\ (n < born => n < born')
      BY <1>0, <2>3
    <3>2. \A t \in Sessions :
             /\ sess[t].conv <= born' /\ persisted[t] <= born' /\ checkpoint[t] <= born'
             /\ created[t] <= born' /\ go[t].got.conv <= born'
      <4>1. \A t \in Sessions :
               /\ sess[t].conv <= born /\ persisted[t] <= born /\ checkpoint[t] <= born
               /\ created[t] <= born /\ go[t].got.conv <= born
        BY DEF ConversationsBorn
      <4> QED
        BY <3>1, <4>1, StateNumbers
    <3>3. ASSUME NEW t \in Sessions, go'[t].pc \in {"reopened", "rebinding"},
                 go'[t].resumed = FALSE
          PROVE  created'[go'[t].target] < born'
      <4>1. CASE t = s
        BY <1>1, <2>2, <2>4, <3>3, <4>1 DEF OpenedSdk
      <4>2. CASE t # s
        <5>1. go[t].target \in Sessions /\ created[go[t].target] < born /\ go'[t] = go[t]
          BY <2>4, <3>3, <4>2 DEF ConversationsBorn, LocksHeld, Reopens
        <5>2. created[go[t].target] \in Nat
          BY <5>1, StateNumbers
        <5> QED
          BY <1>1, <3>1, <5>1, <5>2
      <4> QED
        BY <4>1, <4>2
    <3> QED
      BY <1>1, <2>2, <2>4, <3>2, <3>3 DEF OpenedSdk, ConversationsBorn
  <2> QED
    BY <2>5, <2>6, <2>7, <2>8, <2>9, <2>10
<1> QED
  BY <1>3, <1>4 DEF ReopenOpens

LEMMA ReopenSwapsInv ==
    ASSUME BindingInv, NEW s \in Sessions, ReopenSwaps(s)
    PROVE  BindingInv'
<1>0. BindingTypeOK /\ go[s].got \in SdkSession
  BY Entries DEF BindingInv
<1>1. /\ go[s].pc = "reopened" /\ go' = [go EXCEPT ![s].pc = "rebinding"]
      /\ UNCHANGED <<client, open, bound, created, finalizedAt, persisted, reopenMu, born,
                     finalizedIn, checkpoint>>
  BY DEF ReopenSwaps, hostVars
<1> PICK x \in Sessions : x = go[s].target
  BY <1>1 DEF BindingInv, LocksHeld, Reopens
<1>2. \A t \in Sessions : t # s => /\ go[t].pc \in Reopens => go[t].target # x
                                   /\ go[t].pc \in Restores => t # x
  BY <1>1, NobodyAssumption DEF BindingInv, LocksHeld, Reopens
<1>3. /\ go' \in [Sessions -> Goroutine]
      /\ go'[s].pc = "rebinding" /\ go'[s].got = go[s].got /\ go'[s].target = x
      /\ go'[s].resumed = go[s].resumed
      /\ \A t \in Sessions : t # s => go'[t] = go[t]
  <2>1. "rebinding" \in Locations
    BY DEF Locations
  <2> QED
    BY <1>0, <1>1, <2>1, PointMoves
<1>4. /\ sess' \in [Sessions -> SdkSession]
      /\ \A y \in Sessions : sess'[y] = IF y = x THEN go[s].got ELSE sess[y]
  BY <1>0 DEF ReopenSwaps, BindingTypeOK
<1>5. \A t \in Sessions : go[t].pc \in Reopens => go[t].target \in Sessions
  BY DEF BindingInv, LocksHeld
<1> USE DEF BindingInv
<1>6. BindingTypeOK' /\ LocksHeld'
  BY <1>1, <1>3, <1>4 DEF BindingTypeOK, LocksHeld, Opens, Restores, Reopens
<1>7. LocalsAgree'
  <2>1. ASSUME NEW t \in Sessions, t # s
        PROVE  /\ go'[t].pc = "opened" => persisted'[t] = go'[t].got.conv
               /\ go'[t].pc = "restoreBind" => sess'[t] = go'[t].got
               /\ go'[t].pc \in {"reopened", "rebinding"}
                     => persisted'[go'[t].target] = go'[t].got.conv
               /\ go'[t].pc = "rebinding" => sess'[go'[t].target] = go'[t].got
    <3>1. go'[t] = go[t]
      BY <1>3, <2>1
    <3>2. go[t].pc = "restoreBind" => t # x
      BY <1>2, <2>1 DEF Restores
    <3>3. go[t].pc \in {"reopened", "rebinding"} => go[t].target \in Sessions /\ go[t].target # x
      BY <1>2, <1>5, <2>1 DEF Reopens
    <3> QED
      BY <1>1, <1>4, <3>1, <3>2, <3>3 DEF LocalsAgree
  <2>2. persisted'[x] = go'[s].got.conv /\ sess'[x] = go'[s].got
    BY <1>1, <1>3, <1>4 DEF LocalsAgree
  <2> QED
    BY <1>3, <2>1, <2>2 DEF LocalsAgree
<1>8. SavedUnlessMoving'
  BY <1>0, <1>1, <1>3, <1>4 DEF SavedUnlessMoving, HalfSaved, BindingTypeOK
<1>9. EpochsInOrder'
  <2>1. \A y \in Sessions : bound'[y] <= client'.epoch
    BY <1>1 DEF EpochsInOrder
  <2>2. ASSUME NEW y \in Sessions, \A t \in Sessions : ~HalfBound(t, y)'
        PROVE  sess'[y].runtime <= bound'[y]
    <3>1. y # x /\ \A t \in Sessions : ~HalfBound(t, y)
      BY <1>1, <1>3, <2>2 DEF HalfBound
    <3> QED
      BY <1>1, <1>4, <3>1 DEF EpochsInOrder
  <2>3. go'[s].got.runtime <= client'.epoch
    BY <1>1, <1>3 DEF EpochsInOrder, Reopens
  <2>4. ASSUME NEW t \in Sessions, t # s
        PROVE  /\ go'[t].pc \in Opens \cup Restores \cup Reopens
                     => go'[t].got.runtime <= client'.epoch
               /\ go'[t].pc \in {"reopening", "reopened"}
                     => sess'[go'[t].target].runtime < go'[t].got.runtime
    <3>1. go'[t] = go[t]
      BY <1>3, <2>4
    <3>2. go[t].pc \in {"reopening", "reopened"} => go[t].target \in Sessions /\ go[t].target # x
      BY <1>2, <1>5, <2>4 DEF Reopens
    <3> QED
      BY <1>1, <1>4, <3>1, <3>2 DEF EpochsInOrder
  <2> QED
    BY <1>3, <2>1, <2>2, <2>3, <2>4 DEF EpochsInOrder
<1>10. ConversationsBorn'
  BY <1>1, <1>3, <1>4 DEF ConversationsBorn
<1> QED
  BY <1>6, <1>7, <1>8, <1>9, <1>10

LEMMA ReopenBindsInv ==
    ASSUME BindingInv, NEW s \in Sessions, ReopenBinds(s)
    PROVE  BindingInv'
<1>0. /\ BindingTypeOK /\ go[s] \in Goroutine /\ go[s].got \in SdkSession /\ born \in Nat
      /\ go[s].got.runtime \in Runtimes
  BY Entries, StateNumbers, Numbers DEF BindingInv
<1>1. /\ go[s].pc = "rebinding"
      /\ UNCHANGED <<client, open, sess, finalizedAt, persisted, born, finalizedIn, checkpoint>>
  BY DEF ReopenBinds, hostVars
<1> PICK x \in Sessions : x = go[s].target
  BY <1>1 DEF BindingInv, LocksHeld, Reopens
<1>2. /\ reopenMu[x] = s
      /\ \A t \in Sessions : t # s => /\ go[t].pc \in Reopens => go[t].target # x
                                      /\ go[t].pc \in Restores => t # x
      /\ \A t \in Sessions : go[t].pc \in Opens => t # x
  BY <1>1, NobodyAssumption DEF BindingInv, LocksHeld, Reopens
<1>3. /\ sess[x] = go[s].got /\ persisted[x] = go[s].got.conv
      /\ go[s].got.runtime <= client.epoch
      /\ go[s].resumed = FALSE => created[x] < born
  BY <1>1 DEF BindingInv, LocalsAgree, EpochsInOrder, ConversationsBorn, Reopens
<1>4. /\ go' \in [Sessions -> Goroutine] /\ go'[s].pc \in {"compose", "sweep"}
      /\ go'[s].got.conv = 0
      /\ \A t \in Sessions : t # s => go'[t] = go[t]
  <2>1. go' = [go EXCEPT ![s] = AfterTarget(s, x)]
    BY DEF ReopenBinds
  <2> QED
    BY <1>0, <2>1, TargetDone, EntryMoves DEF BindingTypeOK
<1>5. /\ bound' \in [Sessions -> Runtimes]
      /\ reopenMu' \in [Sessions -> Sessions \cup {Nobody}]
      /\ \A y \in Sessions : /\ bound'[y] = IF y = x THEN go[s].got.runtime ELSE bound[y]
                             /\ reopenMu'[y] = IF y = x THEN Nobody ELSE reopenMu[y]
  BY <1>0 DEF ReopenBinds, BindingTypeOK
<1>6. /\ created' \in [Sessions -> 0..MaxConversations]
      /\ \A y \in Sessions : y # x => created'[y] = created[y]
      /\ created'[x] <= born
  <2>1. /\ created \in [Sessions -> 0..MaxConversations] /\ created[x] \in Nat
        /\ created[x] <= born /\ born <= MaxConversations /\ go[s].resumed \in BOOLEAN
    BY <1>0, StateNumbers, BindingAssumption
       DEF BindingInv, ConversationsBorn, BindingTypeOK, Goroutine
  <2>2. CASE go[s].resumed = TRUE
    BY <2>1, <2>2 DEF ReopenBinds
  <2>3. CASE go[s].resumed = FALSE
    <3>1. created[x] + 1 \in 0..MaxConversations /\ created[x] + 1 <= born
      BY <1>0, <1>3, <2>1, <2>3, BindingAssumption
    <3>2. created' = [created EXCEPT ![x] = created[x] + 1]
      BY <2>3 DEF ReopenBinds
    <3> QED
      BY <2>1, <3>1, <3>2
  <2> QED
    BY <2>1, <2>2, <2>3
<1>7. \A t \in Sessions : go[t].pc \in Reopens => go[t].target \in Sessions
  BY DEF BindingInv, LocksHeld
<1> USE DEF BindingInv
<1>8. BindingTypeOK'
  BY <1>1, <1>4, <1>5, <1>6 DEF BindingTypeOK
<1>9. LocksHeld'
  BY <1>1, <1>2, <1>4, <1>5 DEF LocksHeld, Opens, Restores, Reopens
<1>10. LocalsAgree'
  BY <1>1, <1>4 DEF LocalsAgree
<1>11. SavedUnlessMoving'
  BY <1>0, <1>1, <1>3, <1>4 DEF SavedUnlessMoving, HalfSaved, BindingTypeOK
<1>12. EpochsInOrder'
  <2>1. \A y \in Sessions : bound'[y] <= client'.epoch
    BY <1>1, <1>3, <1>5 DEF EpochsInOrder
  <2>2. ASSUME NEW y \in Sessions, \A t \in Sessions : ~HalfBound(t, y)'
        PROVE  sess'[y].runtime <= bound'[y]
    <3>1. CASE y = x
      <4>1. sess'[y].runtime = bound'[y] /\ bound'[y] \in Nat
        BY <1>0, <1>1, <1>3, <1>5, <3>1, Numbers
      <4> QED
        BY <4>1
    <3>2. CASE y # x
      <4>1. \A t \in Sessions : ~HalfBound(t, y)
        BY <1>1, <1>4, <2>2, <3>2 DEF HalfBound
      <4> QED
        BY <1>1, <1>5, <3>2, <4>1 DEF EpochsInOrder
    <3> QED
      BY <3>1, <3>2
  <2>3. \A t \in Sessions :
          /\ go'[t].pc \in Opens \cup Restores \cup Reopens => go'[t].got.runtime <= client'.epoch
          /\ go'[t].pc \in {"reopening", "reopened"}
                => sess'[go'[t].target].runtime < go'[t].got.runtime
    BY <1>1, <1>4 DEF EpochsInOrder, Opens, Restores, Reopens
  <2> QED
    BY <2>1, <2>2, <2>3 DEF EpochsInOrder
<1>13. ConversationsBorn'
  <2>1. \A t \in Sessions : created'[t] <= born /\ go'[t].got.conv <= born
    BY <1>0, <1>4, <1>6 DEF ConversationsBorn
  <2>2. \A t \in Sessions :
           go'[t].pc \in {"reopened", "rebinding"} /\ go'[t].resumed = FALSE
              => created'[go'[t].target] < born
    <3> SUFFICES ASSUME NEW t \in Sessions, go'[t].pc \in {"reopened", "rebinding"},
                        go'[t].resumed = FALSE
                 PROVE  created'[go'[t].target] < born
      OBVIOUS
    <3>1. t # s /\ go'[t] = go[t] /\ go[t].pc \in Reopens
      BY <1>4 DEF Reopens
    <3>2. go[t].target \in Sessions /\ go[t].target # x
      BY <1>2, <1>7, <3>1
    <3>3. created[go[t].target] < born
      BY <3>1 DEF ConversationsBorn
    <3> QED
      BY <1>6, <3>1, <3>2, <3>3
  <2> QED
    BY <1>1, <1>4, <2>1, <2>2 DEF ConversationsBorn
<1> QED
  BY <1>8, <1>9, <1>10, <1>11, <1>12, <1>13

LEMMA ChildDiesInv == BindingInv /\ ChildDies => BindingInv'
<1> SUFFICES ASSUME BindingInv, ChildDies PROVE BindingInv'
  OBVIOUS
<1>1. /\ client' \in [epoch : Runtimes, up : BOOLEAN, alive : BOOLEAN]
      /\ client'.epoch = client.epoch
      /\ UNCHANGED <<open, sess, bound, created, finalizedAt, persisted, reopenMu, go, born,
                     finalizedIn, checkpoint>>
  BY DEF ChildDies, sdkVars, hostVars, BindingInv, BindingTypeOK
<1> USE <1>1 DEF BindingInv
<1>2. BindingTypeOK' /\ LocksHeld' /\ LocalsAgree'
  BY DEF BindingTypeOK, LocksHeld, LocalsAgree
<1>3. SavedUnlessMoving'
  BY DEF SavedUnlessMoving, HalfSaved
<1>4. EpochsInOrder' /\ ConversationsBorn'
  BY DEF EpochsInOrder, HalfBound, ConversationsBorn
<1> QED
  BY <1>2, <1>3, <1>4

(* The process starts again from what is on disk.                          *)
LEMMA RespawnInv == BindingInv /\ Respawn => BindingInv'
<1> SUFFICES ASSUME BindingInv, Respawn PROVE BindingInv'
  OBVIOUS
<1>1. /\ NoClient \in [epoch : Runtimes, up : BOOLEAN, alive : BOOLEAN] /\ NoClient.epoch = 0
      /\ 0 \in Runtimes /\ 0 \in 0..MaxConversations
  BY BindingAssumption DEF NoClient, Runtimes
<1>2. NoSession \in SdkSession /\ NoSession.runtime = 0 /\ NoSession.conv = 0
  BY BindingAssumption DEF NoSession, SdkSession, Runtimes, NoConversation
<1>3. /\ client' = NoClient /\ open' = {}
      /\ \A s \in Sessions : /\ go'[s] = Resting /\ sess'[s] = NoSession
                             /\ bound'[s] = 0 /\ created'[s] = 0
      /\ UNCHANGED <<persisted, born, finalizedIn, checkpoint>>
  BY DEF Respawn, hostVars
<1>4. BindingTypeOK'
  BY <1>1, <1>2, <1>3, RestingIsTyped DEF Respawn, hostVars, BindingInv, BindingTypeOK
<1>5. \A s \in Sessions : go'[s].pc = "idle" /\ go'[s].got = NoSession
  BY <1>3, RestingIsTyped
<1>6. LocksHeld' /\ LocalsAgree' /\ SavedUnlessMoving'
  BY <1>3, <1>5
     DEF LocksHeld, LocalsAgree, SavedUnlessMoving, Restores, Reopens, Opens
<1>7. EpochsInOrder'
  BY <1>1, <1>2, <1>3, <1>5 DEF EpochsInOrder, HalfBound, Restores, Reopens, Opens
<1>8. ConversationsBorn'
  <2>1. born \in Nat /\ 0 <= born
    BY StateNumbers
  <2> QED
    BY <1>2, <1>3, <1>5, <2>1 DEF BindingInv, ConversationsBorn
<1> QED
  BY <1>4, <1>6, <1>7, <1>8 DEF BindingInv

LEMMA NextInv == BindingInv /\ [BindingNext]_bindingVars => BindingInv'
<1> SUFFICES ASSUME BindingInv, [BindingNext]_bindingVars PROVE BindingInv'
  OBVIOUS
<1>1. CASE UNCHANGED bindingVars
  BY <1>1
     DEF bindingVars, sdkVars, hostVars, BindingInv, BindingTypeOK, LocksHeld, LocalsAgree,
         SavedUnlessMoving, HalfSaved, EpochsInOrder, HalfBound, ConversationsBorn
<1>2. ASSUME NEW s \in Sessions, HostCalls(s)
      PROVE  BindingInv'
  BY <1>2, OpenInv, CloseInv, SnapshotInv, RestoreInPlaceInv, RestoreInv, TurnInv DEF HostCalls
<1>3. ASSUME NEW s \in Sessions, Continue(s)
      PROVE  BindingInv'
  BY <1>3, OpenCreatesInv, OpenPublishesInv, RestoreResumesInv, RestoreSwapsInv, RestoreBindsInv,
     TurnInv, RestartInv, ReopenSkipsInv, ReopenLocksInv, ReopenOpensInv, ReopenSwapsInv,
     ReopenBindsInv
     DEF Continue, TakesReopenMu
<1>4. ASSUME NEW s \in Sessions, ModelTurn(s)
      PROVE  BindingInv'
  BY <1>4, TurnInv
<1> QED
  BY <1>1, <1>2, <1>3, <1>4, ChildDiesInv, RespawnInv DEF BindingNext

(* Nothing but the swap takes a goroutine from a re-opened session to its  *)
(* rebinding.                                                              *)
LEMMA OnlySwapsRebind ==
    ASSUME BindingInv, NEW s \in Sessions, BindingNext,
           go[s].pc = "reopened", go'[s].pc = "rebinding"
    PROVE  ReopenSwaps(s)
<1>0. BindingTypeOK
  BY DEF BindingInv
<1>1. PICK t \in Sessions : Continue(t) \/ HostCalls(t) \/ ModelTurn(t)
  BY RestingIsTyped DEF BindingNext, ChildDies, Respawn
<1>2. go \in [Sessions -> Goroutine]
  BY <1>0, Entries
<1>3. CASE t # s
  <2>1. go'[s] = go[s]
    BY <1>1, <1>2, <1>3
       DEF Continue, HostCalls, ModelTurn, OpenCreates, OpenPublishes, RestoreResumes,
           RestoreSwaps, RestoreBinds, Compose, SendSucceeds, SendFails, RestartClient,
           TakesReopenMu, ReopenSkips, ReopenLocks, ReopenOpens, ReopenSwaps, ReopenBinds,
           Open, Close, Snapshot, RestoreInPlace, Restore, Execute, Finalize, Reprompt, EndTurn,
           TurnStalls
  <2> QED
    BY <2>1
<1>4. CASE t = s
  <2>1. CASE ReopenOpens(s) \/ ReopenBinds(s) \/ OpenCreates(s) \/ OpenPublishes(s)
    BY <2>1 DEF ReopenOpens, ReopenBinds, OpenCreates, OpenPublishes
  <2>2. CASE RestoreResumes(s) \/ RestoreSwaps(s) \/ RestoreBinds(s)
    BY <2>2 DEF RestoreResumes, RestoreSwaps, RestoreBinds
  <2>3. CASE Compose(s) \/ SendSucceeds(s) \/ SendFails(s) \/ RestartClient(s) \/ TakesReopenMu(s)
    BY <2>3
       DEF Compose, SendSucceeds, SendFails, RestartClient, TakesReopenMu, ReopenSkips, ReopenLocks
  <2>4. CASE HostCalls(s)
    BY <2>4 DEF HostCalls, Open, Close, Snapshot, RestoreInPlace, Restore, Execute
  <2>5. CASE ModelTurn(s)
    BY <2>5 DEF ModelTurn, Finalize, Reprompt, EndTurn, TurnStalls
  <2> QED
    BY <1>1, <1>4, <2>1, <2>2, <2>3, <2>4, <2>5 DEF Continue
<1> QED
  BY <1>3, <1>4

-----------------------------------------------------------------------------
(* The theorems. *)

(* The strengthening under which the properties are inductive: who holds   *)
(* which reopenMu, and what the locals of an open, a restore and a re-open *)
(* still agree with.                                                       *)
THEOREM BindingInvariant == BindingSpec => []BindingInv
<1> QED
  BY InitInv, NextInv, PTL DEF BindingSpec

(* The sessions, bindings and goroutines keep their types, and a creation  *)
(* epoch never runs ahead of the conversations there are.                  *)
THEOREM BindingTypeCorrect == BindingSpec => []BindingTypeOK
<1>1. BindingInv => BindingTypeOK
  BY DEF BindingInv
<1> QED
  BY <1>1, BindingInvariant, PTL

(* Whenever nobody holds the reopenMu of a listed session, the id on disk  *)
(* is the conversation it is in: Restore and reopenSession change both     *)
(* under the lock, and an open is alone with its session.                  *)
THEOREM DiskIsRight == BindingSpec => []DiskNamesConversation
<1>1. BindingInv => DiskNamesConversation
  <2> SUFFICES ASSUME BindingInv, NEW x \in Sessions, Settled(x)
               PROVE  sess[x].conv = persisted[x]
    BY DEF DiskNamesConversation
  <2>1. \A s \in Sessions : ~HalfSaved(s, x)
    <3> SUFFICES ASSUME NEW s \in Sessions PROVE ~HalfSaved(s, x)
      OBVIOUS
    <3>1. reopenMu[x] # s
      BY NobodyAssumption DEF Settled
    <3>2. LocksHeld
      BY DEF BindingInv
    <3> QED
      BY <3>1, <3>2 DEF LocksHeld, HalfSaved, Restores, Reopens
  <2> QED
    BY <2>1 DEF BindingInv, SavedUnlessMoving, Settled
<1> QED
  BY <1>1, BindingInvariant, PTL

(* Each re-open moves its session to a newer runtime, however many sweeps  *)
(* run at once: reopenSession tests the epoch under reopenMu, and whatever *)
(* else could rebind the session needs that lock.                          *)
THEOREM ChurnsOnce == BindingSpec => ChurnsOncePerRestart
<1> DEFINE Churns == \A s, x \in Sessions :
                        go[s].pc = "reopened" /\ go'[s].pc = "rebinding" /\ go[s].target = x
                           => sess'[x].runtime > sess[x].runtime
<1>1. BindingInv /\ [BindingNext]_bindingVars => [Churns]_bindingVars
  <2> SUFFICES ASSUME BindingInv, BindingNext, NEW s \in Sessions, NEW x \in Sessions,
                      go[s].pc = "reopened", go'[s].pc = "rebinding", go[s].target = x
               PROVE  sess'[x].runtime > sess[x].runtime
    OBVIOUS
  <2>1. /\ BindingTypeOK /\ sess[x].runtime < go[s].got.runtime
        /\ sess[x].runtime \in Nat /\ go[s].got.runtime \in Nat
    BY StateNumbers DEF BindingInv, EpochsInOrder
  <2>2. ReopenSwaps(s)
    BY <2>1, OnlySwapsRebind
  <2>3. sess'[x] = go[s].got
    BY <2>1, <2>2 DEF ReopenSwaps, BindingTypeOK
  <2> QED
    BY <2>1, <2>3
<1> QED
  BY <1>1, BindingInvariant, PTL DEF BindingSpec, ChurnsOncePerRestart

-----------------------------------------------------------------------------
(* Nobody holds a reopenMu while it waits for another. *)

(* It is enough that each lock is free afterwards, that the goroutine that *)
(* moved works on the session now, or that it did not before.              *)
LEMMA HoldersStay ==
    ASSUME NoHoldAndWait, BindingTypeOK, NEW s \in Sessions,
           \A t \in Sessions : t # s => go'[t] = go[t],
           \A x \in Sessions :
              \/ reopenMu'[x] = Nobody
              \/ reopenMu'[x] = s /\ WorksOn(s, x)'
              \/ reopenMu'[x] = reopenMu[x] /\ ~WorksOn(s, x)
    PROVE  NoHoldAndWait'
BY NobodyAssumption DEF NoHoldAndWait, WorksOn, BindingTypeOK

(* A goroutine at no lock leaves the locks alone. *)
LEMMA IdleHoldsNothing ==
    ASSUME NoHoldAndWait, BindingTypeOK, NEW s \in Sessions,
           \A t \in Sessions : t # s => go'[t] = go[t],
           go[s].pc \notin Restores \cup Reopens, UNCHANGED reopenMu
    PROVE  NoHoldAndWait'
<1>1. \A x \in Sessions : ~WorksOn(s, x)
  BY DEF WorksOn, Restores, Reopens
<1> QED
  BY <1>1, HoldersStay

LEMMA RestoreHolds ==
    ASSUME BindingInv, NoHoldAndWait, NEW s \in Sessions,
           Restore(s) \/ RestoreResumes(s) \/ RestoreSwaps(s) \/ RestoreBinds(s)
    PROVE  NoHoldAndWait'
<1>0. BindingTypeOK /\ go \in [Sessions -> Goroutine] /\ go[s] \in Goroutine
      /\ reopenMu \in [Sessions -> Sessions \cup {Nobody}]
  BY Entries DEF BindingInv, BindingTypeOK
<1>1. \A t \in Sessions : t # s => go'[t] = go[t]
  BY <1>0 DEF Restore, RestoreResumes, RestoreSwaps, RestoreBinds
<1>2. \A x \in Sessions : x # s => ~WorksOn(s, x)
  BY DEF Restore, RestoreResumes, RestoreSwaps, RestoreBinds, WorksOn
<1>3. CASE reopenMu' = [reopenMu EXCEPT ![s] = Nobody]
  BY <1>0, <1>1, <1>2, <1>3, HoldersStay
<1>4. CASE go'[s].pc \in Restores /\ reopenMu'[s] = s
           /\ \A x \in Sessions : x # s => reopenMu'[x] = reopenMu[x]
  <2>1. WorksOn(s, s)'
    BY <1>4 DEF WorksOn, Restores
  <2> QED
    BY <1>0, <1>1, <1>2, <1>4, <2>1, HoldersStay
<1>5. CASE UNCHANGED <<reopenMu, go>>
  BY <1>5 DEF NoHoldAndWait, WorksOn
<1>6. CASE Restore(s)
  <2> DEFINE got == [runtime |-> client'.epoch, conv |-> checkpoint[s]]
  <2>1. \/ UNCHANGED <<reopenMu, go>>
        \/ /\ go' = [go EXCEPT ![s].pc = "restoring", ![s].got = got]
           /\ reopenMu' = [reopenMu EXCEPT ![s] = s]
    BY <1>6 DEF Restore
  <2> HIDE DEF got
  <2>2. go' = [go EXCEPT ![s].pc = "restoring", ![s].got = got] => go'[s].pc = "restoring"
    BY <1>0 DEF Goroutine
  <2> QED
    BY <1>0, <1>4, <1>5, <2>1, <2>2 DEF Restores
<1>7. CASE RestoreResumes(s) \/ RestoreSwaps(s) \/ RestoreBinds(s)
  <2>1. reopenMu[s] = s
    BY <1>7 DEF RestoreResumes, RestoreSwaps, RestoreBinds, BindingInv, LocksHeld, Restores
  <2>2. \/ reopenMu' = [reopenMu EXCEPT ![s] = Nobody]
        \/ reopenMu' = reopenMu /\ go'[s].pc \in Restores
    BY <1>0, <1>7 DEF RestoreResumes, RestoreSwaps, RestoreBinds, Restores, Goroutine
  <2> QED
    BY <1>3, <1>4, <2>1, <2>2
<1> QED
  BY <1>6, <1>7

LEMMA ReopenHolds ==
    ASSUME BindingInv, NoHoldAndWait, NEW s \in Sessions,
           \/ \E x \in Sessions : ReopenLocks(s, x)
           \/ ReopenOpens(s) \/ ReopenSwaps(s) \/ ReopenBinds(s)
    PROVE  NoHoldAndWait'
<1>0. BindingTypeOK /\ go \in [Sessions -> Goroutine] /\ go[s] \in Goroutine
      /\ reopenMu \in [Sessions -> Sessions \cup {Nobody}]
  BY Entries DEF BindingInv, BindingTypeOK
<1>1. \A t \in Sessions : t # s => go'[t] = go[t]
  BY <1>0 DEF ReopenLocks, ReopenOpens, ReopenSwaps, ReopenBinds
<1>2. ASSUME NEW y \in Sessions, ReopenLocks(s, y)
      PROVE  NoHoldAndWait'
  <2> DEFINE got == [runtime |-> client.epoch, conv |-> NoConversation]
  <2>1. /\ go' = [go EXCEPT ![s].pc = "reopening", ![s].target = y, ![s].got = got]
        /\ reopenMu' = [reopenMu EXCEPT ![y] = s] /\ go[s].pc = "sweep"
    BY <1>2 DEF ReopenLocks
  <2> HIDE DEF got
  <2>2. go'[s].pc = "reopening" /\ go'[s].target = y
    BY <1>0, <2>1 DEF Goroutine
  <2>3. WorksOn(s, y)' /\ \A x \in Sessions : ~WorksOn(s, x)
    BY <2>1, <2>2 DEF WorksOn
  <2> QED
    BY <1>0, <1>1, <2>1, <2>3, HoldersStay
<1>3. CASE ReopenOpens(s) \/ ReopenSwaps(s) \/ ReopenBinds(s)
  <2>0. PICK y \in Sessions : y = go[s].target
    BY <1>3 DEF ReopenOpens, ReopenSwaps, ReopenBinds, BindingInv, LocksHeld, Reopens
  <2>1. reopenMu[y] = s /\ go[s].pc \in Reopens
    BY <1>3, <2>0 DEF ReopenOpens, ReopenSwaps, ReopenBinds, BindingInv, LocksHeld, Reopens
  <2>2. \A x \in Sessions : x # y => ~WorksOn(s, x)
    BY <2>0, <2>1 DEF WorksOn, Reopens
  <2>3. \/ reopenMu' = [reopenMu EXCEPT ![y] = Nobody]
        \/ reopenMu' = reopenMu /\ go'[s].pc \in Reopens /\ go'[s].target = y
    <3>1. CASE ReopenOpens(s)
      <4>1. CASE reopenMu' = reopenMu
                 /\ \E got \in SdkSession, resumed \in BOOLEAN :
                       go' = [go EXCEPT ![s].pc = "reopened", ![s].got = got,
                                        ![s].resumed = resumed]
        <5> PICK got \in SdkSession, resumed \in BOOLEAN :
                   go' = [go EXCEPT ![s].pc = "reopened", ![s].got = got,
                                    ![s].resumed = resumed]
          BY <4>1
        <5>1. go'[s].pc = "reopened" /\ go'[s].target = y
          BY <1>0, <2>0 DEF Goroutine
        <5> QED
          BY <4>1, <5>1 DEF Reopens
      <4> QED
        BY <2>0, <3>1, <4>1 DEF ReopenOpens
    <3>2. CASE ReopenSwaps(s) \/ ReopenBinds(s)
      BY <1>0, <2>0, <3>2 DEF ReopenSwaps, ReopenBinds, Reopens, Goroutine
    <3> QED
      BY <1>3, <3>1, <3>2
  <2>4. reopenMu' = reopenMu /\ go'[s].pc \in Reopens /\ go'[s].target = y => WorksOn(s, y)'
    BY DEF WorksOn, Reopens
  <2> QED
    BY <1>0, <1>1, <2>1, <2>2, <2>3, <2>4, HoldersStay
<1> QED
  BY <1>2, <1>3

(* The other steps of a goroutine are no step of a lock. *)
LEMMA OtherStepsHold ==
    ASSUME BindingInv, NoHoldAndWait, NEW s \in Sessions,
           \/ OpenCreates(s) \/ OpenPublishes(s) \/ Compose(s) \/ SendSucceeds(s)
           \/ SendFails(s) \/ RestartClient(s) \/ Open(s) \/ Execute(s) \/ ModelTurn(s)
           \/ \E x \in Sessions : ReopenSkips(s, x)
    PROVE  NoHoldAndWait'
<1>0. BindingTypeOK /\ go \in [Sessions -> Goroutine]
  BY Entries DEF BindingInv
<1>1. /\ \A t \in Sessions : t # s => go'[t] = go[t]
      /\ go[s].pc \notin Restores \cup Reopens /\ UNCHANGED reopenMu
  BY <1>0
     DEF OpenCreates, OpenPublishes, Compose, SendSucceeds, SendFails, RestartClient, Open,
         Execute, ModelTurn, Finalize, Reprompt, EndTurn, TurnStalls, ReopenSkips, Restores,
         Reopens
<1> QED
  BY <1>0, <1>1, IdleHoldsNothing

(* A reopenMu is never held by a goroutine that waits for another one, nor *)
(* left locked by one that returned: Restore and reopenSession unlock on   *)
(* every path, and a sweep releases one session before it turns to the     *)
(* next. No cycle of sweeps and restores can wait on itself.               *)
THEOREM NoneHoldsAndWaits == BindingSpec => []NoHoldAndWait
<1>1. BindingInit => NoHoldAndWait
  BY DEF BindingInit, NoHoldAndWait
<1>2. BindingInv /\ NoHoldAndWait /\ [BindingNext]_bindingVars => NoHoldAndWait'
  <2> SUFFICES ASSUME BindingInv, NoHoldAndWait, [BindingNext]_bindingVars
               PROVE  NoHoldAndWait'
    OBVIOUS
  <2>1. CASE UNCHANGED <<go, reopenMu>>
    BY <2>1 DEF NoHoldAndWait, WorksOn
  <2>2. ASSUME NEW s \in Sessions, Continue(s) \/ HostCalls(s) \/ ModelTurn(s)
        PROVE  NoHoldAndWait'
    <3>1. CASE Close(s) \/ Snapshot(s) \/ RestoreInPlace(s)
      BY <2>1, <3>1 DEF Close, Snapshot, RestoreInPlace
    <3> QED
      BY <2>2, <3>1, RestoreHolds, ReopenHolds, OtherStepsHold
         DEF Continue, HostCalls, TakesReopenMu
  <2>3. CASE ChildDies \/ UNCHANGED bindingVars
    BY <2>1, <2>3 DEF ChildDies, bindingVars
  <2>4. CASE Respawn
    BY <2>4 DEF Respawn, NoHoldAndWait
  <2> QED
    BY <2>2, <2>3, <2>4 DEF BindingNext
<1> QED
  BY <1>1, <1>2, BindingInvariant, PTL DEF BindingSpec

=============================================================================
