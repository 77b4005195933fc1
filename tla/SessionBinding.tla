--------------------------- MODULE SessionBinding ---------------------------
(***************************************************************************)
(* Which CLI runtime and which conversation each adapter session is bound  *)
(* to: OpenSession, CloseSession (copilot_session.go), the recovery sweep  *)
(* (copilot_retry.go), Snapshot and Restore (copilot_state.go), and the    *)
(* epochs by which a repair decides whether the model still remembers the  *)
(* rejected finalize (copilot_turn.go).                                    *)
(*                                                                         *)
(* One goroutine per session serves the host's calls on it in turn; the    *)
(* sweep of one goroutine re-opens the sessions of all the others.  The    *)
(* CLI child is shared, and dies when it likes.                            *)
(***************************************************************************)
EXTENDS Naturals

CONSTANTS
    Sessions,          \* adapter session ids
    ContractSessions,  \* those whose steps carry outcome contracts
    MaxEpoch,          \* bound on the CLI children one process starts
    MaxConversations,  \* bound on the conversations ever created
    RetryMaxAttempts,  \* sends of one Execute
    Lifetimes          \* TRUE: a session id may be opened again, after its
                       \* CloseSession or by a respawned adapter process

ASSUME BindingAssumption ==
    /\ ContractSessions \subseteq Sessions
    /\ MaxEpoch \in Nat /\ MaxConversations \in Nat
    /\ RetryMaxAttempts \in Nat \ {0}
    /\ Lifetimes \in BOOLEAN

(* A runtime is the epoch it was started in; 0 is none. *)
Runtimes == 0..MaxEpoch
Conversations == 1..MaxConversations
NoConversation == 0
Nobody == "nobody"
ASSUME NobodyAssumption == Nobody \notin Sessions

SdkSession == [runtime : Runtimes, conv : 0..MaxConversations]
NoSession == [runtime |-> 0, conv |-> NoConversation]

Locations == {"idle", "opening", "opened", "restoring", "restored", "restoreBind",
              "compose", "send", "turn", "failed", "sweep", "reopening", "reopened",
              "rebinding"}

(* repair: the Execute answers a rejected finalize; prompt: what it sends; *)
(* recorded: the Execute has an accepted finalize; force, todo, target, got *)
(* and resumed: the locals of a recovery, an open or a restore.            *)
Goroutine == [pc : Locations, repair : BOOLEAN,
              prompt : {"full", "minimal", "corrective"}, recorded : BOOLEAN,
              tries : 0..RetryMaxAttempts - 1, force : BOOLEAN,
              todo : SUBSET Sessions, target : Sessions \cup {Nobody},
              got : SdkSession, resumed : BOOLEAN]

VARIABLES
    client,        \* p.client and p.clientEpoch; alive: the child answers
    open,          \* p.sessions
    sess,          \* sessionState.session: its runtime and conversation
    bound,         \* sessionState.boundClientEpoch
    created,       \* sessionState.createdEpoch
    finalizedAt,   \* sessionState.finalizeSessionEpoch
    persisted,     \* the SDK session id on disk
    reopenMu,      \* who holds sessionState.reopenMu
    go,            \* the goroutine serving the session
    born,          \* conversations created so far
    finalizedIn,   \* the conversation that holds the last accepted finalize
    checkpoint     \* the token the host got from its last Snapshot

sdkVars == <<sess, bound, created>>
hostVars == <<finalizedIn, checkpoint>>
bindingVars == <<client, open, sdkVars, finalizedAt, persisted, reopenMu, go, born, hostVars>>

Resting == [pc |-> "idle", repair |-> FALSE, prompt |-> "full", recorded |-> FALSE, tries |-> 0,
            force |-> FALSE, todo |-> {}, target |-> Nobody, got |-> NoSession,
            resumed |-> FALSE]

NoClient == [epoch |-> 0, up |-> FALSE, alive |-> FALSE]

BindingInit ==
    /\ client = NoClient
    /\ open = {}
    /\ sess = [s \in Sessions |-> NoSession]
    /\ bound = [s \in Sessions |-> 0]
    /\ created = [s \in Sessions |-> 0]
    /\ finalizedAt = [s \in Sessions |-> 0]
    /\ persisted = [s \in Sessions |-> NoConversation]
    /\ reopenMu = [s \in Sessions |-> Nobody]
    /\ go = [s \in Sessions |-> Resting]
    /\ born = 0
    /\ finalizedIn = [s \in Sessions |-> NoConversation]
    /\ checkpoint = [s \in Sessions |-> NoConversation]

-----------------------------------------------------------------------------
(* The client and the SDK calls. *)

Alive(runtime) == client.up /\ client.alive /\ client.epoch = runtime

(* startClientLocked: a new child in a new epoch, or no client at all.     *)
StartClient ==
    \/ client.epoch < MaxEpoch /\ client' = [epoch |-> client.epoch + 1, up |-> TRUE, alive |-> TRUE]
    \/ client' = [client EXCEPT !.up = FALSE, !.alive = FALSE]

EnsureClient ==
    IF client.up /\ client.alive THEN UNCHANGED client ELSE StartClient

(* openSDKSession on a runtime: the persisted conversation, or failing     *)
(* that a new one, which is persisted.                                     *)
OpenSdk(s, runtime, got, resumed) ==
    /\ Alive(runtime)
    /\ \/ /\ persisted[s] # NoConversation
          /\ got = [runtime |-> runtime, conv |-> persisted[s]] /\ resumed
          /\ UNCHANGED <<persisted, born>>
       \/ /\ born < MaxConversations
          /\ got = [runtime |-> runtime, conv |-> born + 1] /\ ~resumed
          /\ born' = born + 1
          /\ persisted' = [persisted EXCEPT ![s] = born + 1]

-----------------------------------------------------------------------------
(* OpenSession, CloseSession, Snapshot, Restore. *)

Open(s) ==
    /\ go[s].pc = "idle" /\ s \notin open
    /\ reopenMu[s] = Nobody
    /\ Lifetimes \/ persisted[s] = NoConversation
    /\ EnsureClient
    /\ go' = [go EXCEPT ![s].pc = IF client'.up THEN "opening" ELSE "idle",
                        ![s].got.runtime = IF client'.up THEN client'.epoch ELSE 0]
    /\ UNCHANGED <<open, sdkVars, finalizedAt, persisted, reopenMu, born, hostVars>>

OpenCreates(s) ==
    /\ go[s].pc = "opening"
    /\ \/ \E got \in SdkSession, resumed \in BOOLEAN :
             /\ OpenSdk(s, go[s].got.runtime, got, resumed)
             /\ go' = [go EXCEPT ![s].pc = "opened", ![s].got = got]
       \/ go' = [go EXCEPT ![s] = Resting] /\ UNCHANGED <<persisted, born>>
    /\ UNCHANGED <<client, open, sdkVars, finalizedAt, reopenMu, hostVars>>

(* newSessionState records the epoch that is current now. *)
OpenPublishes(s) ==
    /\ go[s].pc = "opened"
    /\ sess' = [sess EXCEPT ![s] = go[s].got]
    /\ bound' = [bound EXCEPT ![s] = client.epoch]
    /\ created' = [created EXCEPT ![s] = 1]
    /\ finalizedAt' = [finalizedAt EXCEPT ![s] = 0]
    /\ open' = open \cup {s}
    /\ go' = [go EXCEPT ![s] = Resting]
    /\ UNCHANGED <<client, persisted, reopenMu, born, hostVars>>

Close(s) ==
    /\ s \in open
    /\ open' = open \ {s}
    /\ UNCHANGED <<client, sdkVars, finalizedAt, persisted, reopenMu, go, born, hostVars>>

Snapshot(s) ==
    /\ s \in open /\ sess[s].conv # NoConversation
    /\ checkpoint' = [checkpoint EXCEPT ![s] = sess[s].conv]
    /\ UNCHANGED <<client, open, sdkVars, finalizedAt, persisted, reopenMu, go, born, finalizedIn>>

(* A restore to another conversation leaves the finalize behind. *)
Forget(s, token) ==
    finalizedIn' = [finalizedIn EXCEPT ![s] = IF @ = token THEN @ ELSE NoConversation]

RestoreInPlace(s) ==
    /\ go[s].pc = "idle" /\ s \in open
    /\ reopenMu[s] = Nobody
    /\ checkpoint[s] # NoConversation /\ sess[s].conv = checkpoint[s]
    /\ persisted' = [persisted EXCEPT ![s] = checkpoint[s]]
    /\ Forget(s, checkpoint[s])
    /\ UNCHANGED <<client, open, sdkVars, finalizedAt, reopenMu, go, born, checkpoint>>

(* Mutant: the reattach does not hold reopenMu. *)
RestoreUnlocked(s) ==
    /\ go[s].pc = "idle" /\ s \in open
    /\ checkpoint[s] # NoConversation /\ sess[s].conv # checkpoint[s]
    /\ EnsureClient
    /\ go' = IF client'.up
             THEN [go EXCEPT ![s].pc = "restoring",
                             ![s].got = [runtime |-> client'.epoch, conv |-> checkpoint[s]]]
             ELSE go
    /\ UNCHANGED <<open, sdkVars, finalizedAt, persisted, reopenMu, born, hostVars>>

Restore(s) ==
    /\ go[s].pc = "idle" /\ s \in open
    /\ reopenMu[s] = Nobody
    /\ checkpoint[s] # NoConversation /\ sess[s].conv # checkpoint[s]
    /\ EnsureClient
    /\ IF client'.up
       THEN /\ reopenMu' = [reopenMu EXCEPT ![s] = s]
            /\ go' = [go EXCEPT ![s].pc = "restoring",
                                ![s].got = [runtime |-> client'.epoch, conv |-> checkpoint[s]]]
       ELSE UNCHANGED <<reopenMu, go>>
    /\ UNCHANGED <<open, sdkVars, finalizedAt, persisted, born, hostVars>>

(* The resume succeeds, or Restore fails without touching the session.     *)
RestoreResumes(s) ==
    /\ go[s].pc = "restoring"
    /\ \/ /\ Alive(go[s].got.runtime)
          /\ go' = [go EXCEPT ![s].pc = "restored"]
          /\ UNCHANGED reopenMu
       \/ /\ go' = [go EXCEPT ![s] = Resting]
          /\ reopenMu' = [reopenMu EXCEPT ![s] = Nobody]
    /\ UNCHANGED <<client, open, sdkVars, finalizedAt, persisted, born, hostVars>>

RestoreSwaps(s) ==
    /\ go[s].pc = "restored"
    /\ sess' = [sess EXCEPT ![s] = go[s].got]
    /\ go' = [go EXCEPT ![s].pc = "restoreBind"]
    /\ UNCHANGED <<client, open, bound, created, finalizedAt, persisted, reopenMu, born, hostVars>>

(* Mutant: the id on disk is left at the conversation restored from. *)
RestoreBindsUnsaved(s) ==
    /\ go[s].pc = "restoreBind"
    /\ bound' = [bound EXCEPT ![s] = client.epoch]
    /\ Forget(s, go[s].got.conv)
    /\ reopenMu' = [reopenMu EXCEPT ![s] = Nobody]
    /\ go' = [go EXCEPT ![s] = Resting]
    /\ UNCHANGED <<client, open, sess, created, finalizedAt, persisted, born, checkpoint>>

RestoreBinds(s) ==
    /\ go[s].pc = "restoreBind"
    /\ bound' = [bound EXCEPT ![s] = client.epoch]
    /\ persisted' = [persisted EXCEPT ![s] = go[s].got.conv]
    /\ Forget(s, go[s].got.conv)
    /\ reopenMu' = [reopenMu EXCEPT ![s] = Nobody]
    /\ go' = [go EXCEPT ![s] = Resting]
    /\ UNCHANGED <<client, open, sess, created, finalizedAt, born, checkpoint>>

-----------------------------------------------------------------------------
(* Execute: compose, send, and the model's turn. *)

(* A repair Execute answers the host's rejection of a finalize. *)
Execute(s) ==
    /\ go[s].pc = "idle" /\ s \in open
    /\ \E repair \in {FALSE} \cup {finalizedIn[s] # NoConversation} :
          go' = [go EXCEPT ![s].pc = "compose", ![s].repair = repair]
    /\ UNCHANGED <<client, open, sdkVars, finalizedAt, persisted, reopenMu, born, hostVars>>

RepairInSession(s) ==
    \/ finalizedAt[s] >= created[s] /\ finalizedAt[s] > 0
    \/ finalizedAt[s] = 0 /\ created[s] <= 1

Compose(s) ==
    /\ go[s].pc = "compose"
    /\ go' = [go EXCEPT ![s].pc = "send",
                        ![s].prompt = IF @ = "corrective" THEN @
                                      ELSE IF go[s].repair /\ RepairInSession(s)
                                      THEN "minimal" ELSE "full"]
    /\ UNCHANGED <<client, open, sdkVars, finalizedAt, persisted, reopenMu, born, hostVars>>

(* A corrective reprompt of the same turn: a retry does not compose it anew. *)
Reprompt(s) ==
    /\ go[s].pc = "turn" /\ ~go[s].recorded
    /\ go' = [go EXCEPT ![s].pc = "send", ![s].prompt = "corrective"]
    /\ UNCHANGED <<client, open, sdkVars, finalizedAt, persisted, reopenMu, born, hostVars>>

(* Send targets whatever session backs the adapter session now. *)
SendSucceeds(s) ==
    /\ go[s].pc = "send"
    /\ Alive(sess[s].runtime)
    /\ go' = [go EXCEPT ![s].pc = "turn", ![s].got = sess[s], ![s].tries = 0]
    /\ UNCHANGED <<client, open, sdkVars, finalizedAt, persisted, reopenMu, born, hostVars>>

(* Mutant: one retry too many. *)
SendFailsOnceMore(s) ==
    /\ go[s].pc = "send"
    /\ \/ /\ go[s].tries < RetryMaxAttempts
          /\ \E stall \in BOOLEAN :
                go' = [go EXCEPT ![s].pc = "failed", ![s].tries = @ + 1, ![s].force = stall]
       \/ go' = [go EXCEPT ![s] = Resting]
    /\ UNCHANGED <<client, open, sdkVars, finalizedAt, persisted, reopenMu, born, hostVars>>

(* A retryable failure (stall: nothing came back at all), or the end: the  *)
(* error is not retryable or the retries are exhausted.                    *)
SendFails(s) ==
    /\ go[s].pc = "send"
    /\ \/ /\ go[s].tries + 1 < RetryMaxAttempts
          /\ \E stall \in BOOLEAN :
                go' = [go EXCEPT ![s].pc = "failed", ![s].tries = @ + 1, ![s].force = stall]
       \/ go' = [go EXCEPT ![s] = Resting]
    /\ UNCHANGED <<client, open, sdkVars, finalizedAt, persisted, reopenMu, born, hostVars>>

(* A contract finalize accepted during the turn. *)
Finalize(s) ==
    /\ s \in ContractSessions
    /\ go[s].pc = "turn" /\ ~go[s].recorded
    /\ Alive(go[s].got.runtime) /\ s \in open
    /\ go' = [go EXCEPT ![s].recorded = TRUE]
    /\ finalizedAt' = [finalizedAt EXCEPT ![s] = created[s]]
    /\ finalizedIn' = [finalizedIn EXCEPT ![s] = go[s].got.conv]
    /\ UNCHANGED <<client, open, sdkVars, persisted, reopenMu, born, checkpoint>>

EndTurn(s) ==
    /\ go[s].pc = "turn"
    /\ go' = [go EXCEPT ![s] = Resting]
    /\ UNCHANGED <<client, open, sdkVars, finalizedAt, persisted, reopenMu, born, hostVars>>

(* A silent stream: executeTurn recovers by force and sends again. *)
TurnStalls(s) ==
    /\ go[s].pc = "turn" /\ ~go[s].recorded
    /\ go' = [go EXCEPT ![s].pc = "failed", ![s].force = TRUE, ![s].prompt = "full"]
    /\ UNCHANGED <<client, open, sdkVars, finalizedAt, persisted, reopenMu, born, hostVars>>

-----------------------------------------------------------------------------
(* recoverTransport by the goroutine of s. *)

(* restartClient: a live child is spared unless force is set. *)
RestartClient(s) ==
    /\ go[s].pc = "failed"
    /\ IF client.up /\ client.alive /\ ~go[s].force THEN UNCHANGED client ELSE StartClient
    /\ go' = [go EXCEPT ![s].pc = IF client'.up THEN "sweep" ELSE "compose",
                        ![s].todo = IF client'.up THEN open ELSE {},
                        ![s].force = FALSE]
    /\ UNCHANGED <<open, sdkVars, finalizedAt, persisted, reopenMu, born, hostVars>>

(* The own session comes last, whether or not it is still listed. *)
NextTargets(s) == IF go[s].todo \subseteq {s} THEN {s} ELSE go[s].todo \ {s}

AfterTarget(s, x) ==
    [go[s] EXCEPT !.pc = IF x = s THEN "compose" ELSE "sweep", !.todo = @ \ {x},
                  !.target = Nobody, !.got = NoSession, !.resumed = FALSE]

(* Mutant: the epoch a session is bound to is not looked at. *)
SupersededAlways(x) == x \in open /\ client.up

Superseded(x) == x \in open /\ client.up /\ bound[x] # client.epoch

ReopenSkips(s, x) ==
    /\ go[s].pc = "sweep" /\ x \in NextTargets(s)
    /\ reopenMu[x] = Nobody /\ ~Superseded(x)
    /\ go' = [go EXCEPT ![s] = AfterTarget(s, x)]
    /\ UNCHANGED <<client, open, sdkVars, finalizedAt, persisted, reopenMu, born, hostVars>>

ReopenLocks(s, x) ==
    /\ go[s].pc = "sweep" /\ x \in NextTargets(s)
    /\ reopenMu[x] = Nobody /\ Superseded(x)
    /\ reopenMu' = [reopenMu EXCEPT ![x] = s]
    /\ go' = [go EXCEPT ![s].pc = "reopening", ![s].target = x,
                        ![s].got = [runtime |-> client.epoch, conv |-> NoConversation]]
    /\ UNCHANGED <<client, open, sdkVars, finalizedAt, persisted, born, hostVars>>

(* Mutant: a failed re-open leaves reopenMu locked. *)
ReopenOpensKeepsLock(s) ==
    /\ go[s].pc = "reopening"
    /\ \/ \E got \in SdkSession, resumed \in BOOLEAN :
             /\ OpenSdk(go[s].target, go[s].got.runtime, got, resumed)
             /\ go' = [go EXCEPT ![s].pc = "reopened", ![s].got = got, ![s].resumed = resumed]
       \/ go' = [go EXCEPT ![s] = AfterTarget(s, go[s].target)] /\ UNCHANGED <<persisted, born>>
    /\ UNCHANGED <<client, open, sdkVars, finalizedAt, reopenMu, hostVars>>

ReopenOpens(s) ==
    /\ go[s].pc = "reopening"
    /\ \/ \E got \in SdkSession, resumed \in BOOLEAN :
             /\ OpenSdk(go[s].target, go[s].got.runtime, got, resumed)
             /\ go' = [go EXCEPT ![s].pc = "reopened", ![s].got = got, ![s].resumed = resumed]
             /\ UNCHANGED reopenMu
       \/ /\ go' = [go EXCEPT ![s] = AfterTarget(s, go[s].target)]
          /\ reopenMu' = [reopenMu EXCEPT ![go[s].target] = Nobody]
          /\ UNCHANGED <<persisted, born>>
    /\ UNCHANGED <<client, open, sdkVars, finalizedAt, hostVars>>

ReopenSwaps(s) ==
    /\ go[s].pc = "reopened"
    /\ sess' = [sess EXCEPT ![go[s].target] = go[s].got]
    /\ go' = [go EXCEPT ![s].pc = "rebinding"]
    /\ UNCHANGED <<client, open, bound, created, finalizedAt, persisted, reopenMu, born, hostVars>>

(* Mutant: the new binding is not recorded. *)
ReopenForgetsBinding(s) ==
    /\ go[s].pc = "rebinding"
    /\ created' = [created EXCEPT ![go[s].target] = IF go[s].resumed THEN @ ELSE @ + 1]
    /\ reopenMu' = [reopenMu EXCEPT ![go[s].target] = Nobody]
    /\ go' = [go EXCEPT ![s] = AfterTarget(s, go[s].target)]
    /\ UNCHANGED <<client, open, sess, bound, finalizedAt, persisted, born, hostVars>>

(* Mutant: a fresh conversation passes for the old one. *)
ReopenKeepsCreation(s) ==
    /\ go[s].pc = "rebinding"
    /\ bound' = [bound EXCEPT ![go[s].target] = go[s].got.runtime]
    /\ reopenMu' = [reopenMu EXCEPT ![go[s].target] = Nobody]
    /\ go' = [go EXCEPT ![s] = AfterTarget(s, go[s].target)]
    /\ UNCHANGED <<client, open, sess, created, finalizedAt, persisted, born, hostVars>>

(* A fresh conversation starts a new creation epoch. *)
ReopenBinds(s) ==
    /\ go[s].pc = "rebinding"
    /\ bound' = [bound EXCEPT ![go[s].target] = go[s].got.runtime]
    /\ created' = [created EXCEPT ![go[s].target] = IF go[s].resumed THEN @ ELSE @ + 1]
    /\ reopenMu' = [reopenMu EXCEPT ![go[s].target] = Nobody]
    /\ go' = [go EXCEPT ![s] = AfterTarget(s, go[s].target)]
    /\ UNCHANGED <<client, open, sess, finalizedAt, persisted, born, hostVars>>

-----------------------------------------------------------------------------
(* Failures around the adapter. *)

ChildDies ==
    /\ client.up /\ client.alive
    /\ client' = [client EXCEPT !.alive = FALSE]
    /\ UNCHANGED <<open, sdkVars, finalizedAt, persisted, reopenMu, go, born, hostVars>>

(* The process is respawned: only the disk and what others know survive.   *)
Respawn ==
    /\ Lifetimes
    /\ client' = NoClient
    /\ open' = {}
    /\ sess' = [s \in Sessions |-> NoSession]
    /\ bound' = [s \in Sessions |-> 0]
    /\ created' = [s \in Sessions |-> 0]
    /\ finalizedAt' = [s \in Sessions |-> 0]
    /\ reopenMu' = [s \in Sessions |-> Nobody]
    /\ go' = [s \in Sessions |-> Resting]
    /\ UNCHANGED <<persisted, born, hostVars>>

TakesReopenMu(s) == \E x \in Sessions : ReopenSkips(s, x) \/ ReopenLocks(s, x)

(* The steps a goroutine takes on its own once it is under way. *)
Continue(s) ==
    \/ OpenCreates(s) \/ OpenPublishes(s)
    \/ RestoreResumes(s) \/ RestoreSwaps(s) \/ RestoreBinds(s)
    \/ Compose(s) \/ SendSucceeds(s) \/ SendFails(s)
    \/ RestartClient(s)
    \/ TakesReopenMu(s)
    \/ ReopenOpens(s) \/ ReopenSwaps(s) \/ ReopenBinds(s)

HostCalls(s) ==
    Open(s) \/ Close(s) \/ Snapshot(s) \/ RestoreInPlace(s) \/ Restore(s) \/ Execute(s)

ModelTurn(s) == Finalize(s) \/ Reprompt(s) \/ EndTurn(s) \/ TurnStalls(s)

BindingNext ==
    \/ \E s \in Sessions : Continue(s) \/ HostCalls(s) \/ ModelTurn(s)
    \/ ChildDies \/ Respawn

BindingSpec == BindingInit /\ [][BindingNext]_bindingVars

(* Where a goroutine waits for an answer of the CLI that nothing bounds:   *)
(* Ping and Start, Resume, Create and the tool probe, and the Disconnect   *)
(* of the session that swapSession replaced.  A child that lives but does  *)
(* not answer parks it there, with what it has locked.                     *)
AwaitsSdk == {"failed", "opening", "restoring", "restoreBind", "reopening", "rebinding"}

(* A goroutine under way goes on, but for those calls; sync.Mutex hands    *)
(* itself to the waiter that starves, so a contended reopenMu that keeps   *)
(* being released is taken in the end.                                     *)
BindingFairSpec ==
    /\ BindingSpec
    /\ \A s \in Sessions : /\ WF_bindingVars(go[s].pc \notin AwaitsSdk /\ Continue(s))
                           /\ SF_bindingVars(TakesReopenMu(s))

-----------------------------------------------------------------------------
(* Properties. *)

(* Type invariant of the sessions, their bindings and their goroutines. *)
BindingTypeOK ==
    /\ client \in [epoch : Runtimes, up : BOOLEAN, alive : BOOLEAN]
    /\ open \subseteq Sessions
    /\ sess \in [Sessions -> SdkSession]
    /\ bound \in [Sessions -> Runtimes]
    /\ created \in [Sessions -> 0..MaxConversations]
    /\ finalizedAt \in [Sessions -> 0..MaxConversations]
    /\ persisted \in [Sessions -> 0..MaxConversations]
    /\ reopenMu \in [Sessions -> Sessions \cup {Nobody}]
    /\ go \in [Sessions -> Goroutine]
    /\ born \in 0..MaxConversations
    /\ finalizedIn \in [Sessions -> 0..MaxConversations]
    /\ checkpoint \in [Sessions -> 0..MaxConversations]

Settled(s) == s \in open /\ reopenMu[s] = Nobody

(* boundClientEpoch tells the truth (copilot.go:124, "no stale bindings    *)
(* left behind"): were it ahead of the session's runtime, no sweep would   *)
(* ever re-open the dead session.                                          *)
BindingTruthful == \A s \in Sessions : Settled(s) => bound[s] = sess[s].runtime

(* The id on disk is the conversation the session is in: a sweep that      *)
(* raced a Restore cannot put the session back on the conversation it was  *)
(* restored from (copilot_state.go, the comment on reopenMu).              *)
DiskNamesConversation == \A s \in Sessions : Settled(s) => sess[s].conv = persisted[s]

(* No hold and wait: a reopenMu is held only by the goroutine that is       *)
(* restoring or re-opening that very session, never by one that returned   *)
(* or that sweeps on to another session's lock (copilot_state.go, Restore; *)
(* copilot_retry.go, reopenSession).                                       *)
WorksOn(h, x) ==
    \/ h = x /\ go[h].pc \in {"restoring", "restored", "restoreBind"}
    \/ go[h].target = x /\ go[h].pc \in {"reopening", "reopened", "rebinding"}

NoHoldAndWait ==
    \A x \in Sessions : reopenMu[x] # Nobody => WorksOn(reopenMu[x], x)

(* copilot_retry.go, reopenSession: concurrent sweeps churn a session at   *)
(* most once per restart; each re-open moves it to a newer runtime.        *)
ChurnsOncePerRestart ==
    [][\A s, x \in Sessions :
          go[s].pc = "reopened" /\ go'[s].pc = "rebinding" /\ go[s].target = x
             => sess'[x].runtime > sess[x].runtime]_bindingVars

(* A minimal repair of a finalize this process recorded is sent only into  *)
(* the conversation that holds it (copilot_turn.go:904, retry.go:148). Of  *)
(* an earlier process's finalize the code knows nothing: epoch 0.          *)
MinimalRepairLands ==
    [][\A s \in Sessions :
          /\ go[s].pc = "send" /\ go'[s].pc = "turn"
          /\ go[s].prompt = "minimal" /\ finalizedAt[s] > 0
          => sess[s].conv = finalizedIn[s]]_bindingVars

(* A goroutine that started to recover sends again or gives its Execute    *)
(* up: no sweep waits for ever for a reopenMu (reopenSession), unless a    *)
(* child that does not answer parks some goroutine for ever.               *)
RecoveryEnds ==
    \/ \A s \in Sessions : go[s].pc = "failed" ~> go[s].pc \in {"turn", "idle"}
    \/ \E h \in Sessions : <>[](go[h].pc \in AwaitsSdk)

=============================================================================
