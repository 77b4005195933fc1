# TLA+ model of criteria-adapter-copilot

The adapter lets a workflow host run steps on the GitHub Copilot CLI. The host
opens *adapter sessions* and sends each of them `Execute` requests; the adapter
prompts a model through an SDK session of a shared CLI child process, waits for
the model to call the tool `submit_outcome`, and returns one outcome. Around
that sit retries, a watchdog, recovery of a dead or wedged child, and the
checkpointing of conversations; beside it, permission requests and adapter tool
calls go to the host and back. These modules model what decides *which outcome
the host gets*, *which conversation a session is in*, *when a call is given up*,
*who answers a waiting callback* and *which settings a step runs with*.

## 1. Inventory

| Component | State | Operations | What makes it correct |
|---|---|---|---|
| submit_outcome channel (`copilot_outcome.go`) | allowed set, contracts, fallback name; recorded outcome, reason, payload, comment; attempts, failure kind, issues; `s.mu` | `handleSubmitOutcomeRaw`, `handleSubmitOutcome` | what is recorded fits the open step and stays; every refusal leaves its kind; some call is always acceptable |
| Execute loop (`copilot_turn.go`) | `turnState`: `turnDone`, `errCh`, turn counter, attempt | `Execute`, `awaitOutcome`, `handleIdleTurn`, `failExhausted`, `handleMaxTurnsReached`, the event handler | one answer per Execute, always; a recorded finalize is the answer |
| Provider-call watchdog (`copilot_watchdog.go`) | the two windows; last activity, `stallNotify`, `gatedWaits`, `toolGates`; call count | `parseWatchdogSettings`, `executeTurn`, `waitTurnSignal`, `drainStaleSignals`, `sendRPCTimeboxed`, opening and releasing gates | a silent call is abandoned in time, a working one is not; no gate is lost, released twice or inherited; bounded calls |
| Send retry, transport recovery (`copilot_retry.go`) | client and its epoch, `clientMu`, `reopenMu` | `sendWithRetry`, `recoverTransport`, `restartClient`, `reopenSession`, `startClientLocked` | all sessions end up on the live child, each re-opened once |
| Session lifecycle (`copilot_session.go`) | the session map, SDK session, bound and created epochs, id on disk | `OpenSession`, `CloseSession`, `openSDKSession`, `swapSession` | bindings tell the truth |
| Snapshot and Restore (`copilot_state.go`) | the checkpoint token | `Snapshot`, `Restore` | a restored session stays on the restored conversation |
| Repair prompts (`copilot_turn.go`) | `finalizeSessionEpoch`, `createdEpoch` | `repairInSession`, prompt composition | a minimal repair only goes where the model remembers the finalize |
| Permission bridge (`copilot_permission.go`, `copilot.go`) | `pendingPerms` | SDK callback, `Permissions` stream, decision, drain | each request is answered once, and at the latest when its Execute ends |
| Tool-call bridge (`copilot_toolcall.go`, `copilot_toolpipe.go`) | pending calls | `adapter_tool`, MCP pipe | each call is answered once, at the latest when a stream ends |
| Liveness ticker (`copilot_liveness.go`) | `lastForwardNs` | `forwardTrackingSink`, the ticker goroutine | the host is never left without an event for long; a tick is no provider activity |
| Model and effort overrides (`copilot_model.go`) | `defaultModel`, `defaultEffort`; the SDK session's settings | `applyOpenSessionModel`, `applyRequestEffort`, `applyRequestModel`, the deferred restore | a step runs as it asked, and its override ends with it |
| Phone-home serving (`copilot_serve.go`) | backoff delay | dial, handshake, serve | reconnects |
| Command fingerprints (`copilot_session.go`) | map of 128 | record, look up, forget | a pending request finds its command |

**Interaction.** The Execute goroutine shares the finalize fields with the tool
handler (an SDK goroutine) under `s.mu`, and gets the CLI's events through two
one-slot channels that a third goroutine fills. A recovery started by one
session's Execute kills the child under *all* sessions and re-opens them one by
one under each one's `reopenMu`, which `Restore` holds too. Epochs tie it
together: `clientEpoch` (child starts), `boundClientEpoch` (which of them a
session is on), `createdEpoch` (conversations a session has had) and
`finalizeSessionEpoch` (which of those has the finalize). A callback of the SDK
(a permission request, a call of `adapter_tool`) reads the session's active
Execute, asks the host over its sink, and waits for an answer that comes in over
one of several `Permissions` streams; while it waits it holds a watchdog gate.

**What is hard.** Signals that arrive in an order nobody tested (an idle and an
error both ready, an error behind an idle, a finalize behind a stall); CLI turns
that outlive their Execute; three nested retry loops; nested timers against
events that come in the same instant; callbacks that outlive the Execute, the
stream or the call they began in; a settings restore that runs on a session
which was replaced meanwhile; checks and updates in different critical sections;
a process that dies between two of them.
`PROJECT.json` lists these hazards at the line where each bites.

## 2. Modules

| Module | Models | Composes |
|---|---|---|
| `SubmitOutcome` | the handshake Execute installs and the tool handler, check by check in the code's order | – |
| `StepOutcome` | the abstract promise to the host: a started Execute ends once, with an error or an outcome its step allows, unless the CLI parks it for ever in a call without a window | – |
| `Turn` | Execute, the finalize loop, `executeTurn`, `sendWithRetry`, the event handler, the CLI and the host | extends `SubmitOutcome`; refines `StepOutcome` |
| `SessionBinding` | open, close, snapshot, restore, recovery sweeps, repair prompts, for several sessions on one child | – |
| `Permissions` | SDK callbacks, the registry of pending requests, the `Permissions` streams, the tool-call bridge | refines `PermissionGate` |
| `PermissionGate` | the abstract promise to the model: a callback is answered once, and allowed only on the host's word | – |
| `Watchdog` | the clock: windows, timers, activity, gates, the liveness ticker | – |
| `Settings` | model and effort: defaults, overrides, restores, re-opens | – |
| `MCSubmitOutcome`, `MCTurn`, `MCSessionBinding`, `MCPermissions`, `MCWatchdog`, `MCSettings` | instances for TLC | extend the module they are named after |
| `SubmitOutcome_proofs`, `Turn_proofs`, `SessionBinding_proofs`, `Permissions_proofs`, `Watchdog_proofs`, `Settings_proofs` | theorems and proofs | extend their module |
| `SessionEpochs_proofs` | what the epochs of a session may be trusted for | extends `SessionBinding_proofs` |

The modules meet at what they leave to chance. `Turn` lets any wait stall;
`Watchdog` says when it may. `Turn` lets a recovery succeed or fail;
`SessionBinding` has what it does. `Settings` lets a re-open come at any time
and does not ask whose it is. `Permissions` and `Watchdog` let an Execute end
at any time; that it does, unless it is parked in an SDK call, is `Turn`'s
`KeepsPromise`.

### SubmitOutcome

`stage` says how far Execute is: `BeginExecution` resets the finalize fields,
`InstallHandshake` (a later critical section) installs allowed set, contracts
and fallback name, `EndExecution` is the deferred cleanup. `FallbackAfter` keeps
the old fallback name when a request has contracts and none is a fallback, as
the code does; of several the last in the request wins, and the model, which
keeps them as a set, lets any of them win.

One call of the handler is one step, because it holds `s.mu` from its first
check to its last assignment. `SubmitOutcome(sub)` has one disjunct per way out:
`RejectUndecodable` (the raw handler's own critical section), `RejectDuplicate`,
`RejectOutcome`, `PanicInFold`, `RejectLane`, `RejectContract`, `Accept`. A call
is a record of what the checks look at: does the envelope decode, the outcome,
whether reason and comment are non-blank, and the payload's form and members.
`Folded` and `CanonicalPayload` are `foldDeclaredPayloadParams` and the
normalisation of absent and null. A JSON schema is reduced to "an object with
these required members", the part of it the folding and the lanes depend on.

`MarkNoOutcomes` is the one write of Execute between the handshake and the end.

### Turn

`pc` is the Execute goroutine between its blocking points:

    idle - begun - setup - call - send <-> recover
                            |       |
                            |     await - idled - judge -> exhausted
                            |       |               |
                         restart <- stalled         +-> send (a reprompt)

    what decides the answer -> restore -> return -> idle

`Configure` installs the handshake and subscribes; `Setup` is the model and
effort calls, which may fail; `StartCall` drains and sends the prompt;
`SendReturns`, `SendFails`, `RecoverSend` and `GiveUp` are `sendWithRetry` with
its recovery. In `await` the `select` of
`waitTurnSignal` is a free choice between `AwaitCancelled`, `AwaitError`,
`AwaitIdle` and `AwaitStall`. `DrainIdled` and `JudgeIdle` are separate steps,
because events arrive between them. `Decide` settles what Execute returns, with
the snapshot of the finalize on those paths that take one; then the deferred
calls run, first the `SetModel` that restores an overridden effort
(`RestoreEffort`, skipped if nothing was overridden), last the cleanup
(`Return`). The submit channel stays open until then, and `late` remembers that
it accepted a finalize after the decision.

The CLI works on prompts (`live`): those of the current Execute and those an
earlier one left, since the end of an Execute does not abort the CLI's turn
(`StraySubmits`). Events carry no owner, as in the code. `AssistantMessage`
counts towards `max_turns`, `SessionIdle` fills `turnDone`, `SessionLost` and
`ForwardFails` fill `errCh` if it is free (`SendErr`). The CLI may receive a
message whose send then fails (`delivered`), may die, may submit at any time.

### SessionBinding

Each session has one goroutine, `go[s]`, which serves the host's calls on it in
turn; `Close` and `Snapshot` may come at any time. The goroutine's steps are the
stretches of code between two lock acquisitions or RPCs: a restore resumes, then
swaps, then binds and persists; a recovery restarts the child, then for every
session takes `reopenMu`, opens, swaps, binds (`ReopenSkips`, `ReopenLocks`,
`ReopenOpens`, `ReopenSwaps`, `ReopenBinds`). The own session comes last.
Conversations are numbered as they are created; a runtime is the epoch that
started it. `finalizedIn` and `checkpoint` are what the host knows.

`Compose` chooses the prompt as the code does, from the epochs at that moment;
a corrective reprompt is not composed again by a retry. `SendSucceeds` reads the
session that is current when it sends.

### Permissions

A callback is a record of its session, its kind and the tool call id the model
gave it: `permission` is a request the host decides, `own` the one for
`adapter_tool` itself, which is approved on the spot, `tool` a call of
`adapter_tool`. `ask[c]` is how far it is (`Capture`, `Register`, `Forward` or
`CallBridge`, then `TakeDecision`, or `Leave` and `Reject`) with the number of
the Execute whose sink and `activeCh` it read; those two may be of an Execute
that is over, as in the code, where they are read under the lock and used after
it. `pendingPerms` is the map of the whole process, keyed by `RequestID`, and
`decision[c]` the one slot of a request's channel.

A stream's `Dispatch` hands the host's verdict to whoever is registered under
the id: in time, late, or a second time. Its end is three steps, `RecvEnds`
(what was in flight is lost), `BridgeLoopEnds` (the bridge resolves every
pending call) and `Drain` (every pending request is denied, also those sent over
another stream). The bridge is the SDK's `ToolCallBridge`, which is not in the
repository; it is modelled as the code uses it and marked external in the map.

### Watchdog

Four activities share the session: the Execute goroutine with its timer, the
event handler, the callbacks that hold gates, and the ticker. `pc = "check"` is
the head of `waitTurnSignal`'s loop, from which it arms the gate timer, arms the
base timer for the rest of the window, or declares the stall. The expiry of the
base timer only returns to it, that of the gate timer stalls (`GateStalls`).
A gate's release is two steps, since the code drops the count before it marks
activity (`DropGate`, `markActivity`), and `closeToolGate` removes the entry in
a third. `closeAllToolGates`, the last step of `drainStaleSignals`, runs at the
begin of every call (`StartCall`) and whenever a turn ended with an idle, before
the reprompt or the return (`TurnEnds`); an error without an idle behind it ends
the Execute undrained.

Time is discrete, and the clock stands still while the adapter can take a step
(`Busy`): its own steps take no time against windows of minutes. `quiet` is the
age of the last real sign of life, kept beside `silence`, the code's own
`lastActivityNs`, so that the properties do not judge the code by its own
bookkeeping; `hostQuiet` does the same for `lastForwardNs`, and `running`, the
tools whose start was handled since the last drain, for `toolGates`.

### Settings

`sdk[n]` is the model and effort that SDK session `n` runs with; `current` is
the one the adapter session is on and `target` the one Execute read at its
start, which the deferred restore uses too. A `SetModel` succeeds only if the
two agree (the other's CLI is dead); one that fails may have been carried out.
`Reopen` moves the session to the next SDK session, with the model of the config
and either no effort or, if the conversation was resumed and the CLI kept it,
the old one. `failed` and `inherited` are what the properties except: sessions
on which a call failed, and those that took over the effort of a step.

## 3. Runs

| Run | Checks | Shows |
|---|---|---|
| `submit` | `SubmitTypeOK`, `RecordedFitsStep`, `KindExplainsRefusal`, `StepCanBeFinalized`, `FirstFinalizeStands` | every call over two outcomes and three members against six handshakes (legacy, empty, typed with comment, folding, fallback, comment only), four attempts and any number of duplicates |
| `turn_loop` | `TurnTypeOK`, `RecordedFitsStep`, `FinalizeNeverLost`, `KeepsPromise` | one Execute after the other with the code's own budgets (3 finalize attempts, 3 provider calls, 4 sends) |
| `binding_sweeps` | `BindingTypeOK`, `DiskNamesConversation`, `NoHoldAndWait`, `ChurnsOncePerRestart` | two sessions, every interleaving of opens, restores, turns and recoveries |
| `binding_recovery` | `RecoveryEnds` | the same over three child starts, with fairness |
| `binding_lifetimes` | `BindingTruthful`, `DiskNamesConversation`, `MinimalRepairLands` | one contract session that is closed, opened again, respawned, restored, restarted and retried |
| `permissions` | `PermTypeOK`, `WaiterIsReachable`, `NothingLeftPending`, `ToolCallersFreed`, `KeepsGate` | four callbacks of two sessions whose models chose the same tool call id, against two streams that answer, answer twice, answer late and end |
| `watchdog` | `WatchTypeOK`, `GatesAccounted`, `QuietCallIsAbandoned`, `GateBelongsToCall`, `HostSilenceBounded`, `StallMeansSilence`, `SilentCallEnds` | two tools and one callback against the clock, with stalls, retries, recoveries, reprompts and a host that stops listening |
| `settings` | `SettingTypeOK`, `StepRunsAsAsked`, `OverrideDoesNotLeak` | every combination of session config and step input over two models, two efforts and an invalid one, with failing calls and re-opens at any time |
| `submit_answers`, `turn_stale_fallback`, `binding_open_race`, `settings_default` | one property each | the disagreements of section 6 |

**Bounds and why they are enough.**

- `MaxAttempts` bounds the calls that are counted, which a duplicate is not:
  duplicates come at any time and any number. It is 4 in `submit`, so that every
  pair of rejections precedes and follows an acceptance, and 2 in `turn_loop`: a
  rejected call may precede the accepted one, and one more is not told apart by
  the loop, which looks only at whether a finalize is recorded. The proofs hold
  for every value.
- `MaxTurnsInputs = {0, 1}`: no cap, and a cap that the first message reaches.
  Counting to it is a saturating counter.
- `MaxLivePrompts = 2`: a duplicate delivered by a retry, and the original.
- `MaxEpoch = 2` allows the restart that makes a binding stale; 3, in
  `binding_recovery` and `binding_lifetimes`, another one during the recovery
  from it. When it is reached, starting the child fails, which the code allows
  too. `MaxConversations = 3` is one for each session and one that replaces a
  lost one; a create beyond it fails. `binding_recovery` has 2: which
  conversation a session is in does not matter to the locks.
- `RetryMaxAttempts` is 1 in `binding_recovery` (recoveries come from stalled
  turns), 2 with two sessions elsewhere (also from sends, forced or not), and
  the code's 4 with one session.
- Two sessions are the least that lets one sweep another. With symmetry
  (`binding_sweeps`) only safety is checked.
- `permissions`: two streams are the least that lets the end of one deny what
  the other would have answered, two sessions the least that lets one's requests
  be mistaken for the other's, and one callback of each kind would do; the
  second permission request shares its id with the first. `MaxExecutes` is 1:
  an Execute that begins while a callback of the one before still waits differs
  from one that has ended only in `ExecuteOver`, which is true in both cases.
  The proofs hold for any number of each.
- `watchdog`: a window of 2 leaves an instant strictly inside it, and the gate
  window of 3 one between the two. The base key 5 and the gate key 1 are
  out of range (`MaxWindow` 5, `MinGateWindow` 3), and 4 fails only against the
  gate window. `Horizon` 6 exceeds every sum of windows and intervals
  a property compares an age with, so saturation hides nothing. Two stalled
  calls and two sends are the least that lets a gate of one call meet the next.
  One callback, because gates only count, and `Waits` and `Tools` do so alike.
- `settings`: three SDK sessions are an open, a re-open within a step and one
  after it, two models and two efforts the least that tells an override from a
  default, and the invalid effort reaches the validation.
- Deadlock checking is off where the system may stop: the handler that dies
  holding `s.mu` (`submit`), the bounded conversations and child starts of
  the binding runs, the callbacks and streams of `permissions`, which are used
  up, a provider and a host that have nothing more to say (`watchdog`), and the
  SDK sessions of `settings`.

**Restrictions of single runs.** `turn_loop` uses steps of which none takes over
an earlier step's fallback (`OwnFallbackSteps`) and lets no turn outlive its
Execute (`StraySubmits = FALSE`): the two ways in which an outcome the step does
not declare can be returned, and by `TurnKeepsPromise` the only two. The first is
shown by `turn_stale_fallback`, the second described in section 6. `BindingTruthful` and `MinimalRepairLands` are
checked with one session (`binding_lifetimes`), whose own recoveries cannot race
it: with two, the first is what `binding_open_race` refutes, and the second
fails in the repair race of section 6. Of several sessions the theorems of
`SessionEpochs_proofs` say that these two races are all there is. The two-session runs have no contract
steps (`ContractSessions = {}`), because repairs concern one session at a time.

## 4. Fairness

- `TurnFairSpec`: weak fairness of the Execute goroutine's steps, but for the
  states in which it waits for an answer of the CLI that no window covers
  (`Unsupervised`): `SetModel` before and after the turn, and the recoveries,
  which ping, start, resume and create. The SDK's requests take neither a
  context nor a timeout (`copilot_watchdog.go:10`), so a child that lives and
  does not answer may keep the Execute there; nothing is assumed of it, and
  `KeepsPromise` excepts an Execute that stays in *one* such call for ever. To
  come back to such calls again and again is no exception: the budgets forbid
  it. In `await` one of the fair steps is the watchdog's stall, so the
  assumption is that a CLI that stops sending events is abandoned after the
  window, which `waitTurnSignal` guarantees, and that a stream of events is not
  endless: every event re-arms the window, so a CLI that talks for ever without
  an idle is bounded only by `max_turns` and the host's context. The same holds
  for `send` (`sendRPCTimeboxed`). Of the host it is assumed that `sink.Send`
  returns, with or without an error.
- `BindingFairSpec`: a goroutine under way goes on, weakly fair, but for the
  states in which it waits for an unbounded SDK call (`AwaitsSdk`: ping, start,
  resume, create and the tool probe, and the `Disconnect` of the session that
  `swapSession` replaced). Taking `reopenMu` is strongly fair, because
  `sync.Mutex` hands itself to a waiter that has starved for a millisecond. A
  goroutine that is parked in such a call keeps its `reopenMu` (and `clientMu`,
  which the model does not have), and every later sweep of that session waits
  behind it for ever; so `RecoveryEnds` holds as long as no goroutine is parked
  for ever, and says that locks alone never are the reason.
- `PermFairSpec`: a callback that can go on does, a stream whose receive loop
  has ended is torn down, and every Execute ends, which is `KeepsPromise` of
  `Turn` for those that are not parked in an SDK call. Nothing is asked of the
  host: it may never answer and never close a stream.
- `WatchFairSpec`: time passes, and the goroutines of the adapter run (the
  Execute goroutine, the handler, the callbacks, the ticker). The CLI and the
  host owe nothing. `SilentCallEnds` therefore excepts a provider that acts for
  ever, and the four states in which the code waits for the CLI without a
  window (`Unsupervised`: the `SetModel` calls and the recoveries).
- `Settings` has safety properties only.

## 5. Proofs

Seven modules hold proofs. Each theorem holds for every value of the constants
that satisfies the named assumptions of its module, none of which bounds
anything: sets of sessions, callbacks, streams, tools, models, outcomes and
submissions of any size (finite where the code counts them), any budgets,
windows, intervals and numbers of child starts. `HorizonAssumption` says that
ages saturate above every window.

Where the code leaves a window open, the theorem has that window as its
hypothesis, and nothing else: a run (or section 6) shows that the property fails
in it, the theorem that it fails nowhere else. The hypotheses are

| Hypothesis | Says | Theorems |
|---|---|---|
| `NoneBeforeHandshake` | no call is recorded between `beginExecution` and the handshake | `RecordedFits`, `TurnRecordsFitting`, `TurnKeepsPromise` |
| `OwnFallbacks` | if any step names a fallback, each step with contracts names its own | `TurnKeepsPromise`, `LegacyFailure` |
| `~NullIsFoldedInto` | no contract asks for the parameter that the model sends beside a literal-null payload | `AnswersUnlessNull` |
| `RestartsOutside` | no child is started between the answer to an open or restore and the reading of its epoch | `BoundUnlessRestartedMeanwhile` |
| `NotUnderPrompt` | no other goroutine's sweep puts a session on a fresh conversation between the choice of a minimal prompt and its send | `MinimalLandsUnlessOvertaken` |
| `EffortUndisturbed` | no re-open takes a default effort away, no step names a model alone, no effort is inherited | `DefaultReturnsUndisturbed` |

`StraySubmits = FALSE` implies the first (`RecordedFitsAlone`,
`TurnKeepsPromiseAlone`), a single session the fourth and fifth
(`OnlySessionIsBound`, `OnlySessionsRepairLands`).

*The channel and the loop* (`SubmitOutcome_proofs`, `Turn_proofs`)

- `TypeCorrect`: `SubmitTypeOK` is inductive by itself; the lemmas say what the
  payload operators return.
- `FirstStands`: from the type invariant and a case split over the seven ways
  out of the handler: the only one that changes the answer needs `Fresh`.
- `RecordedFits`: `RecordedFitsStep` alone is not inductive, because a finalize
  could be recorded before the handshake is installed. The invariant adds that
  a step that has only begun has none, which is what `NoneBeforeHandshake`
  keeps: without it the statement is false (section 6). `AcceptFits` is the
  heart: what passes the checks of the handler satisfies `FitsStep` after
  folding and normalisation.
- `AnswersUnlessNull`: the lock is only lost in `PanicInFold`, and whatever that
  folds is in the schema of a contract the host sent (`StepOfHost`).
- `CanBeFinalized`: a witness for each lane: a reason alone on a legacy step,
  otherwise a comment and a payload with exactly the required members.
- `KindExplains`: the invariant adds that after a reset nothing is explained and
  nothing has to be.
- `TurnTypeCorrect`: `LoopTypeOK` needs `BudgetsLeft`: a goroutine that is about
  to send again or to call again has a send or a call left. The two together
  are inductive, and they are the statement that the three nested loops stay
  within their budgets.
- `TurnImplementsSubmit`: every step of `Turn` is a step of `SubmitOutcome` or
  leaves its variables alone, so `TurnRecordsFitting` and `TurnFirstStands`
  follow from the channel's theorems.
- `FinalizeKept`: only `Return` ends an Execute, with what `Decide` settled
  before. The invariant `KeptSoFar` says that from the decision on, a recorded
  finalize is the one decided on, or the cause is one of the five the property
  names, or `late` is set; the lemma `Decision` lists the ways to decide, and
  each of them that takes its snapshot finds the finalize recorded by then.
- `TurnKeepsPromise`: every step is a step of `StepOutcome` or leaves what the
  host sees alone. `StepIsOfRequest` says that the allowed set and the fallback
  on an open session are those of the request it serves, and
  `TurnRecordsFitting` that a recorded finalize is one of them; so each of the
  ways to decide settles an error or an outcome of the step (`AnswerFits`),
  which `Return` hands over.
- `LegacyFailure`: an exhausted Execute decides on the fallback in force or
  "failure" (`ExhaustedFails`), and by `OwnFallbacks` the fallback in force is the step's own.

*The bindings* (`SessionBinding_proofs`)

- `BindingInvariant`: `BindingInv` is inductive. `LocksHeld` says that a
  goroutine which works on a session holds its `reopenMu`, and that an open is
  alone with it; `LocalsAgree` that what it has written agrees with what it
  remembers; `SavedUnlessMoving` that id and conversation agree but in the
  windows in which one of the two is written; `EpochsInOrder` that nothing is
  bound beyond the client's epoch and a re-open under way has read a newer
  runtime than its target's; `ConversationsBorn` that every conversation named
  was created.
- `BindingTypeCorrect`, `DiskIsRight` and `ChurnsOnce` follow: a settled session
  has no writer in one of those windows, because the lock is free; and the
  re-open that moves a session read its runtime under the lock it still holds.
- `NoneHoldsAndWaits`: every path through `Restore` and `reopenSession` gives up
  what it locked before it waits again, so a held `reopenMu` has a holder that
  works on that very session. It is the safety half of `RecoveryEnds`.

One guard has no counterpart in the code: `Open` waits until nobody holds the
`reopenMu` of its id (section 7). In no run does it ever decide: they have one
session, whose goroutine is the one that opens, or no second lifetime of an id.
The theorems for several sessions *with* `Lifetimes` rest on it.

*The epochs* (`SessionEpochs_proofs`)

- `BoundUnlessRestartedMeanwhile`: with `EpochIsCurrent` (what has been opened
  and not bound is on the client's runtime, what is bound is on its bound one)
  the binding is inductive as long as `RestartsOutside`. With one session the
  hypothesis follows: its own goroutine starts no child in that window.
- `MinimalLandsUnlessOvertaken`: `RepairInv` says what the epochs mean.
  `FinalizeHeld`: a finalize that is not older than the last fresh conversation
  lies in the conversation the session is in, unless the host restored another
  one since or a fresh one is still to be counted; `SavedWhileHeld` carries the
  id on disk through sessions closed in mid-sweep, `ExecuteKnows` and
  `FinalizeAges` tie what the goroutine read to what is there. `RepairInv` holds
  without any hypothesis. `MinimalReady` then follows the prompt to its send.

*The permission bridge* (`Permissions_proofs`)

- `PermTypeCorrect`, `WaitersReachable`, `NothingStaysPending`: the registries
  name only callbacks that can still be told; a registered request is in the map
  or has its decision, a tool call is pending in its stream's bridge or has its
  result, and never both. For tool calls this is the safety half of
  `ToolCallersFreed`.
- `PermImplementsGate`: with, in addition, `AllowedByHost` (a decision "allow"
  was granted to that very callback), every step is a step of `PermissionGate`
  or leaves its state alone. This is the safety half of `KeepsGate`.

*The watchdog* (`Watchdog_proofs`)

- `GatesAreAccounted`: `gated` is the number of gates in the map, in the hands of
  a completion, or held by callbacks, through every order of release.
- `QuietCallsAbandoned`, `StallsAreSilent`: `WaitsBounded` relates the time a
  call has been quiet to what its timer has left; `GateWaits` says that a wait
  with the longer timer has a gate or is about to be woken; `NoTimeLost` that
  what is under way began at this instant.
  `StallsAreSilent` excepts by name what `NoTimeLost` and `GateWaits` leave: a
  release that is half done, and the token that the expired gate timer is drawn
  before.
- `GatesBelong`: `GatesOfRunning` ties the map's entries to the tools that run,
  which the drains at the begin of a call and at an idle empty.
- `HostHears`: `TickerLives` relates the age of the last event to the ticker's
  next check.

*The settings* (`Settings_proofs`)

- `StepsRunAsAsked`, `OverridesStay`: `RestoreIsDue` (a restore is deferred
  exactly when an effort was overridden), `ReplacementNoted` (whatever replaces
  the SDK session of an overriding step is in `inherited`) and
  `EffortIsDefault` make the two inductive.

- `DefaultReturnsUndisturbed`: `DefaultInForce` has the default effort itself
  where `EffortIsDefault` has "the default or none"; a step keeps it so as long
  as `EffortUndisturbed`.

Only model-checked is liveness, which is out of the prover's reach: that of
`KeepsPromise` and `KeepsGate`, and `RecoveryEnds`, `ToolCallersFreed` and
`SilentCallEnds`. Their safety halves are theorems (`TurnKeepsPromise`,
`PermImplementsGate`, `NoneHoldsAndWaits`, `WaitersReachable`,
`QuietCallsAbandoned`). Every other property of the runs is a theorem;
`RecordedFitsStep`, `MinimalRepairLands` and the four properties of section 6
under the table's hypotheses. Nothing is proved by induction over
data, and no module has a recursive operator.

## 6. Disagreements with the repository's own words

Each has a run whose counterexample shows it, an entry in `PROJECT.json`
with the quotation, and a theorem that says it is the only way to break the
property.

1. `submit_answers`: a literal-null payload makes the fold assign into a nil
   map; the handler panics holding `s.mu` (`AnswersUnlessNull`).
2. `turn_stale_fallback`: a step with contracts and without a fallback fails
   with the fallback outcome of an earlier step (`LegacyFailure`).
3. `binding_open_race`: a child restart between opening an SDK session and
   reading the epoch leaves a session bound to a runtime it is not on, which no
   sweep repairs (`BoundUnlessRestartedMeanwhile`).
4. `settings_default`: after a re-open, and after a step that overrides only the
   model, the session has no effort instead of its default
   (`DefaultReturnsUndisturbed`).

Noted while modelling, without a run of their own:

- *The outcome.* Nothing enforces the "3-attempt cap" of
  `copilot_session.go:162`. The parameter texts at `copilot_outcome.go:95` and
  `:97` disagree about a top-level reason on a typed step. When an idle is seen
  before the error of the turn cap, the drain at `copilot_watchdog.go:438` drops
  the error, against `copilot.go:14`. A submission of a turn that outlives its
  Execute is validated against the previous step and recorded for the new one
  when it comes between the reset of the finalize fields
  (`copilot_session.go:699`) and the handshake (`copilot_turn.go:839`, `:1156`);
  `RecordedFits` says that this window is the only one.
- *Errors and retries.* The stall retries of `sendWithRetry` multiply with those
  of `executeTurn` (`copilot_watchdog.go:54` counts only the latter). An error
  event between the drain and the reprompt's send can still end the reprompt's
  wait (`copilot_turn.go:530`).
- *Sessions.* A peer's sweep can replace the conversation between the
  composition of a repair prompt and its send (`copilot_retry.go:353`), against
  `copilot_retry.go:148`: a minimal prompt then reaches an empty conversation
  (the one way there is, by `MinimalLandsUnlessOvertaken`). A
  session that is opened on a fresh conversation after a respawn counts as
  in-session for repairs (`copilot_session.go:568`), which is why
  `MinimalRepairLands` speaks of finalizes the running process recorded. An
  `OpenSession` whose settings fail leaves the session published
  (`copilot_session.go:584`).
- *A finalize that is accepted and lost.* What Execute returns is decided at the
  snapshot of a session loss (`copilot_turn.go:523`) or a stall
  (`copilot_watchdog.go:490`), or when `failExhausted` begins
  (`copilot_turn.go:677`). The submit channel stays open until cleanup
  (`copilot_turn.go:1158`), and the deferred restore of the effort, an SDK call
  (`:887`), comes before it. A call accepted in between is told that its
  outcome is recorded, and the host gets the loss, the stall or the fallback.
  `FinalizeNeverLost` excepts exactly these calls (`late`), and `FinalizeKept`
  says that there are no others.
- *Calls without a window.* "The worst-case wall time per call is bounded"
  (`copilot_watchdog.go:56`), by windows, backoff and "recovery time"; but the
  last has no bound, nor has `SetModel` around the call: `copilot_watchdog.go:10` itself says that an SDK request
  unblocks only on a response, a client stop or the exit of the process. What
  parks there keeps `clientMu` or a `reopenMu`, and parks others.
- *The watchdog.* "A timer racing a fresh event cannot produce a false stall"
  (`copilot_watchdog.go:366`) holds of the base timer only: when the gate timer
  has expired and `stallNotify` is ready too, the `select` may choose the timer
  (`token` in `StallMeansSilence`). A release drops the gate before it marks
  activity (`:303`), so a check in between may declare a stall at the very end
  of a tool or a wait (`HalfReleased`). These two are what `StallMeansSilence`
  excepts. Between turns, the drain of an idle closes the gates of *all* tools
  (`:446`), of those that still run too: such a tool holds no gate after the
  reprompt, and the base window may stall the call under it, against
  "long-but-healthy tool runs are not misread as stalls" (`:19`); the property speaks of
  the tools that began since. The gate timer runs from the begin of the wait, so
  silence may reach the base window and the gate window together, not the gate
  window alone. A tool start of an abandoned call that is handled after the
  drain opens a gate in the next call, which its ceiling still bounds. A gate
  window equal to the base window is accepted, where `copilot.go:169` says the
  base "must stay below". Tools whose event has no call id hold no gate.
- *Settings.* A step's `model` input is an override that `README.md:106` does
  not know ("all other config keys are ... not overridable per step").

## 7. Not modelled, and why

- Phone-home serving (`copilot_serve.go`, `main.go`): connection set-up and I/O,
  with a doubling delay as its only state. What a broken connection does to the
  sessions (cancelled contexts, sinks that refuse) is in `Turn`, `Watchdog` and
  `Permissions`.
- Command fingerprints: the bounded map of commands decides one field of a
  request's text. It evicts a random entry where the comment above its bound
  says the oldest (`copilot_session.go:418`).
- The credential guard, redaction, declarations and parsing: functions on text.
  What the model writes, prompts' wording, usage events, and diagnostics such as
  `outcome.recovered` decide nothing here. Schemas beyond required members.
- In `Turn` a stall may happen in any wait, and in `SessionBinding` at any send:
  that covers every timing, and `Watchdog` says which are possible.
- In `Watchdog`, `AskHost` forwards the request before the gate is opened, and
  `openToolGate` and the drain of a call are one step each: the code's steps
  within them touch nothing another goroutine reads in between but the gate
  count, whose parts only the handler and the drain change. The ticker is
  stopped in one step with the end of the Execute; its goroutine may in fact
  tick once more.
- In `Permissions`, what the host is told about a request (details, commands)
  and what a tool returns. The SDK's `ToolCallBridge` is external.
- In `SessionBinding`: a failed write of the id on disk; who owns an SDK session
  that a close and a sweep both dealt with; an `Open` of an id while a sweep
  still holds the lock of its predecessor's state object (the model has one lock
  per id, so `Open` waits for it; see section 5); `clientMu`, since what it
  protects is one step here; the client handle is as alive as its child;
  repairs of a finalize that was recorded without contracts, which leaves no
  epoch. Stalls and reprompts need an Execute with no finalize (`recorded`), as
  `handleIdleTurn` and `executeTurn` check it.
- The host, the SDK and the CLI are environments: what the code here cannot
  rule out, they may do.

## 8. Plan

Done: `SubmitOutcome`, `StepOutcome`, `Turn`, `SessionBinding`, `Permissions`
with `PermissionGate`, `Watchdog`, `Settings`, and a proof of every safety
property the runs check. Left, in this order:

1. `SessionBinding` with failing writes of the id and with owners of SDK
   sessions, so that a session which nobody destroys can be stated.
2. `Commands`: the bounded map with its eviction, against "oldest first".
3. `Serve`: the backoff and its reset.
