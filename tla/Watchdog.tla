------------------------------ MODULE Watchdog ------------------------------
(***************************************************************************)
(* The provider-call watchdog of one session (copilot_watchdog.go) and the *)
(* liveness ticker beside it (copilot_liveness.go), against the clock.     *)
(*                                                                         *)
(* Four activities share the session: the Execute goroutine, which waits   *)
(* with a timer; the SDK's event handler; callbacks that wait for the host *)
(* (permission requests and adapter tool calls); the ticker.  Turn has the *)
(* loop that the waits are part of; here it is kept as far as it decides   *)
(* when a wait begins and what follows a stall.                            *)
(*                                                                         *)
(* Time is discrete, in a unit against which the adapter's own steps take  *)
(* no time: the clock stands still while one of them can be taken (Busy).  *)
(***************************************************************************)
EXTENDS Integers, FiniteSets

CONSTANTS
    DefaultWindow, DefaultGateWindow,   \* watchdogWindow, watchdogGateWindow
    MaxWindow, MinGateWindow,           \* maxWatchdogWindow, minWatchdogGateWindow
    WindowKeys, GateWindowKeys,         \* the config keys' values; 0: not set
    TickInterval, CheckInterval,        \* livenessTickInterval, livenessCheckInterval
    MaxCallAttempts, RetryMaxAttempts,  \* watchdogMaxCallAttempts, retryMaxAttempts
    Tools,         \* tool call ids of native tools
    Waits,         \* callbacks that wait for the host
    Horizon        \* bound: ages are not told apart beyond it

ASSUME WatchdogAssumption ==
    /\ DefaultWindow \in Nat \ {0} /\ DefaultGateWindow \in Nat \ {0}
    /\ MaxWindow \in Nat /\ MinGateWindow \in Nat
    /\ WindowKeys \subseteq Nat /\ GateWindowKeys \subseteq Nat
    /\ TickInterval \in Nat \ {0} /\ CheckInterval \in Nat \ {0}
    /\ MaxCallAttempts \in Nat \ {0} /\ RetryMaxAttempts \in Nat \ {0}
    /\ IsFiniteSet(Tools) /\ IsFiniteSet(Waits)
    /\ Horizon \in Nat

(* Every window is shorter than the horizon. *)
ASSUME HorizonAssumption ==
    \A w \in WindowKeys \cup GateWindowKeys \cup {DefaultWindow, DefaultGateWindow} :
        w <= Horizon

VARIABLES
    window, gateWindow,  \* sessionState.watchdog
    pc,            \* where the Execute goroutine is
    message,       \* what it sends: the prompt of a call, or a reprompt in it
    calls, tries,  \* provider calls and sends that stalled before this one
    timer,         \* time to the expiry of the timer it waits with
    signal,        \* turnDone or errCh holds something
    silence,       \* age of lastActivityNs
    token,         \* stallNotify holds its token
    gated,         \* gatedWaits
    toolGates,     \* the keys of toolGates
    handler,       \* for each tool, how far the handler is with its event
    wait,          \* the callbacks: asked the host, hold a gate, let it go
    lastForward,   \* age of lastForwardNs
    ticker,        \* the liveness ticker: off, or time to its next check
    sinkUp,        \* the host still takes events of this Execute
    quiet,         \* age of the last sign of life: a provider event, a send,
                   \* the begin or end of a wait for a tool or the host
    running,       \* the tools whose start was handled since the last drain
    hostQuiet      \* age of the last event the host got, or of the Execute

settingsVars == <<window, gateWindow>>
loopVars == <<pc, message, calls, tries, timer>>
activityVars == <<silence, token, quiet>>
gateVars == <<gated, toolGates, handler, wait, running>>
hostVars == <<lastForward, ticker, sinkUp, hostQuiet>>
watchVars == <<settingsVars, loopVars, signal, activityVars, gateVars, hostVars>>

Off == -1

(* The states in which the goroutine waits with a timer. *)
Timed == {"send", "baseWait", "gateWait"}

(* The states in which it waits for an answer of the CLI without one: the  *)
(* SetModel calls around the turn, and the restart and re-open of a        *)
(* recovery.                                                               *)
Unsupervised == {"setup", "recoverSend", "recoverCall", "restore"}

-----------------------------------------------------------------------------
(* parseWatchdogSettings. *)

Resolved(key, default) == IF key = 0 THEN default ELSE key

(* Mutant: a gate ceiling below the base window passes. *)
AcceptsTighterGate(w, g) == w < MaxWindow /\ g >= MinGateWindow

Accepts(w, g) == w < MaxWindow /\ g >= MinGateWindow /\ g >= w

WatchInit ==
    /\ \E w \in WindowKeys, g \in GateWindowKeys :
           /\ window = Resolved(w, DefaultWindow)
           /\ gateWindow = Resolved(g, DefaultGateWindow)
    /\ Accepts(window, gateWindow)
    /\ pc = "idle" /\ message = "prompt" /\ calls = 0 /\ tries = 0 /\ timer = 0
    /\ signal = FALSE
    /\ silence = 0 /\ token = FALSE /\ quiet = 0
    /\ gated = 0 /\ toolGates = {} /\ running = {}
    /\ handler = [t \in Tools |-> "none"] /\ wait = [x \in Waits |-> "none"]
    /\ lastForward = 0 /\ ticker = Off /\ sinkUp = TRUE /\ hostQuiet = 0

-----------------------------------------------------------------------------
(* Activity and gates. *)

(* Mutant: the parked waiter is not woken. *)
MarkQuietly == silence' = 0 /\ UNCHANGED token

markActivity == silence' = 0 /\ token' = TRUE

SignOfLife == quiet' = 0

(* beginWatchdogGate. *)
BeginGate ==
    /\ gated' = gated + 1
    /\ markActivity
    /\ SignOfLife

(* The first half of the release it returns; the second is markActivity.   *)
DropGate ==
    /\ gated' = gated - 1
    /\ SignOfLife

-----------------------------------------------------------------------------
(* The Execute goroutine. *)

(* Execute up to the SetModel calls: beginExecution stamps lastForwardNs,  *)
(* the ticker starts, the handler is subscribed.                           *)
Begin ==
    /\ pc = "idle"
    /\ pc' = "setup" /\ calls' = 0
    /\ signal' = FALSE
    /\ lastForward' = 0 /\ hostQuiet' = 0 /\ sinkUp' = TRUE
    /\ ticker' = CheckInterval
    /\ UNCHANGED <<settingsVars, message, tries, timer, activityVars, gateVars>>

(* Execute returns: the restore of the effort is its first deferred call.  *)
End == pc' = "restore" /\ timer' = 0 /\ tries' = 0

SetupReturns ==
    /\ pc = "setup"
    /\ \/ pc' = "call" /\ UNCHANGED <<timer, tries>>
       \/ End
    /\ UNCHANGED <<settingsVars, message, calls, signal, activityVars, gateVars, hostVars>>

RestoreReturns ==
    /\ pc = "restore"
    /\ pc' = "idle" /\ ticker' = Off
    /\ UNCHANGED <<settingsVars, message, calls, tries, timer, signal, activityVars, gateVars>>
    /\ UNCHANGED <<lastForward, sinkUp, hostQuiet>>

(* One attempt of sendWithRetry.                                           *)
Send(what, try) ==
    /\ pc' = "send" /\ message' = what /\ tries' = try /\ timer' = window
    /\ markActivity /\ SignOfLife

(* Mutant: the gates that were left open stay open. *)
KeepToolGates ==
    /\ running' = {}
    /\ UNCHANGED <<toolGates, gated>>

(* drainStaleSignals closes every tool gate, of tools that still run too;  *)
(* each release marks activity, as a send right after it does.             *)
closeAllToolGates ==
    /\ running' = {}
    /\ toolGates' = {}
    /\ gated' = gated - Cardinality(toolGates)

StartCall ==
    /\ pc = "call"
    /\ signal' = FALSE
    /\ closeAllToolGates
    /\ Send("prompt", 0)
    /\ UNCHANGED <<settingsVars, calls, handler, wait, hostVars>>

(* What follows a stalled call in executeTurn: the recorded outcome, the   *)
(* last attempt's error, or a recovery and another call.                   *)
CallStalls ==
    \/ End /\ UNCHANGED calls
    \/ /\ calls + 1 < MaxCallAttempts
       /\ calls' = calls + 1
       /\ pc' = "recoverCall" /\ timer' = 0 /\ tries' = 0

(* Send answers: with the message id, or an error.  Retryable errors take  *)
(* the way of a stall, and their recovery restarts only a dead child.      *)
SendFails ==
    IF tries + 1 < RetryMaxAttempts
    THEN pc' = "recoverSend" /\ tries' = tries + 1 /\ timer' = 0 /\ UNCHANGED calls
    ELSE \/ End /\ UNCHANGED calls
         \/ message = "reprompt" /\ CallStalls

SendAnswers ==
    /\ pc = "send"
    /\ \/ pc' = "check" /\ timer' = 0 /\ UNCHANGED <<calls, tries>>
       \/ End /\ UNCHANGED calls
       \/ SendFails
    /\ UNCHANGED <<settingsVars, message, signal, activityVars, gateVars, hostVars>>

(* sendRPCTimeboxed gives up.                                              *)
SendStalls ==
    /\ pc = "send" /\ timer = 0
    /\ SendFails
    /\ UNCHANGED <<settingsVars, message, signal, activityVars, gateVars, hostVars>>

RecoveryReturns ==
    \/ /\ pc = "recoverSend"
       /\ Send(message, tries)
       /\ UNCHANGED <<settingsVars, calls, signal, gateVars, hostVars>>
    \/ /\ pc = "recoverCall"
       /\ pc' = "call"
       /\ UNCHANGED <<settingsVars, message, calls, tries, timer, signal>>
       /\ UNCHANGED <<activityVars, gateVars, hostVars>>

(* ctx is done in a wait: so are the ticker and the host's stream.         *)
Cancel ==
    /\ pc \in Timed \cup {"recoverSend", "recoverCall"}
    /\ End
    /\ ticker' = Off /\ sinkUp' = FALSE
    /\ UNCHANGED <<settingsVars, message, calls, signal, activityVars, gateVars>>
    /\ UNCHANGED <<lastForward, hostQuiet>>

-----------------------------------------------------------------------------
(* waitTurnSignal: pc is "check" at the head of its loop. *)

ArmGateTimer ==
    /\ pc = "check" /\ gated > 0
    /\ pc' = "gateWait" /\ timer' = gateWindow
    /\ UNCHANGED <<settingsVars, message, calls, tries, signal, activityVars, gateVars, hostVars>>

ArmBaseTimer ==
    /\ pc = "check" /\ gated <= 0 /\ silence < window
    /\ pc' = "baseWait" /\ timer' = window - silence
    /\ UNCHANGED <<settingsVars, message, calls, tries, signal, activityVars, gateVars, hostVars>>

StreamStalls ==
    /\ pc = "check" /\ gated <= 0 /\ silence >= window
    /\ CallStalls
    /\ UNCHANGED <<settingsVars, message, signal, activityVars, gateVars, hostVars>>

(* The expiry of the base timer decides nothing yet.                       *)
BaseTimerFires ==
    /\ pc = "baseWait" /\ timer = 0
    /\ pc' = "check"
    /\ UNCHANGED <<settingsVars, message, calls, tries, timer, signal>>
    /\ UNCHANGED <<activityVars, gateVars, hostVars>>

(* Mutant: the gate timer is armed again, like the base timer. *)
GateTimerFires ==
    /\ pc = "gateWait" /\ timer = 0
    /\ pc' = "check"
    /\ UNCHANGED <<settingsVars, message, calls, tries, timer, signal>>
    /\ UNCHANGED <<activityVars, gateVars, hostVars>>

GateStalls ==
    /\ pc = "gateWait" /\ timer = 0
    /\ CallStalls
    /\ UNCHANGED <<settingsVars, message, signal, activityVars, gateVars, hostVars>>

WakeUp ==
    /\ pc \in {"baseWait", "gateWait"} /\ token
    /\ token' = FALSE
    /\ pc' = "check" /\ timer' = 0
    /\ UNCHANGED <<settingsVars, message, calls, tries, signal, silence, quiet>>
    /\ UNCHANGED <<gateVars, hostVars>>

(* The turn ended.  An idle is drained before awaitOutcome reprompts or    *)
(* ends the Execute; an error without an idle behind it ends it undrained. *)
TurnEnds ==
    /\ pc \in {"baseWait", "gateWait"} /\ signal
    /\ signal' = FALSE
    /\ \/ closeAllToolGates /\ Send("reprompt", 0)
       \/ /\ closeAllToolGates /\ End
          /\ IF toolGates # {} THEN markActivity /\ SignOfLife ELSE UNCHANGED activityVars
          /\ UNCHANGED message
       \/ End /\ UNCHANGED <<message, activityVars, gated, toolGates, running>>
    /\ UNCHANGED <<settingsVars, calls, handler, wait, hostVars>>

-----------------------------------------------------------------------------
(* The event handler.  It handles one event at a time. *)

HandlerReady == pc # "idle" /\ \A t \in Tools : handler[t] = "none"

Heard ==
    /\ HandlerReady
    /\ markActivity /\ SignOfLife

(* The sink takes the event and the clock is stamped, or sendErr ends the  *)
(* turn.                                                                   *)
Forward ==
    IF sinkUp
    THEN lastForward' = 0 /\ hostQuiet' = 0 /\ UNCHANGED signal
    ELSE signal' = TRUE /\ UNCHANGED <<lastForward, hostQuiet>>

(* An event that is forwarded to the host.                                 *)
HearMessage ==
    /\ Heard
    /\ Forward
    /\ UNCHANGED <<settingsVars, loopVars, gateVars, ticker, sinkUp>>

(* Mutant: it counts as forwarded. *)
HearProgressAsForward ==
    /\ Heard
    /\ lastForward' = 0
    /\ UNCHANGED <<settingsVars, loopVars, signal, gateVars, ticker, sinkUp, hostQuiet>>

(* One that is not, such as tool.execution_progress.                       *)
HearProgress ==
    /\ Heard
    /\ UNCHANGED <<settingsVars, loopVars, signal, gateVars, hostVars>>

(* session.idle, session.error and session.shutdown end the turn.          *)
HearEnd ==
    /\ Heard
    /\ signal' = TRUE
    /\ UNCHANGED <<settingsVars, loopVars, gateVars, hostVars>>

(* tool.execution_start and tool.execution_complete.                       *)
HearStart(t) ==
    /\ Heard
    /\ handler' = [handler EXCEPT ![t] = "start"]
    /\ UNCHANGED <<settingsVars, loopVars, signal, gated, toolGates, wait, running, hostVars>>

HearComplete(t) ==
    /\ Heard
    /\ handler' = [handler EXCEPT ![t] = "complete"]
    /\ running' = running \ {t}
    /\ UNCHANGED <<settingsVars, loopVars, signal, gated, toolGates, wait, hostVars>>

openToolGate(t) ==
    /\ handler[t] = "start"
    /\ handler' = [handler EXCEPT ![t] = "none"]
    /\ running' = running \cup {t}
    /\ IF t \in toolGates
       THEN UNCHANGED <<toolGates, gated, activityVars>>
       ELSE toolGates' = toolGates \cup {t} /\ BeginGate
    /\ UNCHANGED <<settingsVars, loopVars, signal, wait, hostVars>>

(* Mutant: the entry stays in the map. *)
ReleaseOnly(t) ==
    /\ handler[t] = "complete"
    /\ handler' = [handler EXCEPT ![t] = IF t \in toolGates THEN "taken" ELSE "none"]
    /\ UNCHANGED <<settingsVars, loopVars, signal, activityVars, toolGates, gated>>
    /\ UNCHANGED <<wait, running, hostVars>>

(* Remove the gate under toolGateMu; the release follows outside it.       *)
closeToolGate(t) ==
    /\ handler[t] = "complete"
    /\ handler' = [handler EXCEPT ![t] = IF t \in toolGates THEN "taken" ELSE "none"]
    /\ toolGates' = toolGates \ {t}
    /\ UNCHANGED <<settingsVars, loopVars, signal, activityVars, gated, wait, running, hostVars>>

ReleaseToolGate(t) ==
    \/ /\ handler[t] = "taken"
       /\ handler' = [handler EXCEPT ![t] = "dropped"]
       /\ DropGate
       /\ UNCHANGED <<silence, token>>
       /\ UNCHANGED <<settingsVars, loopVars, signal, toolGates, wait, running, hostVars>>
    \/ /\ handler[t] = "dropped"
       /\ handler' = [handler EXCEPT ![t] = "none"]
       /\ markActivity
       /\ UNCHANGED <<settingsVars, loopVars, signal, quiet, gated, toolGates>>
       /\ UNCHANGED <<wait, running, hostVars>>

-----------------------------------------------------------------------------
(* handlePermissionRequest and handleAdapterToolCall, as far as they hold  *)
(* a gate.  They may ask in one Execute and answer in another.             *)

AskHost(x) ==
    /\ wait[x] = "none" /\ pc # "idle" /\ sinkUp
    /\ wait' = [wait EXCEPT ![x] = "asked"]
    /\ lastForward' = 0 /\ hostQuiet' = 0
    /\ UNCHANGED <<settingsVars, loopVars, signal, activityVars, gated, toolGates>>
    /\ UNCHANGED <<handler, running, ticker, sinkUp>>

OpenWait(x) ==
    /\ wait[x] = "asked"
    /\ wait' = [wait EXCEPT ![x] = "held"]
    /\ BeginGate
    /\ UNCHANGED <<settingsVars, loopVars, signal, toolGates, handler, running, hostVars>>

(* The host has decided, or the callback gives up. *)
EndWait(x) ==
    /\ wait[x] = "held"
    /\ wait' = [wait EXCEPT ![x] = "dropped"]
    /\ DropGate
    /\ UNCHANGED <<settingsVars, loopVars, signal, silence, token, toolGates, handler>>
    /\ UNCHANGED <<running, hostVars>>

LeaveWait(x) ==
    /\ wait[x] = "dropped"
    /\ wait' = [wait EXCEPT ![x] = "none"]
    /\ markActivity
    /\ UNCHANGED <<settingsVars, loopVars, signal, quiet, gated, toolGates, handler>>
    /\ UNCHANGED <<running, hostVars>>

-----------------------------------------------------------------------------
(* The liveness ticker. *)

(* Mutant: a tick counts as provider activity. *)
TickMarks ==
    /\ ticker = 0
    /\ \/ lastForward < TickInterval /\ UNCHANGED <<lastForward, hostQuiet, silence, token>>
       \/ lastForward >= TickInterval /\ lastForward' = 0 /\ hostQuiet' = 0 /\ markActivity
    /\ ticker' = CheckInterval
    /\ UNCHANGED <<settingsVars, loopVars, signal, quiet, gateVars, sinkUp>>

(* sendLivenessTick; a sink that refuses the tick stops the ticker.        *)
CheckLiveness ==
    /\ ticker = 0
    /\ \/ /\ lastForward < TickInterval
          /\ ticker' = CheckInterval
          /\ UNCHANGED <<lastForward, hostQuiet>>
       \/ /\ lastForward >= TickInterval /\ sinkUp
          /\ ticker' = CheckInterval
          /\ lastForward' = 0 /\ hostQuiet' = 0
       \/ /\ lastForward >= TickInterval /\ ~sinkUp
          /\ ticker' = Off
          /\ UNCHANGED <<lastForward, hostQuiet>>
    /\ UNCHANGED <<settingsVars, loopVars, signal, activityVars, gateVars, sinkUp>>

SinkBreaks ==
    /\ pc # "idle" /\ sinkUp
    /\ sinkUp' = FALSE
    /\ UNCHANGED <<settingsVars, loopVars, signal, activityVars, gateVars>>
    /\ UNCHANGED <<lastForward, ticker, hostQuiet>>

-----------------------------------------------------------------------------
(* Time. *)

(* A step of the adapter can be taken at once. *)
Busy ==
    \/ pc \in {"call", "check"}
    \/ pc \in Timed /\ timer = 0
    \/ pc \in {"baseWait", "gateWait"} /\ (token \/ signal)
    \/ \E t \in Tools : handler[t] # "none"
    \/ \E x \in Waits : wait[x] \in {"asked", "dropped"}
    \/ ticker = 0

Older(age) == IF age < Horizon THEN age + 1 ELSE age

(* Between Executes time has no effect: Begin and the first send restart   *)
(* every clock.                                                            *)
Tick ==
    /\ pc # "idle" /\ ~Busy
    /\ silence' = Older(silence) /\ quiet' = Older(quiet)
    /\ lastForward' = Older(lastForward) /\ hostQuiet' = Older(hostQuiet)
    /\ timer' = IF pc \in Timed THEN timer - 1 ELSE timer
    /\ ticker' = IF ticker = Off THEN Off ELSE ticker - 1
    /\ UNCHANGED <<settingsVars, pc, message, calls, tries, signal, token>>
    /\ UNCHANGED <<gateVars, sinkUp>>

-----------------------------------------------------------------------------

Goroutine ==
    \/ StartCall \/ SendStalls
    \/ ArmGateTimer \/ ArmBaseTimer \/ StreamStalls
    \/ BaseTimerFires \/ GateStalls \/ WakeUp \/ TurnEnds

HandlerGoesOn(t) == openToolGate(t) \/ closeToolGate(t) \/ ReleaseToolGate(t)

WaitGoesOn(x) == OpenWait(x) \/ LeaveWait(x)

Adapter ==
    \/ Goroutine \/ CheckLiveness
    \/ \E t \in Tools : HandlerGoesOn(t)
    \/ \E x \in Waits : WaitGoesOn(x)

(* What the CLI does of its own accord while it is prompted. *)
ProviderActs ==
    \/ HearMessage \/ HearProgress \/ HearEnd
    \/ \E t \in Tools : HearStart(t) \/ HearComplete(t)
    \/ \E x \in Waits : AskHost(x)

WatchNext ==
    \/ Begin \/ SetupReturns \/ RestoreReturns \/ SendAnswers \/ RecoveryReturns \/ Cancel
    \/ Adapter \/ ProviderActs
    \/ \E x \in Waits : EndWait(x)
    \/ SinkBreaks
    \/ Tick

WatchSpec == WatchInit /\ [][WatchNext]_watchVars

(* Time passes and the adapter's goroutines run.  Neither the CLI nor the  *)
(* host owes anything.                                                     *)
WatchFairSpec ==
    /\ WatchSpec
    /\ WF_watchVars(Goroutine) /\ WF_watchVars(CheckLiveness) /\ WF_watchVars(Tick)
    /\ \A t \in Tools : WF_watchVars(HandlerGoesOn(t))
    /\ \A x \in Waits : WF_watchVars(WaitGoesOn(x))

-----------------------------------------------------------------------------
(* Properties. *)

(* Type invariant of the timers, clocks and gates. *)
WatchTypeOK ==
    /\ window \in Nat \ {0} /\ gateWindow \in Nat \ {0}
    /\ pc \in {"idle", "call", "check"} \cup Timed \cup Unsupervised
    /\ message \in {"prompt", "reprompt"}
    /\ calls \in 0..(MaxCallAttempts - 1) /\ tries \in 0..(RetryMaxAttempts - 1)
    /\ timer \in 0..gateWindow
    /\ signal \in BOOLEAN /\ token \in BOOLEAN /\ sinkUp \in BOOLEAN
    /\ {silence, quiet, lastForward, hostQuiet} \subseteq 0..Horizon
    /\ gated \in Nat
    /\ toolGates \subseteq Tools /\ running \subseteq Tools
    /\ handler \in [Tools -> {"none", "start", "complete", "taken", "dropped"}]
    /\ wait \in [Waits -> {"none", "asked", "held", "dropped"}]
    /\ ticker \in {Off} \cup 0..CheckInterval

(* gatedWaits counts the gates that are held: no release is lost or done   *)
(* twice, whether the completion, the callback or the drain of an idle or  *)
(* of the next call gets there first.  A lost one would stretch every later wait, a    *)
(* second one would hide a gate (copilot_watchdog.go:299-352).             *)
GatesAccounted ==
    gated = Cardinality(toolGates)
            + Cardinality({t \in Tools : handler[t] = "taken"})
            + Cardinality({x \in Waits : wait[x] = "held"})

(* "a stream that opens and then goes silent for watchdogWindow is failed" *)
(* and "a gate-held wait may be silent for up to watchdogGateWindow"       *)
(* (copilot_watchdog.go): a call is not waited for beyond that.  The gate  *)
(* timer runs from when the wait began, which a gate opened before Send    *)
(* answered may have preceded by as much as a window.                      *)
QuietCallIsAbandoned ==
    /\ pc \in {"send", "check", "baseWait"} => quiet <= window
    /\ pc = "gateWait" => quiet <= window + gateWindow

(* "its gate must not leak into the next attempt" (closeAllToolGates): the *)
(* longer ceiling is granted only while a tool runs that began in this     *)
(* turn of this call, or a callback waits for the host.                    *)
GateBelongsToCall ==
    pc = "gateWait" /\ quiet > window
        => running # {} \/ \E x \in Waits : wait[x] = "held"

(* "worst-case tick latency is livenessTickInterval plus this cadence"     *)
(* (copilot_liveness.go): while the Execute runs, setup, recovery and      *)
(* backoff included, and the host takes its events, it gets one that often.*)
HostSilenceBounded ==
    pc # "idle" /\ sinkUp => hostQuiet <= TickInterval + CheckInterval

(* A release is half done: the gate is gone, activity is not yet marked.   *)
HalfReleased ==
    \/ \E t \in Tools : handler[t] = "dropped"
    \/ \E x \in Waits : wait[x] = "dropped"

(* A stall is not declared against a call that lives: the stream was       *)
(* silent for a window, no tool that began since the last drain runs and   *)
(* no callback waits; or a gate was held for a gate window of silence      *)
(* (waitTurnSignal).  The code has two races against a sign of life of the *)
(* same instant, and they are all that is excepted: the gate of a release  *)
(* is gone before its activity is marked (beginWatchdogGate), and select   *)
(* takes the expired gate timer though the token is there.                 *)
StallMeansSilence ==
    [][/\ StreamStalls => /\ quiet >= window \/ (quiet = 0 /\ HalfReleased)
                          /\ running = {} /\ \A x \in Waits : wait[x] # "held"
       /\ GateStalls => quiet >= gateWindow \/ (quiet = 0 /\ (token \/ HalfReleased))]_watchVars

(* An Execute whose provider falls silent ends: it can stay only where the *)
(* watchdog does not look.                                                 *)
SilentCallEnds ==
    []<><<ProviderActs>>_watchVars \/ []<>(pc = "idle") \/ <>[](pc \in Unsupervised)

=============================================================================
