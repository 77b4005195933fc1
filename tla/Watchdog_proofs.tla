--------------------------- MODULE Watchdog_proofs ---------------------------
(* What holds of the watchdog for every choice of windows, intervals and   *)
(* budgets, and for any number of tools and callbacks.                     *)
EXTENDS Watchdog, FiniteSetTheorems, TLAPS

Taken == {t \in Tools : handler[t] = "taken"}
Held == {x \in Waits : wait[x] = "held"}

(* The windows are as parseWatchdogSettings leaves them. *)
WindowsInPlace ==
    /\ window \in Nat \ {0} /\ gateWindow \in Nat \ {0}
    /\ window <= gateWindow /\ gateWindow <= Horizon

LoopTypes ==
    /\ pc \in {"idle", "call", "check"} \cup Timed \cup Unsupervised
    /\ message \in {"prompt", "reprompt"}
    /\ calls \in 0..(MaxCallAttempts - 1) /\ tries \in 0..(RetryMaxAttempts - 1)
    /\ timer \in 0..gateWindow
    /\ signal \in BOOLEAN

ActivityTypes ==
    token \in BOOLEAN /\ silence \in 0..Horizon /\ quiet \in 0..Horizon

GateTypes ==
    /\ gated \in Nat
    /\ toolGates \subseteq Tools /\ running \subseteq Tools
    /\ handler \in [Tools -> {"none", "start", "complete", "taken", "dropped"}]
    /\ wait \in [Waits -> {"none", "asked", "held", "dropped"}]

HostTypes ==
    /\ lastForward \in 0..Horizon /\ hostQuiet \in 0..Horizon
    /\ ticker \in {Off} \cup 0..CheckInterval
    /\ sinkUp \in BOOLEAN

(* A gate belongs to a tool that runs, or whose completion is handled. *)
GatesOfRunning ==
    /\ running \subseteq toolGates
    /\ \A t \in toolGates : t \in running \/ handler[t] = "complete"
    /\ \A t \in running : handler[t] # "complete"

(* The clock does not pass over a step that is due, so what is under way   *)
(* began at this instant; and then silence and quiet may differ.           *)
NoTimeLost ==
    /\ \A t \in Tools : handler[t] # "none" => quiet = 0
    /\ \A x \in Waits : wait[x] = "dropped" => quiet = 0
    /\ quiet = silence \/ HalfReleased

(* How long each wait has been quiet, against what its timer has left. *)
WaitsBounded ==
    /\ pc \in {"send", "baseWait"} => quiet + timer <= window
    /\ pc = "check" => quiet <= window
    /\ pc = "gateWait" => quiet + timer <= window + gateWindow
    /\ pc = "gateWait" /\ token => quiet <= window

(* A wait with the longer timer has a gate, or is about to be woken; and   *)
(* its timer runs at most for the time the call has been quiet.            *)
GateWaits ==
    pc = "gateWait" =>
        /\ toolGates # {} \/ Taken # {} \/ Held # {} \/ HalfReleased \/ token
        /\ quiet + timer >= gateWindow \/ (quiet = 0 /\ (HalfReleased \/ token))

(* The ticker lives as long as the host takes events. *)
TickerLives ==
    /\ hostQuiet = lastForward
    /\ pc # "idle" /\ sinkUp => /\ ticker # Off
                                /\ hostQuiet + ticker <= TickInterval + CheckInterval

GatesInv == GateTypes /\ GatesAccounted /\ GatesOfRunning
LoopInv == WindowsInPlace /\ LoopTypes
TimeInv == ActivityTypes /\ NoTimeLost /\ WaitsBounded /\ GateWaits
HostInv == HostTypes /\ TickerLives

WatchInv == GatesInv /\ LoopInv /\ TimeInv /\ HostInv

-----------------------------------------------------------------------------
(* Gates. *)

LEMMA GateSetsFinite ==
    ASSUME GateTypes
    PROVE  /\ IsFiniteSet(toolGates) /\ IsFiniteSet(Taken) /\ IsFiniteSet(Held)
           /\ Cardinality(toolGates) \in Nat /\ Cardinality(Taken) \in Nat
           /\ Cardinality(Held) \in Nat
<1>1. IsFiniteSet(toolGates) /\ IsFiniteSet(Taken) /\ IsFiniteSet(Held)
  BY WatchdogAssumption, FS_Subset DEF GateTypes, Taken, Held
<1> QED
  BY <1>1, FS_CardinalityType

(* A tool goes on to another point of its handler, and no other does. *)
LEMMA HandlerMoves ==
    ASSUME GateTypes, NEW t \in Tools,
           NEW point \in {"none", "start", "complete", "taken", "dropped"},
           handler' = [handler EXCEPT ![t] = point]
    PROVE  /\ handler' \in [Tools -> {"none", "start", "complete", "taken", "dropped"}]
           /\ \A u \in Tools : handler'[u] = IF u = t THEN point ELSE handler[u]
           /\ Taken' = IF point = "taken" THEN Taken \cup {t} ELSE Taken \ {t}
<1>1. /\ handler' \in [Tools -> {"none", "start", "complete", "taken", "dropped"}]
      /\ \A u \in Tools : handler'[u] = IF u = t THEN point ELSE handler[u]
  BY DEF GateTypes
<1>2. Taken' = IF point = "taken" THEN Taken \cup {t} ELSE Taken \ {t}
  BY <1>1 DEF Taken
<1> QED
  BY <1>1, <1>2

LEMMA WaitMoves ==
    ASSUME GateTypes, NEW x \in Waits, NEW point \in {"none", "asked", "held", "dropped"},
           wait' = [wait EXCEPT ![x] = point]
    PROVE  /\ wait' \in [Waits -> {"none", "asked", "held", "dropped"}]
           /\ \A y \in Waits : wait'[y] = IF y = x THEN point ELSE wait[y]
           /\ Held' = IF point = "held" THEN Held \cup {x} ELSE Held \ {x}
<1>1. /\ wait' \in [Waits -> {"none", "asked", "held", "dropped"}]
      /\ \A y \in Waits : wait'[y] = IF y = x THEN point ELSE wait[y]
  BY DEF GateTypes
<1>2. Held' = IF point = "held" THEN Held \cup {x} ELSE Held \ {x}
  BY <1>1 DEF Held
<1> QED
  BY <1>1, <1>2

LEMMA Accounted ==
    GatesAccounted <=> gated = Cardinality(toolGates) + Cardinality(Taken) + Cardinality(Held)
BY DEF GatesAccounted, Taken, Held

LEMMA AccountedNext ==
    GatesAccounted' <=>
        gated' = Cardinality(toolGates') + Cardinality(Taken') + Cardinality(Held')
BY DEF GatesAccounted, Taken, Held

LEMMA DrainGates ==
    ASSUME GatesInv, closeAllToolGates, UNCHANGED <<handler, wait>>
    PROVE  GatesInv'
<1>1. /\ toolGates' = {} /\ running' = {} /\ gated' = gated - Cardinality(toolGates)
      /\ UNCHANGED <<handler, wait>>
  BY DEF closeAllToolGates
<1>2. Taken' = Taken /\ Held' = Held /\ Cardinality({}) = 0
  BY <1>1, FS_EmptySet DEF Taken, Held
<1>3. gated' = 0 + Cardinality(Taken) + Cardinality(Held) /\ gated' \in Nat
  BY <1>1, GateSetsFinite, Accounted DEF GatesInv
<1>4. GatesAccounted'
  BY <1>1, <1>2, <1>3, AccountedNext
<1>5. GateTypes'
  BY <1>1, <1>3 DEF GatesInv, GateTypes
<1>6. GatesOfRunning'
  BY <1>1 DEF GatesOfRunning
<1> QED
  BY <1>4, <1>5, <1>6 DEF GatesInv

LEMMA HearToolGates ==
    ASSUME GatesInv, NEW t \in Tools, HearStart(t) \/ HearComplete(t)
    PROVE  GatesInv'
<1>1. PICK point \in {"start", "complete"} :
          /\ handler' = [handler EXCEPT ![t] = point]
          /\ running' = IF point = "start" THEN running ELSE running \ {t}
  BY DEF HearStart, HearComplete
<1>2. UNCHANGED <<gated, toolGates, wait>> /\ handler[t] = "none"
  BY DEF HearStart, HearComplete, Heard, HandlerReady
<1>3. /\ handler' \in [Tools -> {"none", "start", "complete", "taken", "dropped"}]
      /\ \A u \in Tools : handler'[u] = IF u = t THEN point ELSE handler[u]
      /\ Taken' = Taken \ {t}
  BY <1>1, HandlerMoves DEF GatesInv
<1>4. Taken' = Taken /\ Held' = Held
  BY <1>2, <1>3 DEF Taken, Held
<1>5. GatesAccounted'
  BY <1>2, <1>4, Accounted, AccountedNext DEF GatesInv
<1>6. GateTypes'
  BY <1>1, <1>2, <1>3 DEF GatesInv, GateTypes
<1>7. GatesOfRunning'
  BY <1>1, <1>2, <1>3 DEF GatesInv, GateTypes, GatesOfRunning
<1> QED
  BY <1>5, <1>6, <1>7 DEF GatesInv

LEMMA OpenToolGates ==
    ASSUME GatesInv, NEW t \in Tools, openToolGate(t)
    PROVE  GatesInv'
<1>1. /\ handler[t] = "start" /\ handler' = [handler EXCEPT ![t] = "none"]
      /\ running' = running \cup {t} /\ toolGates' = toolGates \cup {t}
      /\ gated' = IF t \in toolGates THEN gated ELSE gated + 1
      /\ UNCHANGED wait
  BY DEF openToolGate, BeginGate, activityVars
<1>2. /\ handler' \in [Tools -> {"none", "start", "complete", "taken", "dropped"}]
      /\ \A u \in Tools : handler'[u] = IF u = t THEN "none" ELSE handler[u]
      /\ Taken' = Taken \ {t}
  BY <1>1, HandlerMoves DEF GatesInv
<1>3. Taken' = Taken /\ Held' = Held
  BY <1>1, <1>2 DEF Taken, Held
<1>4. Cardinality(toolGates') = IF t \in toolGates THEN Cardinality(toolGates)
                                ELSE Cardinality(toolGates) + 1
  BY <1>1, GateSetsFinite, FS_AddElement DEF GatesInv
<1>5. GatesAccounted'
  BY <1>1, <1>3, <1>4, GateSetsFinite, Accounted, AccountedNext DEF GatesInv
<1>6. GateTypes'
  BY <1>1, <1>2 DEF GatesInv, GateTypes
<1>7. GatesOfRunning'
  BY <1>1, <1>2 DEF GatesInv, GateTypes, GatesOfRunning
<1> QED
  BY <1>5, <1>6, <1>7 DEF GatesInv

LEMMA CloseToolGates ==
    ASSUME GatesInv, NEW t \in Tools, closeToolGate(t)
    PROVE  GatesInv'
<1> DEFINE point == IF t \in toolGates THEN "taken" ELSE "none"
<1>1. /\ handler[t] = "complete" /\ handler' = [handler EXCEPT ![t] = point]
      /\ toolGates' = toolGates \ {t}
      /\ UNCHANGED <<running, gated, wait>>
  BY DEF closeToolGate
<1>2. /\ handler' \in [Tools -> {"none", "start", "complete", "taken", "dropped"}]
      /\ \A u \in Tools : handler'[u] = IF u = t THEN point ELSE handler[u]
      /\ Taken' = IF point = "taken" THEN Taken \cup {t} ELSE Taken \ {t}
  BY <1>1, HandlerMoves DEF GatesInv
<1>3. Held' = Held /\ t \notin Taken
  BY <1>1 DEF Taken, Held
<1>4. /\ Cardinality(toolGates') = IF t \in toolGates THEN Cardinality(toolGates) - 1
                                   ELSE Cardinality(toolGates)
      /\ Cardinality(Taken') = IF t \in toolGates THEN Cardinality(Taken) + 1
                               ELSE Cardinality(Taken)
  <2>1. CASE t \in toolGates
    BY <1>1, <1>2, <1>3, <2>1, GateSetsFinite, FS_AddElement, FS_RemoveElement DEF GatesInv
  <2>2. CASE t \notin toolGates
    <3>1. toolGates' = toolGates /\ Taken' = Taken
      BY <1>1, <1>2, <1>3, <2>2
    <3> QED BY <3>1, <2>2
  <2> QED BY <2>1, <2>2
<1>5. GatesAccounted'
  BY <1>1, <1>3, <1>4, GateSetsFinite, Accounted, AccountedNext DEF GatesInv
<1>6. GateTypes'
  BY <1>1, <1>2 DEF GatesInv, GateTypes
<1>7. GatesOfRunning'
  BY <1>1, <1>2 DEF GatesInv, GateTypes, GatesOfRunning
<1> QED
  BY <1>5, <1>6, <1>7 DEF GatesInv

LEMMA ReleaseGates ==
    ASSUME GatesInv, NEW t \in Tools, ReleaseToolGate(t)
    PROVE  GatesInv'
<1>1. PICK point \in {"none", "dropped"} :
          /\ handler' = [handler EXCEPT ![t] = point]
          /\ handler[t] = IF point = "dropped" THEN "taken" ELSE "dropped"
          /\ gated' = IF point = "dropped" THEN gated - 1 ELSE gated
  BY DEF ReleaseToolGate, DropGate
<1>2. UNCHANGED <<toolGates, running, wait>>
  BY DEF ReleaseToolGate
<1>3. /\ handler' \in [Tools -> {"none", "start", "complete", "taken", "dropped"}]
      /\ \A u \in Tools : handler'[u] = IF u = t THEN point ELSE handler[u]
      /\ Taken' = Taken \ {t}
  BY <1>1, HandlerMoves DEF GatesInv
<1>4. Held' = Held /\ (t \in Taken <=> point = "dropped")
  BY <1>1, <1>2 DEF Taken, Held
<1>5. Cardinality(Taken') = IF point = "dropped" THEN Cardinality(Taken) - 1 ELSE Cardinality(Taken)
  BY <1>3, <1>4, GateSetsFinite, FS_RemoveElement DEF GatesInv
<1>6. GatesAccounted' /\ gated' \in Nat
  <2>1. IsFiniteSet(Taken') /\ Cardinality(Taken') \in Nat
    BY <1>3, GateSetsFinite, FS_Subset, FS_CardinalityType DEF GatesInv
  <2> QED
    BY <1>1, <1>2, <1>4, <1>5, <2>1, GateSetsFinite, Accounted, AccountedNext DEF GatesInv
<1>7. GateTypes'
  BY <1>2, <1>3, <1>6 DEF GatesInv, GateTypes
<1>8. GatesOfRunning'
  BY <1>1, <1>2, <1>3 DEF GatesInv, GateTypes, GatesOfRunning
<1> QED
  BY <1>6, <1>7, <1>8 DEF GatesInv

LEMMA WaitGates ==
    ASSUME GatesInv, NEW x \in Waits,
           AskHost(x) \/ OpenWait(x) \/ EndWait(x) \/ LeaveWait(x)
    PROVE  GatesInv'
<1>1. PICK point \in {"none", "asked", "held", "dropped"} :
          /\ wait' = [wait EXCEPT ![x] = point]
          /\ point = "dropped" <=> wait[x] = "held"
          /\ gated' = IF point = "held" THEN gated + 1
                      ELSE IF point = "dropped" THEN gated - 1 ELSE gated
  BY DEF AskHost, OpenWait, EndWait, LeaveWait, BeginGate, DropGate
<1>2. UNCHANGED <<toolGates, running, handler>>
  BY DEF AskHost, OpenWait, EndWait, LeaveWait
<1>3. /\ wait' \in [Waits -> {"none", "asked", "held", "dropped"}]
      /\ \A y \in Waits : wait'[y] = IF y = x THEN point ELSE wait[y]
      /\ Held' = IF point = "held" THEN Held \cup {x} ELSE Held \ {x}
  BY <1>1, WaitMoves DEF GatesInv
<1>4. Taken' = Taken /\ (x \in Held <=> point = "dropped")
  BY <1>1, <1>2 DEF Taken, Held
<1>5. /\ IsFiniteSet(Held') /\ Cardinality(Held') \in Nat
      /\ Cardinality(Held') = IF point = "held" THEN Cardinality(Held) + 1
                              ELSE IF point = "dropped" THEN Cardinality(Held) - 1
                              ELSE Cardinality(Held)
  <2>1. IsFiniteSet(Held)
    BY GateSetsFinite DEF GatesInv
  <2>2. CASE point = "held"
    BY <1>3, <1>4, <2>1, <2>2, FS_AddElement, FS_CardinalityType
  <2>3. CASE point # "held"
    <3>1. Held' = Held \ {x}
      BY <1>3, <2>3
    <3>2. IsFiniteSet(Held') /\ Cardinality(Held') \in Nat
      BY <3>1, <2>1, FS_Subset, FS_CardinalityType
    <3>3. Cardinality(Held') = IF x \in Held THEN Cardinality(Held) - 1 ELSE Cardinality(Held)
      BY <3>1, <2>1, FS_RemoveElement
    <3> QED BY <3>2, <3>3, <1>4, <2>3
  <2> QED BY <2>2, <2>3
<1>6. GatesAccounted' /\ gated' \in Nat
  BY <1>1, <1>2, <1>4, <1>5, GateSetsFinite, Accounted, AccountedNext DEF GatesInv
<1>7. GateTypes'
  BY <1>2, <1>3, <1>6 DEF GatesInv, GateTypes
<1>8. GatesOfRunning'
  BY <1>2 DEF GatesInv, GatesOfRunning
<1> QED
  BY <1>6, <1>7, <1>8 DEF GatesInv

(* The goroutine's own steps touch no gate, but for the first of a call    *)
(* and the end of a turn, which drain.                                     *)
LoopStep ==
    \/ Begin \/ SetupReturns \/ RestoreReturns \/ SendAnswers \/ RecoveryReturns \/ Cancel
    \/ SendStalls \/ ArmGateTimer \/ ArmBaseTimer \/ StreamStalls
    \/ BaseTimerFires \/ GateStalls \/ WakeUp

HostStep ==
    HearMessage \/ HearProgress \/ HearEnd \/ CheckLiveness \/ SinkBreaks

ToolStep(t) == HearStart(t) \/ HearComplete(t) \/ HandlerGoesOn(t)

WaitStep(x) == AskHost(x) \/ OpenWait(x) \/ EndWait(x) \/ LeaveWait(x)

LEMMA StepKinds ==
    ASSUME WatchNext
    PROVE  \/ LoopStep \/ StartCall \/ TurnEnds \/ HostStep \/ Tick
           \/ \E t \in Tools : ToolStep(t)
           \/ \E x \in Waits : WaitStep(x)
BY DEF WatchNext, Adapter, Goroutine, ProviderActs, HandlerGoesOn, WaitGoesOn,
       LoopStep, HostStep, ToolStep, WaitStep

LEMMA LoopKeepsGates == LoopStep => UNCHANGED gateVars
BY DEF LoopStep, Begin, SetupReturns, RestoreReturns, SendAnswers, RecoveryReturns, Cancel,
       SendStalls, ArmGateTimer, ArmBaseTimer, StreamStalls, BaseTimerFires, GateStalls,
       WakeUp

LEMMA HostKeepsGates == HostStep \/ Tick => UNCHANGED gateVars
BY DEF HostStep, HearMessage, HearProgress, HearEnd, CheckLiveness, SinkBreaks, Tick

LEMMA GatesKept == GatesInv /\ UNCHANGED gateVars => GatesInv'
BY DEF GatesInv, GateTypes, GatesAccounted, GatesOfRunning, gateVars

LEMMA GatesStep == GatesInv /\ [WatchNext]_watchVars => GatesInv'
<1> SUFFICES ASSUME GatesInv, [WatchNext]_watchVars PROVE GatesInv'
  OBVIOUS
<1>1. CASE LoopStep
  BY <1>1, LoopKeepsGates, GatesKept
<1>2. CASE HostStep \/ Tick
  BY <1>2, HostKeepsGates, GatesKept
<1>3. CASE StartCall
  BY <1>3, DrainGates DEF StartCall
<1>7. CASE TurnEnds
  <2>1. UNCHANGED <<handler, wait>> /\ (closeAllToolGates \/ UNCHANGED <<gated, toolGates, running>>)
    BY <1>7 DEF TurnEnds
  <2> QED BY <2>1, DrainGates, GatesKept DEF gateVars
<1>4. ASSUME NEW t \in Tools, ToolStep(t) PROVE GatesInv'
  BY <1>4, HearToolGates, OpenToolGates, CloseToolGates, ReleaseGates DEF ToolStep, HandlerGoesOn
<1>5. ASSUME NEW x \in Waits, WaitStep(x) PROVE GatesInv'
  BY <1>5, WaitGates DEF WaitStep
<1>6. CASE UNCHANGED watchVars
  BY <1>6, GatesKept DEF watchVars
<1> QED
  BY <1>1, <1>2, <1>3, <1>4, <1>5, <1>6, <1>7, StepKinds

-----------------------------------------------------------------------------
(* The loop. *)

(* What leaves the loop's variables alone. *)
LEMMA OthersKeepLoop ==
    ASSUME \/ HostStep
           \/ \E t \in Tools : ToolStep(t)
           \/ \E x \in Waits : WaitStep(x)
    PROVE  UNCHANGED <<settingsVars, loopVars>>
<1>1. HostStep => UNCHANGED <<settingsVars, loopVars>>
  BY DEF HostStep, HearMessage, HearProgress, HearEnd, CheckLiveness, SinkBreaks
<1>2. \A t \in Tools : ToolStep(t) => UNCHANGED <<settingsVars, loopVars>>
  BY DEF ToolStep, HearStart, HearComplete, HandlerGoesOn, openToolGate, closeToolGate,
         ReleaseToolGate
<1>3. \A x \in Waits : WaitStep(x) => UNCHANGED <<settingsVars, loopVars>>
  BY DEF WaitStep, AskHost, OpenWait, EndWait, LeaveWait
<1> QED BY <1>1, <1>2, <1>3

LEMMA StepKeepsWindows == WatchNext => UNCHANGED settingsVars
<1>1. LoopStep \/ StartCall \/ TurnEnds \/ Tick => UNCHANGED settingsVars
  BY DEF LoopStep, Begin, SetupReturns, RestoreReturns, SendAnswers, RecoveryReturns, Cancel,
         SendStalls, ArmGateTimer, ArmBaseTimer, StreamStalls, BaseTimerFires, GateStalls,
         WakeUp, TurnEnds, StartCall, Tick
<1> QED BY <1>1, OthersKeepLoop, StepKinds

LEMMA WindowsStep == WindowsInPlace /\ [WatchNext]_watchVars => WindowsInPlace'
BY StepKeepsWindows DEF WindowsInPlace, settingsVars, watchVars

(* How the goroutine leaves a state: by ending the Execute or for a       *)
(* recovery.                                                               *)
LEMMA StallMoves ==
    ASSUME LoopInv, CallStalls \/ SendFails
    PROVE  /\ pc' \in {"restore", "recoverCall", "recoverSend"}
           /\ calls' \in 0..(MaxCallAttempts - 1)
           /\ tries' \in 0..(RetryMaxAttempts - 1)
           /\ timer' = 0
BY WatchdogAssumption DEF CallStalls, SendFails, End, LoopInv, LoopTypes

LEMMA LoopTypesStep ==
    ASSUME LoopInv, TimeInv, WatchNext
    PROVE  LoopTypes'
<1> USE WatchdogAssumption DEF LoopInv, WindowsInPlace, LoopTypes, Timed, Unsupervised
<1>w. UNCHANGED <<window, gateWindow>>
  BY StepKeepsWindows DEF settingsVars
<1>1. CASE Begin
  <2>1. pc' = "setup" /\ calls' = 0 /\ signal' = FALSE /\ UNCHANGED <<message, tries, timer>>
    BY <1>1 DEF Begin
  <2>2. signal' \in BOOLEAN
    BY <2>1
  <2>3. calls' \in 0..(MaxCallAttempts - 1)
    BY <2>1
  <2> QED BY <1>w, <2>1, <2>2, <2>3
<1>2. CASE SetupReturns \/ RestoreReturns \/ Cancel
  BY <1>2, <1>w DEF SetupReturns, RestoreReturns, Cancel, End
<1>3. CASE StartCall \/ RecoveryReturns \/ TurnEnds
  <2>1. /\ pc' \in {"send", "call", "restore"} /\ UNCHANGED calls
        /\ message' \in {message, "prompt", "reprompt"} /\ tries' \in {tries, 0}
        /\ timer' \in {timer, window, 0}
    BY <1>3 DEF StartCall, RecoveryReturns, TurnEnds, Send, End
  <2>2. signal' = FALSE \/ signal' = signal
    BY <1>3 DEF StartCall, RecoveryReturns, TurnEnds
  <2>3. signal' \in BOOLEAN
    BY <2>2
  <2>4. tries' \in 0..(RetryMaxAttempts - 1)
    BY <2>1
  <2> QED BY <1>w, <2>1, <2>3, <2>4
<1>4. CASE SendAnswers \/ SendStalls \/ StreamStalls \/ GateStalls
  <2>1. \/ CallStalls \/ SendFails
        \/ pc' = "check" /\ timer' = 0 /\ UNCHANGED <<calls, tries>>
        \/ End /\ UNCHANGED calls
    BY <1>4 DEF SendAnswers, SendStalls, StreamStalls, GateStalls
  <2>2. UNCHANGED <<message, signal>>
    BY <1>4 DEF SendAnswers, SendStalls, StreamStalls, GateStalls
  <2> QED BY <1>w, <2>1, <2>2, StallMoves DEF End
<1>5. CASE ArmGateTimer \/ ArmBaseTimer
  BY <1>5, <1>w DEF ArmGateTimer, ArmBaseTimer, TimeInv, ActivityTypes
<1>6. CASE BaseTimerFires \/ WakeUp
  BY <1>6, <1>w DEF BaseTimerFires, WakeUp
<1>7. CASE Tick
  <2>1. timer' = IF pc \in Timed THEN timer - 1 ELSE timer
    BY <1>7 DEF Tick
  <2>2. pc \in Timed => timer # 0
    BY <1>7 DEF Tick, Busy
  <2>3. UNCHANGED <<pc, message, calls, tries, signal>>
    BY <1>7 DEF Tick
  <2> QED BY <1>w, <2>1, <2>2, <2>3
<1>8. CASE \/ HostStep
           \/ \E t \in Tools : ToolStep(t)
           \/ \E x \in Waits : WaitStep(x)
  <2>1. UNCHANGED <<pc, message, calls, tries, timer>>
    BY <1>8, OthersKeepLoop DEF loopVars
  <2>2. HostStep => signal' \in BOOLEAN
    BY DEF HostStep, HearMessage, HearProgress, HearEnd, CheckLiveness, SinkBreaks, Forward,
           hostVars
  <2>3. \A t \in Tools : ToolStep(t) => UNCHANGED signal
    BY DEF ToolStep, HearStart, HearComplete, HandlerGoesOn, openToolGate, closeToolGate,
           ReleaseToolGate
  <2>4. \A x \in Waits : WaitStep(x) => UNCHANGED signal
    BY DEF WaitStep, AskHost, OpenWait, EndWait, LeaveWait
  <2> QED BY <1>8, <1>w, <2>1, <2>2, <2>3, <2>4
<1> QED
  BY <1>1, <1>2, <1>3, <1>4, <1>5, <1>6, <1>7, <1>8, StepKinds DEF LoopStep

LEMMA LoopInvStep == LoopInv /\ TimeInv /\ [WatchNext]_watchVars => LoopInv'
<1> SUFFICES ASSUME LoopInv, TimeInv, [WatchNext]_watchVars PROVE LoopInv'
  OBVIOUS
<1>1. CASE WatchNext
  BY <1>1, LoopTypesStep, WindowsStep DEF LoopInv
<1>2. CASE UNCHANGED watchVars
  BY <1>2 DEF LoopInv, WindowsInPlace, LoopTypes, watchVars, settingsVars, loopVars
<1> QED BY <1>1, <1>2

-----------------------------------------------------------------------------
(* The clock. *)

(* A sign of life that is marked, or one whose mark is still to come, or   *)
(* none.                                                                   *)
Marked == quiet' = 0 /\ silence' = 0 /\ token' = TRUE

DropsOne == quiet' = 0 /\ UNCHANGED <<silence, token>> /\ HalfReleased'

SomeGate == toolGates # {} \/ Taken # {} \/ Held # {}

Calm ==
    /\ UNCHANGED <<quiet, silence, token>>
    /\ \A t \in Tools : handler'[t] # "none" => handler[t] # "none"
    /\ \A x \in Waits : wait'[x] = "dropped" => wait[x] = "dropped"
    /\ HalfReleased => HalfReleased'
    /\ SomeGate => SomeGate'

LEMMA ToolActivity ==
    ASSUME GatesInv, TimeInv, NEW t \in Tools, ToolStep(t)
    PROVE  Marked \/ DropsOne \/ Calm
<1> DEFINE points == {"none", "start", "complete", "taken", "dropped"}
<1>h. ASSUME NEW point \in points, handler' = [handler EXCEPT ![t] = point]
      PROVE  \A u \in Tools : handler'[u] = IF u = t THEN point ELSE handler[u]
  BY <1>h DEF GatesInv, GateTypes
<1>1. CASE HearStart(t) \/ HearComplete(t)
  BY <1>1 DEF HearStart, HearComplete, Heard, markActivity, SignOfLife, Marked
<1>2. CASE openToolGate(t)
  <2>1. /\ handler[t] = "start" /\ handler' = [handler EXCEPT ![t] = "none"]
        /\ toolGates' = toolGates \cup {t} /\ UNCHANGED wait
    BY <1>2 DEF openToolGate
  <2>2. CASE t \in toolGates
    <3>1. UNCHANGED <<quiet, silence, token>>
      BY <1>2, <2>2 DEF openToolGate, activityVars
    <3>2. \A u \in Tools : handler'[u] = IF u = t THEN "none" ELSE handler[u]
      BY <2>1, <1>h
    <3>3. (HalfReleased => HalfReleased') /\ SomeGate'
      BY <2>1, <3>2 DEF HalfReleased, SomeGate
    <3> QED BY <2>1, <3>1, <3>2, <3>3 DEF Calm
  <2>3. CASE t \notin toolGates
    BY <1>2, <2>3 DEF openToolGate, BeginGate, markActivity, SignOfLife, Marked
  <2> QED BY <2>2, <2>3
<1>3. CASE closeToolGate(t)
  <2> DEFINE point == IF t \in toolGates THEN "taken" ELSE "none"
  <2>1. /\ handler[t] = "complete" /\ handler' = [handler EXCEPT ![t] = point]
        /\ toolGates' = toolGates \ {t} /\ UNCHANGED <<wait, quiet, silence, token>>
    BY <1>3 DEF closeToolGate, activityVars
  <2>2. \A u \in Tools : handler'[u] = IF u = t THEN point ELSE handler[u]
    BY <2>1, <1>h
  <2>3. HalfReleased => HalfReleased'
    BY <2>1, <2>2 DEF HalfReleased
  <2>4. SomeGate => SomeGate'
    <3>1. Held' = Held /\ Taken \subseteq Taken'
      BY <2>1, <2>2 DEF Held, Taken
    <3>2. t \in toolGates => t \in Taken'
      BY <2>1, <2>2 DEF Taken
    <3> QED BY <2>1, <3>1, <3>2 DEF SomeGate
  <2> QED BY <2>1, <2>2, <2>3, <2>4 DEF Calm
<1>4. CASE ReleaseToolGate(t)
  <2>1. CASE handler[t] = "taken"
    <3>1. /\ handler' = [handler EXCEPT ![t] = "dropped"]
          /\ quiet' = 0 /\ UNCHANGED <<silence, token>>
      BY <1>4, <2>1 DEF ReleaseToolGate, DropGate, SignOfLife
    <3>2. handler'[t] = "dropped"
      BY <3>1, <1>h
    <3> QED BY <3>1, <3>2 DEF DropsOne, HalfReleased
  <2>2. CASE handler[t] = "dropped"
    BY <1>4, <2>2 DEF ReleaseToolGate, markActivity, Marked, TimeInv, NoTimeLost
  <2> QED BY <1>4, <2>1, <2>2 DEF ReleaseToolGate
<1> QED
  BY <1>1, <1>2, <1>3, <1>4 DEF ToolStep, HandlerGoesOn

LEMMA WaitActivity ==
    ASSUME GatesInv, TimeInv, NEW x \in Waits, WaitStep(x)
    PROVE  Marked \/ DropsOne \/ Calm
<1>h. ASSUME NEW point \in {"none", "asked", "held", "dropped"}, wait' = [wait EXCEPT ![x] = point]
      PROVE  \A y \in Waits : wait'[y] = IF y = x THEN point ELSE wait[y]
  BY <1>h DEF GatesInv, GateTypes
<1>1. CASE AskHost(x)
  <2>1. /\ wait[x] = "none" /\ wait' = [wait EXCEPT ![x] = "asked"]
        /\ UNCHANGED <<handler, toolGates, quiet, silence, token>>
    BY <1>1 DEF AskHost, activityVars
  <2>2. \A y \in Waits : wait'[y] = IF y = x THEN "asked" ELSE wait[y]
    BY <2>1, <1>h
  <2>3. (HalfReleased => HalfReleased') /\ (SomeGate => SomeGate')
    BY <2>1, <2>2 DEF HalfReleased, SomeGate, Taken, Held
  <2> QED BY <2>1, <2>2, <2>3 DEF Calm
<1>2. CASE OpenWait(x)
  BY <1>2 DEF OpenWait, BeginGate, markActivity, SignOfLife, Marked
<1>3. CASE EndWait(x)
  <2>1. /\ wait' = [wait EXCEPT ![x] = "dropped"]
        /\ quiet' = 0 /\ UNCHANGED <<silence, token>>
    BY <1>3 DEF EndWait, DropGate, SignOfLife
  <2>2. wait'[x] = "dropped"
    BY <2>1, <1>h
  <2> QED BY <2>1, <2>2 DEF DropsOne, HalfReleased
<1>4. CASE LeaveWait(x)
  BY <1>4 DEF LeaveWait, markActivity, Marked, TimeInv, NoTimeLost
<1> QED
  BY <1>1, <1>2, <1>3, <1>4 DEF WaitStep

LEMMA HostActivity ==
    ASSUME HostStep
    PROVE  Marked \/ Calm
<1>1. CASE HearMessage \/ HearProgress \/ HearEnd
  BY <1>1 DEF HearMessage, HearProgress, HearEnd, Heard, markActivity, SignOfLife, Marked
<1>2. CASE CheckLiveness \/ SinkBreaks
  <2>1. UNCHANGED <<activityVars, gateVars>>
    BY <1>2 DEF CheckLiveness, SinkBreaks
  <2>2. UNCHANGED <<quiet, silence, token, handler, wait, toolGates>>
    BY <2>1 DEF activityVars, gateVars
  <2> QED BY <2>2 DEF Calm, HalfReleased, SomeGate, Taken, Held
<1> QED BY <1>1, <1>2 DEF HostStep

(* Whichever it is, the waits stay within their bounds. *)
LEMMA OthersTime ==
    ASSUME LoopInv, TimeInv, UNCHANGED <<settingsVars, loopVars>>, Marked \/ DropsOne \/ Calm
    PROVE  TimeInv'
<1>u. UNCHANGED <<window, gateWindow, pc, timer>>
  BY DEF settingsVars, loopVars
<1>r. /\ window \in Nat /\ gateWindow \in Nat /\ timer \in Nat /\ quiet \in Nat
  BY DEF LoopInv, WindowsInPlace, LoopTypes, TimeInv, ActivityTypes
<1>1. CASE Marked
  <2>1. ActivityTypes' /\ NoTimeLost'
    BY <1>1, WatchdogAssumption DEF Marked, ActivityTypes, NoTimeLost
  <2>2. WaitsBounded'
    BY <1>1, <1>u, <1>r DEF Marked, TimeInv, WaitsBounded
  <2>3. GateWaits'
    BY <1>1 DEF Marked, GateWaits
  <2> QED BY <2>1, <2>2, <2>3 DEF TimeInv
<1>2. CASE DropsOne
  <2>1. ActivityTypes' /\ NoTimeLost'
    BY <1>2, WatchdogAssumption DEF DropsOne, TimeInv, ActivityTypes, NoTimeLost
  <2>2. WaitsBounded'
    BY <1>2, <1>u, <1>r DEF DropsOne, TimeInv, WaitsBounded
  <2>3. GateWaits'
    BY <1>2 DEF DropsOne, GateWaits
  <2> QED BY <2>1, <2>2, <2>3 DEF TimeInv
<1>3. CASE Calm
  <2>1. ActivityTypes' /\ NoTimeLost'
    BY <1>3 DEF Calm, TimeInv, ActivityTypes, NoTimeLost
  <2>2. WaitsBounded'
    BY <1>3, <1>u DEF Calm, TimeInv, WaitsBounded
  <2>3. GateWaits'
    BY <1>3, <1>u DEF Calm, TimeInv, GateWaits, SomeGate
  <2> QED BY <2>1, <2>2, <2>3 DEF TimeInv
<1> QED BY <1>1, <1>2, <1>3

(* A send starts every clock again. *)
LEMMA SendTime ==
    ASSUME LoopInv, NEW what, NEW try, Send(what, try), UNCHANGED settingsVars
    PROVE  TimeInv'
<1>1. /\ pc' = "send" /\ timer' = window /\ quiet' = 0 /\ silence' = 0 /\ token' = TRUE
      /\ window' = window /\ window \in Nat
  BY DEF Send, markActivity, SignOfLife, settingsVars, LoopInv, WindowsInPlace
<1> QED
  BY <1>1, WatchdogAssumption DEF TimeInv, ActivityTypes, NoTimeLost, WaitsBounded, GateWaits

(* A goroutine that no longer waits has no bound to keep.                  *)
LEMMA LeftTime ==
    ASSUME TimeInv, UNCHANGED <<activityVars, gateVars>>,
           pc' \notin {"send", "baseWait", "check", "gateWait"}
    PROVE  TimeInv'
<1>1. UNCHANGED <<quiet, silence, token, handler, wait>>
  BY DEF activityVars, gateVars
<1> QED
  BY <1>1 DEF TimeInv, ActivityTypes, NoTimeLost, WaitsBounded, GateWaits, HalfReleased

LEMMA LoopTime ==
    ASSUME GatesInv, LoopInv, TimeInv, LoopStep
    PROVE  TimeInv'
<1>g. UNCHANGED gateVars
  BY LoopKeepsGates
<1>w. UNCHANGED settingsVars
  BY StepKeepsWindows DEF LoopStep, WatchNext, Adapter, Goroutine
<1>r. /\ window \in Nat /\ gateWindow \in Nat /\ gateWindow # 0 /\ timer \in Nat
      /\ quiet \in Nat /\ silence \in Nat
  BY DEF LoopInv, WindowsInPlace, LoopTypes, TimeInv, ActivityTypes
<1>k. /\ UNCHANGED <<window, gateWindow, handler, wait, toolGates, gated>>
      /\ Taken' = Taken /\ Held' = Held /\ HalfReleased' = HalfReleased
  BY <1>g, <1>w DEF settingsVars, gateVars, Taken, Held, HalfReleased
<1>1. CASE Begin \/ SetupReturns \/ RestoreReturns \/ Cancel
  <2>1. UNCHANGED activityVars /\ pc' \in {"setup", "call", "restore", "idle"}
    BY <1>1 DEF Begin, SetupReturns, RestoreReturns, Cancel, End
  <2> QED BY <1>g, <2>1, LeftTime
<1>2. CASE SendStalls \/ StreamStalls \/ GateStalls
  <2>1. UNCHANGED activityVars /\ (CallStalls \/ SendFails)
    BY <1>2 DEF SendStalls, StreamStalls, GateStalls
  <2> QED BY <1>g, <2>1, StallMoves, LeftTime
<1>3. CASE SendAnswers
  <2>1. CASE pc' = "check"
    <3>1. /\ pc = "send" /\ timer' = 0 /\ UNCHANGED <<quiet, silence, token>>
      BY <1>3, <2>1, StallMoves DEF SendAnswers, End, activityVars
    <3>2. ActivityTypes' /\ NoTimeLost'
      BY <1>k, <3>1 DEF TimeInv, ActivityTypes, NoTimeLost
    <3>3. WaitsBounded' /\ GateWaits'
      BY <1>k, <1>r, <2>1, <3>1 DEF TimeInv, WaitsBounded, GateWaits
    <3> QED BY <3>2, <3>3 DEF TimeInv
  <2>2. CASE pc' # "check"
    <3>1. UNCHANGED activityVars /\ pc' \in {"restore", "recoverCall", "recoverSend"}
      BY <1>3, <2>2, StallMoves DEF SendAnswers, End
    <3> QED BY <1>g, <3>1, LeftTime
  <2> QED BY <2>1, <2>2
<1>4. CASE RecoveryReturns
  <2>1. CASE pc = "recoverSend"
    BY <1>4, <1>w, <2>1, SendTime DEF RecoveryReturns
  <2>2. CASE pc # "recoverSend"
    BY <1>4, <1>g, <2>2, LeftTime DEF RecoveryReturns
  <2> QED BY <2>1, <2>2
<1>5. CASE ArmGateTimer
  <2>1. /\ pc = "check" /\ gated > 0 /\ pc' = "gateWait" /\ timer' = gateWindow
        /\ UNCHANGED <<quiet, silence, token>>
    BY <1>5 DEF ArmGateTimer, activityVars
  <2>2. SomeGate
    BY <2>1, Accounted, FS_EmptySet DEF GatesInv, SomeGate
  <2>3. ActivityTypes' /\ NoTimeLost'
    BY <1>k, <2>1 DEF TimeInv, ActivityTypes, NoTimeLost
  <2>4. WaitsBounded' /\ GateWaits'
    BY <1>k, <1>r, <2>1, <2>2 DEF TimeInv, WaitsBounded, GateWaits, SomeGate
  <2> QED BY <2>3, <2>4 DEF TimeInv
<1>6. CASE ArmBaseTimer
  <2>1. /\ pc' = "baseWait" /\ timer' = window - silence
        /\ UNCHANGED <<quiet, silence, token>>
    BY <1>6 DEF ArmBaseTimer, activityVars
  <2>2. quiet <= silence
    BY <1>r DEF TimeInv, NoTimeLost, HalfReleased
  <2>3. ActivityTypes' /\ NoTimeLost'
    BY <1>k, <2>1 DEF TimeInv, ActivityTypes, NoTimeLost
  <2>4. WaitsBounded' /\ GateWaits'
    BY <1>k, <1>r, <2>1, <2>2 DEF WaitsBounded, GateWaits
  <2> QED BY <2>3, <2>4 DEF TimeInv
<1>7. CASE BaseTimerFires \/ WakeUp
  <2>1. /\ pc' = "check" /\ UNCHANGED <<quiet, silence>>
        /\ pc = "baseWait" \/ (pc = "gateWait" /\ token)
        /\ token' \in {token, FALSE}
    BY <1>7 DEF BaseTimerFires, WakeUp, activityVars
  <2>2. ActivityTypes' /\ NoTimeLost'
    BY <1>k, <2>1 DEF TimeInv, ActivityTypes, NoTimeLost
  <2>3. WaitsBounded' /\ GateWaits'
    BY <1>k, <1>r, <2>1 DEF TimeInv, WaitsBounded, GateWaits
  <2> QED BY <2>2, <2>3 DEF TimeInv
<1> QED
  BY <1>1, <1>2, <1>3, <1>4, <1>5, <1>6, <1>7 DEF LoopStep

(* The drain of an idle restarts the clocks, or found no gate to release. *)
LEMMA TurnEndsTime ==
    ASSUME LoopInv, TimeInv, TurnEnds
    PROVE  TimeInv'
<1>1. CASE Send("reprompt", 0)
  BY <1>1, SendTime DEF TurnEnds
<1>2. CASE pc' = "restore"
  <2>1. /\ UNCHANGED <<handler, wait>>
        /\ UNCHANGED activityVars \/ (quiet' = 0 /\ silence' = 0 /\ token' = TRUE)
    BY <1>2 DEF TurnEnds, Send, markActivity, SignOfLife
  <2>2. UNCHANGED activityVars => ActivityTypes' /\ NoTimeLost'
    BY <2>1 DEF activityVars, TimeInv, ActivityTypes, NoTimeLost, HalfReleased
  <2>3. quiet' = 0 /\ silence' = 0 /\ token' = TRUE => ActivityTypes' /\ NoTimeLost'
    BY WatchdogAssumption DEF ActivityTypes, NoTimeLost
  <2>4. ActivityTypes' /\ NoTimeLost'
    BY <2>1, <2>2, <2>3
  <2> QED BY <1>2, <2>4 DEF TimeInv, WaitsBounded, GateWaits
<1> QED BY <1>1, <1>2 DEF TurnEnds, End

(* The clock moves only when nothing is under way. *)
LEMMA TickTime ==
    ASSUME LoopInv, TimeInv, Tick
    PROVE  TimeInv'
<1>r. /\ window \in Nat /\ gateWindow \in Nat /\ gateWindow <= Horizon /\ timer \in Nat
      /\ quiet \in 0..Horizon /\ silence \in 0..Horizon /\ Horizon \in Nat
  BY WatchdogAssumption
     DEF LoopInv, WindowsInPlace, LoopTypes, TimeInv, ActivityTypes
<1>1. /\ quiet' = Older(quiet) /\ silence' = Older(silence)
      /\ timer' = IF pc \in Timed THEN timer - 1 ELSE timer
      /\ UNCHANGED <<window, gateWindow, pc, token, handler, wait, toolGates>>
  BY DEF Tick, settingsVars, gateVars
<1>2. /\ pc # "check"
      /\ pc \in Timed => timer # 0
      /\ pc \in {"baseWait", "gateWait"} => ~token
      /\ \A t \in Tools : handler[t] = "none"
      /\ \A x \in Waits : wait[x] # "dropped"
  BY DEF Tick, Busy
<1>3. ~HalfReleased /\ Taken = {} /\ Taken' = Taken /\ Held' = Held /\ HalfReleased' = HalfReleased
  BY <1>1, <1>2 DEF HalfReleased, Taken, Held
<1>4. quiet = silence
  BY <1>3 DEF TimeInv, NoTimeLost
<1>5. ActivityTypes' /\ NoTimeLost'
  BY <1>r, <1>1, <1>2, <1>4 DEF TimeInv, ActivityTypes, NoTimeLost, Older
<1>6. quiet' \in 0..Horizon /\ quiet' <= quiet + 1 /\ (quiet' = quiet + 1 \/ quiet' = Horizon)
  BY <1>r, <1>1 DEF Older
<1>7. WaitsBounded'
  BY <1>r, <1>1, <1>2, <1>6 DEF TimeInv, WaitsBounded, Timed
<1>8. GateWaits'
  BY <1>r, <1>1, <1>2, <1>3, <1>6 DEF TimeInv, GateWaits, Timed
<1> QED BY <1>5, <1>7, <1>8 DEF TimeInv

LEMMA TimeStep == GatesInv /\ LoopInv /\ TimeInv /\ [WatchNext]_watchVars => TimeInv'
<1> SUFFICES ASSUME GatesInv, LoopInv, TimeInv, [WatchNext]_watchVars PROVE TimeInv'
  OBVIOUS
<1>1. CASE LoopStep
  BY <1>1, LoopTime
<1>2. CASE StartCall \/ TurnEnds
  BY <1>2, SendTime, TurnEndsTime DEF StartCall
<1>3. CASE Tick
  BY <1>3, TickTime
<1>4. CASE \/ HostStep
           \/ \E t \in Tools : ToolStep(t)
           \/ \E x \in Waits : WaitStep(x)
  <2>1. Marked \/ DropsOne \/ Calm
    BY <1>4, HostActivity, ToolActivity, WaitActivity
  <2> QED BY <1>4, <2>1, OthersKeepLoop, OthersTime
<1>5. CASE UNCHANGED watchVars
  <2>1. UNCHANGED <<settingsVars, loopVars>> /\ Calm
    BY <1>5 DEF watchVars, activityVars, gateVars, Calm, HalfReleased, SomeGate, Taken, Held
  <2> QED BY <2>1, OthersTime
<1> QED BY <1>1, <1>2, <1>3, <1>4, <1>5, StepKinds

-----------------------------------------------------------------------------
(* The host. *)

LEMMA HostKept ==
    ASSUME HostInv, UNCHANGED hostVars, pc' # "idle" => pc # "idle"
    PROVE  HostInv'
BY DEF HostInv, HostTypes, TickerLives, hostVars

(* Of what is left, all leaves the host's clocks alone. *)
LEMMA OthersKeepHost ==
    ASSUME WatchNext, ~Begin, ~RestoreReturns, ~HearMessage, ~CheckLiveness, ~SinkBreaks, ~Tick,
           ~Cancel, \A x \in Waits : ~AskHost(x)
    PROVE  UNCHANGED hostVars /\ (pc' # "idle" => pc # "idle")
<1>1. CASE LoopStep
  <2>1. UNCHANGED hostVars
    BY <1>1 DEF LoopStep, SetupReturns, SendAnswers, RecoveryReturns, SendStalls,
           ArmGateTimer, ArmBaseTimer, StreamStalls, BaseTimerFires, GateStalls, WakeUp
  <2>2. pc # "idle"
    BY <1>1 DEF LoopStep, SetupReturns, SendAnswers, RecoveryReturns, SendStalls,
           ArmGateTimer, ArmBaseTimer, StreamStalls, BaseTimerFires, GateStalls, WakeUp, Timed
  <2> QED BY <2>1, <2>2
<1>2. CASE StartCall \/ TurnEnds
  BY <1>2 DEF StartCall, TurnEnds
<1>3. CASE HearProgress \/ HearEnd
  BY <1>3 DEF HearProgress, HearEnd, loopVars
<1>4. ASSUME NEW t \in Tools, ToolStep(t) PROVE UNCHANGED hostVars /\ pc' = pc
  BY <1>4 DEF ToolStep, HearStart, HearComplete, HandlerGoesOn, openToolGate, closeToolGate,
         ReleaseToolGate, loopVars
<1>5. ASSUME NEW x \in Waits, WaitStep(x) PROVE UNCHANGED hostVars /\ pc' = pc
  BY <1>5 DEF WaitStep, OpenWait, EndWait, LeaveWait, loopVars
<1> QED
  BY <1>1, <1>2, <1>3, <1>4, <1>5, StepKinds DEF HostStep

LEMMA HostStepInv == HostInv /\ [WatchNext]_watchVars => HostInv'
<1> SUFFICES ASSUME HostInv, [WatchNext]_watchVars PROVE HostInv'
  OBVIOUS
<1> USE WatchdogAssumption DEF HostInv, HostTypes, TickerLives, Off
<1>1. CASE Begin
  BY <1>1 DEF Begin
<1>2. CASE RestoreReturns
  BY <1>2 DEF RestoreReturns
<1>3. CASE HearMessage
  <2>1. UNCHANGED <<pc, ticker, sinkUp>>
    BY <1>3 DEF HearMessage, loopVars
  <2>2. \/ sinkUp /\ lastForward' = 0 /\ hostQuiet' = 0
        \/ UNCHANGED <<lastForward, hostQuiet>>
    BY <1>3 DEF HearMessage, Forward
  <2> QED BY <2>1, <2>2
<1>4. ASSUME NEW x \in Waits, AskHost(x) PROVE HostInv'
  BY <1>4 DEF AskHost, loopVars
<1>5. CASE CheckLiveness
  <2>1. UNCHANGED <<pc, sinkUp>>
    BY <1>5 DEF CheckLiveness, loopVars
  <2> QED BY <1>5, <2>1 DEF CheckLiveness
<1>6. CASE SinkBreaks
  BY <1>6 DEF SinkBreaks, loopVars
<1>7. CASE Tick
  <2>1. /\ lastForward' = Older(lastForward) /\ hostQuiet' = Older(hostQuiet)
        /\ ticker' = IF ticker = Off THEN Off ELSE ticker - 1
        /\ ticker # 0 /\ UNCHANGED <<pc, sinkUp>>
    BY <1>7 DEF Tick, Busy
  <2>2. hostQuiet' \in 0..Horizon /\ hostQuiet' <= hostQuiet + 1 /\ lastForward' = hostQuiet'
    BY <2>1 DEF Older
  <2> QED BY <2>1, <2>2
<1>8. CASE UNCHANGED watchVars
  BY <1>8, HostKept DEF watchVars, loopVars
<1>9. CASE Cancel
  BY <1>9 DEF Cancel, End, Timed
<1> QED
  BY <1>1, <1>2, <1>3, <1>4, <1>5, <1>6, <1>7, <1>8, <1>9, OthersKeepHost, HostKept

-----------------------------------------------------------------------------
(* The invariant, and what follows from it. *)

LEMMA InitInv == WatchInit => WatchInv
<1> SUFFICES ASSUME WatchInit PROVE WatchInv
  OBVIOUS
<1> USE WatchdogAssumption DEF WatchInit
<1>1. LoopInv
  <2>1. PICK w \in WindowKeys, g \in GateWindowKeys :
            /\ window = Resolved(w, DefaultWindow)
            /\ gateWindow = Resolved(g, DefaultGateWindow)
    OBVIOUS
  <2>2. window \in Nat \ {0} /\ gateWindow \in Nat \ {0} /\ gateWindow <= Horizon
    BY <2>1, HorizonAssumption DEF Resolved
  <2>3. WindowsInPlace
    BY <2>2 DEF WindowsInPlace, Accepts
  <2>4. /\ pc = "idle" /\ message = "prompt" /\ calls = 0 /\ tries = 0 /\ timer = 0
        /\ signal \in BOOLEAN
    OBVIOUS
  <2> QED BY <2>2, <2>3, <2>4 DEF LoopInv, LoopTypes
<1>2. GatesInv
  <2>1. GateTypes /\ GatesOfRunning
    BY DEF GateTypes, GatesOfRunning
  <2>2. toolGates = {} /\ Taken = {} /\ Held = {}
    BY DEF Taken, Held
  <2> QED BY <2>1, <2>2, FS_EmptySet, Accounted DEF GatesInv
<1>3. TimeInv
  <2>1. silence = 0 /\ quiet = 0 /\ token \in BOOLEAN /\ pc = "idle"
    OBVIOUS
  <2> QED BY <2>1 DEF TimeInv, ActivityTypes, NoTimeLost, WaitsBounded, GateWaits
<1>4. HostInv
  BY DEF HostInv, HostTypes, TickerLives, Off
<1> QED BY <1>1, <1>2, <1>3, <1>4 DEF WatchInv

(* The invariant is inductive. *)
THEOREM WatchInvariant == WatchSpec => []WatchInv
<1>1. WatchInv /\ [WatchNext]_watchVars => WatchInv'
  BY GatesStep, LoopInvStep, TimeStep, HostStepInv DEF WatchInv
<1> QED
  BY InitInv, <1>1, PTL DEF WatchSpec

(* The timers, clocks, gates and budgets keep their types for all windows  *)
(* that parseWatchdogSettings accepts.                                     *)
THEOREM WatchTypeCorrect == WatchSpec => []WatchTypeOK
<1>1. WatchInv => WatchTypeOK
  BY DEF WatchInv, GatesInv, GateTypes, LoopInv, WindowsInPlace, LoopTypes, TimeInv,
         ActivityTypes, HostInv, HostTypes, WatchTypeOK
<1> QED
  BY WatchInvariant, <1>1, PTL

(* No release of a gate is lost or done twice (beginWatchdogGate), however *)
(* many tools and callbacks there are.                                     *)
THEOREM GatesAreAccounted == WatchSpec => []GatesAccounted
BY WatchInvariant, PTL DEF WatchInv, GatesInv

(* A call is not waited for beyond a window of silence, or a window and a  *)
(* gate window with a gate (waitTurnSignal), for all windows.              *)
THEOREM QuietCallsAbandoned == WatchSpec => []QuietCallIsAbandoned
<1>1. WatchInv => QuietCallIsAbandoned
  BY DEF WatchInv, LoopInv, WindowsInPlace, LoopTypes, TimeInv, ActivityTypes, WaitsBounded,
         QuietCallIsAbandoned
<1> QED
  BY WatchInvariant, <1>1, PTL

(* The longer ceiling is granted only while a tool of this call runs or a  *)
(* callback waits (closeAllToolGates).                                     *)
THEOREM GatesBelong == WatchSpec => []GateBelongsToCall
<1>1. WatchInv => GateBelongsToCall
  <2> SUFFICES ASSUME WatchInv, pc = "gateWait", quiet > window
               PROVE  running # {} \/ \E x \in Waits : wait[x] = "held"
    BY DEF GateBelongsToCall
  <2>1. quiet # 0 /\ ~(quiet <= window)
    BY DEF WatchInv, LoopInv, WindowsInPlace, TimeInv, ActivityTypes
  <2>2. ~token /\ ~HalfReleased /\ \A t \in Tools : handler[t] = "none"
    BY <2>1 DEF WatchInv, TimeInv, WaitsBounded, NoTimeLost, HalfReleased
  <2>3. toolGates # {} \/ Held # {}
    BY <2>2 DEF WatchInv, TimeInv, GateWaits, Taken
  <2> QED
    BY <2>2, <2>3 DEF WatchInv, GatesInv, GateTypes, GatesOfRunning, Held
<1> QED
  BY WatchInvariant, <1>1, PTL

(* The host hears something at least every tick interval plus one check    *)
(* (startLivenessTicker).                                                  *)
THEOREM HostHears == WatchSpec => []HostSilenceBounded
<1>1. WatchInv => HostSilenceBounded
  BY WatchdogAssumption DEF WatchInv, HostInv, HostTypes, TickerLives, HostSilenceBounded, Off
<1> QED
  BY WatchInvariant, <1>1, PTL

(* A live call is not declared stalled (waitTurnSignal), but for the two   *)
(* races that StallMeansSilence names: in the instant of a half-done       *)
(* release, and of a sign of life the gate timer is drawn before.          *)
THEOREM StallsAreSilent == WatchSpec => StallMeansSilence
<1>1. ASSUME WatchInv, StreamStalls
      PROVE  /\ quiet >= window \/ (quiet = 0 /\ HalfReleased)
             /\ running = {} /\ \A x \in Waits : wait[x] # "held"
  <2>1. gated <= 0 /\ silence >= window
    BY <1>1 DEF StreamStalls
  <2>2. toolGates = {} /\ Held = {}
    <3>1. Cardinality(toolGates) = 0 /\ Cardinality(Held) = 0
      BY <1>1, <2>1, GateSetsFinite, Accounted DEF WatchInv, GatesInv, GateTypes
    <3> QED BY <1>1, <3>1, GateSetsFinite, FS_EmptySet DEF WatchInv, GatesInv
  <2>3. quiet = silence \/ (quiet = 0 /\ HalfReleased)
    BY <1>1 DEF WatchInv, TimeInv, NoTimeLost, HalfReleased
  <2> QED
    BY <1>1, <2>1, <2>2, <2>3 DEF WatchInv, GatesInv, GatesOfRunning, Held
<1>2. ASSUME WatchInv, GateStalls
      PROVE  quiet >= gateWindow \/ (quiet = 0 /\ (token \/ HalfReleased))
  <2>1. pc = "gateWait" /\ timer = 0
    BY <1>2 DEF GateStalls
  <2>2. quiet \in Nat /\ gateWindow \in Nat
    BY <1>2 DEF WatchInv, LoopInv, WindowsInPlace, TimeInv, ActivityTypes
  <2> QED
    BY <1>2, <2>1, <2>2 DEF WatchInv, TimeInv, GateWaits
<1>3. WatchInv /\ [WatchNext]_watchVars
        => [/\ StreamStalls => /\ quiet >= window \/ (quiet = 0 /\ HalfReleased)
                               /\ running = {} /\ \A x \in Waits : wait[x] # "held"
            /\ GateStalls => quiet >= gateWindow \/ (quiet = 0 /\ (token \/ HalfReleased))]_watchVars
  BY <1>1, <1>2
<1> QED
  BY WatchInvariant, <1>3, PTL DEF WatchSpec, StallMeansSilence

=============================================================================
