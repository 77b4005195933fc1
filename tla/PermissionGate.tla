--------------------------- MODULE PermissionGate ---------------------------
(***************************************************************************)
(* What the permission bridge promises the model and the host: a callback  *)
(* that asks is answered once, it is approved only if the host granted     *)
(* that very callback (or if it needs no grant), and one that must not     *)
(* hang is answered in the end.  Streams, channels and Executes are not    *)
(* visible here.                                                           *)
(***************************************************************************)
CONSTANTS
    Callbacks,    \* every question the SDK may put to the adapter
    Free,         \* those that are approved without the host
    Prompt        \* those that are answered even if the host never speaks

VARIABLES
    status,       \* of each callback
    granted       \* the callbacks the host granted

gateVars == <<status, granted>>

GateInit == status = [c \in Callbacks |-> "new"] /\ granted = {}

Ask(c) ==
    /\ status[c] = "new"
    /\ status' = [status EXCEPT ![c] = "asking"]
    /\ UNCHANGED granted

Grant(c) ==
    /\ status[c] # "new"
    /\ granted' = granted \cup {c}
    /\ UNCHANGED status

(* Answered on the spot: one that is free, or outside an Execute. *)
Settle(c) ==
    /\ status[c] = "new"
    /\ status' = [status EXCEPT ![c] = IF c \in Free THEN "approved" ELSE "refused"]
    /\ UNCHANGED granted

Answer(c) ==
    /\ status[c] = "asking"
    /\ \/ c \in granted /\ status' = [status EXCEPT ![c] = "approved"]
       \/ status' = [status EXCEPT ![c] = "refused"]
    /\ UNCHANGED granted

GateNext == \E c \in Callbacks : Ask(c) \/ Grant(c) \/ Settle(c) \/ Answer(c)

GateSpec ==
    /\ GateInit /\ [][GateNext]_gateVars
    /\ \A c \in Prompt : WF_gateVars(Answer(c))
=============================================================================
