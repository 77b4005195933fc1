---------------------------- MODULE MCPermissions ----------------------------
(* A small instance of Permissions: two sessions whose model gave a tool   *)
(* call the same id, a call of adapter_tool and the request for it.        *)
EXTENDS Permissions, TLC

CONSTANTS s1, s2, shared, other

TwoSessions == {s1, s2}
TwoCallIds == {shared, other}

FourCallbacks ==
    {[session |-> s1, kind |-> "permission", call |-> shared],
     [session |-> s2, kind |-> "permission", call |-> shared],
     [session |-> s1, kind |-> "tool", call |-> other],
     [session |-> s1, kind |-> "own", call |-> other]}
=============================================================================
