----------------------------- MODULE MCWatchdog -----------------------------
(* A small instance of Watchdog.  The keys 5 and 1 are out of range; 4     *)
(* fails only against the gate window.                                     *)
EXTENDS Watchdog, TLC

CONSTANTS t1, t2, ask

TwoTools == {t1, t2}
OneWait == {ask}
=============================================================================
