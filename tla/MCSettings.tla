----------------------------- MODULE MCSettings -----------------------------
(* A small instance of Settings: a valid effort besides the default one,   *)
(* and one the adapter refuses.                                            *)
EXTENDS Settings, TLC
=============================================================================
