--------------------------- MODULE MCSessionBinding --------------------------
(* Small instances of SessionBinding: one or two sessions on one shared    *)
(* CLI child, with a few restarts and conversations.                       *)
EXTENDS SessionBinding, TLC

(* Nothing in the specification tells one session from another. *)
SessionSymmetry == Permutations(Sessions)
=============================================================================
