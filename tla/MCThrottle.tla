----------------------------- MODULE MCThrottle -----------------------------
(* Finite instances of ThrottleCounter for TLC. *)
EXTENDS ThrottleCounter, TLC

CONSTANTS r1, r2, r3

\* Requests are interchangeable.
Symmetry == Permutations(Requests)
=============================================================================
