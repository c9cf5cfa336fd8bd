---------------------------- MODULE MCSubmission ----------------------------
(* Finite instances of Submission for TLC. *)
EXTENDS Submission, TLC

CONSTANTS a1, d1, d2, n1, q1, q2, q3

OneLimited == [a \in Accounts |-> 1]
NoLimit == [a \in Accounts |-> Unlimited]

\* Requests are interchangeable.
Symmetry == Permutations(Requests)
=============================================================================
