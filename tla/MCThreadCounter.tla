--------------------------- MODULE MCThreadCounter ---------------------------
(* Four threads; main may create the others and the others each other. *)
EXTENDS ThreadCounter, TLC

CONSTANTS main, t1, t2, t3

MCThread == {main, t1, t2, t3}

\* The threads other than the initial one are interchangeable.
Symmetry == Permutations(MCThread \ {main})

=============================================================================
