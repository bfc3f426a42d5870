----------------------------- MODULE MCNodeRuns -----------------------------
(* Three steps, two of one job, two of one configuration. *)
EXTENDS NodeRuns, TLC

CONSTANTS r1, r2, r3, k1, k2, n1, n2

MCJobOf == [r \in Runs |-> IF r = r3 THEN "b" ELSE "a"]
MCKeyOf == [r \in Runs |-> IF r = r2 THEN k2 ELSE k1]
\* A member's name is used up when it is given; which comes first is all one.
Symmetry == Permutations(Names)
=============================================================================
