---------------------------- MODULE MCTreeStore ----------------------------
(***************************************************************************)
(* Instances of TreeStore for TLC: two trees that share the file's bytes,  *)
(* once with the same mode and once with another.                          *)
(***************************************************************************)
EXTENDS TreeStore, TLC

CONSTANTS t1, t2, a1, b1, b2, r1, r2, r3

\* t1 has the file a1, t2 has b1 with the same bytes and mode and b2 with the
\* same bytes and another mode.
TwoHomes == [f \in Files |-> IF f = a1 THEN t1 ELSE t2]
SameBytes == [f \in Files |-> "bytes"]
TwoModes == [f \in Files |-> IF f = b2 THEN "755" ELSE "644"]

\* The first two calls ask for t1, the third for t2; or all for t1.
TwoAndOne == [r \in Requests |-> IF r = r3 THEN t2 ELSE t1]
AllForOne == [r \in Requests |-> t1]

Symmetry == Permutations(Sweepers) \cup Permutations(Requests)
SymmetryOfOne == Permutations({r1, r2})
=============================================================================
