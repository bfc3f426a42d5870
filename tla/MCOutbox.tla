------------------------------ MODULE MCOutbox ------------------------------
(***************************************************************************)
(* Instances of Outbox for TLC.                                            *)
(***************************************************************************)
EXTENDS Outbox, TLC

CONSTANTS t1, t2, u1, u2

\* Every call asks about one tree; or the first call about t1, the rest about t2.
OneTree == [c \in Calls |-> t1]
FirstCall == CHOOSE c \in Calls : TRUE
TwoTrees == [c \in Calls |-> IF c = FirstCall THEN t1 ELSE t2]

\* Every call carries one url; or the first call u1, the rest u2.
OneUrl == [c \in Calls |-> u1]
TwoUrls == [c \in Calls |-> IF c = FirstCall THEN u1 ELSE u2]

Symmetry == Permutations(Calls)
=============================================================================
