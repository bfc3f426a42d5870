------------------------------ MODULE MCClaims ------------------------------
(* Two replicas, three dispatches of one tree to two destinations. *)
EXTENDS Claims, TLC

CONSTANTS r1, r2, c1, c2, c3, t1, u1, u2, s1

MCTreeOf == [c \in Calls |-> t1]
MCReplicaOf == c1 :> r1 @@ c2 :> r2 @@ c3 :> r1
MCStepsOf == c1 :> {s1} @@ c2 :> {} @@ c3 :> {}
MCSkew == r1 :> 0 @@ r2 :> 1
MCUrlOf == c1 :> u1 @@ c2 :> u2 @@ c3 :> u1

\* c1 and c3 are the same dispatch twice, so c1 arrives first.
InOrder == pc[c3] # "idle" => pc[c1] # "idle"
=============================================================================
