---------------------------- MODULE MCPipeline ----------------------------
(***************************************************************************)
(* Two jobs of two tenants.  The first has two steps, in a row or side by  *)
(* side; the second has one.                                               *)
(***************************************************************************)
EXTENDS Pipeline

CONSTANTS A, B, a1, a2, b1, acme, zeta, ghost

TwoJobs == {A, B}
TwoTenants == {acme, zeta}
AllSteps == {a1, a2, b1}
TwoSteps == {a1, b1}
ByJob == [s \in Steps |-> IF s = b1 THEN B ELSE A]
ByTenant == [j \in Jobs |-> IF j = B THEN zeta ELSE acme]

InARow == [s \in Steps |-> IF s = a2 THEN {a1} ELSE {}]
SideBySide == [s \in Steps |-> {}]
Dangles == [s \in Steps |-> IF s = a2 THEN {ghost} ELSE {}]

CapOfOne == [t \in Tenants |-> 1]
CapOfTwo == [t \in Tenants |-> 2]

NoSteps == {}
NoClocks == {}
TwoClocks == {a1, A}
LateClocks == {a2, A}
JobClocks == {A, B}
AllClocks == {a1, a2, b1, A, B}
NoTenants == {}
FirstStep == {a1}
LastStep == {b1}
=============================================================================
