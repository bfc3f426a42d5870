----------------------------- MODULE PlanDrive -----------------------------
(***************************************************************************)
(* One job's steps from its plan to its verdict: the loop of phase_run     *)
(* (crates/hull-ci-control/src/control.rs), which advances the graph and   *)
(* folds it on every pass, while a node runs what is ready.  Module        *)
(* Pipeline has the queue, the clocks and the node in between.             *)
(***************************************************************************)
EXTENDS StepGraph

CONSTANTS Steps, Ghost  \* the steps of the plan, and a name it does not declare

ASSUME PlanDriveAssumption == IsFiniteSet(Steps) /\ Ghost \notin Steps

VARIABLES needs, tol, st, verdict

graphVars == <<needs, tol, st, verdict>>

\* Every plan over Steps: no step needs itself by name, but longer cycles and
\* undeclared names are allowed, as the planner's validation is not in force here.
GraphInit ==
  /\ needs \in [Steps -> SUBSET (Steps \cup {Ghost})]
  /\ \A s \in Steps : s \notin needs[s]
  /\ \A s, t \in Steps : Ghost \in needs[s] /\ Ghost \in needs[t] => s = t
  /\ tol \in SUBSET Steps
  /\ st = [s \in Steps |-> "pending"]
  /\ verdict = NoVerdict

\* One pass of the loop in phase_run.
DriverPass ==
  /\ verdict = NoVerdict
  /\ st' = AdvanceLoop(st, needs, tol)
  /\ verdict' = Fold(st', tol)
  /\ UNCHANGED <<needs, tol>>

\* A ready step is leased, or a leased one ends.
StepMoves ==
  /\ verdict = NoVerdict
  /\ \E s \in Steps :
       \/ st[s] = "ready" /\ st' = [st EXCEPT ![s] = "leased"]
       \/ /\ st[s] = "leased"
          /\ \E o \in {"passed", "failed", "errored"} : st' = [st EXCEPT ![s] = o]
  /\ UNCHANGED <<needs, tol, verdict>>

GraphNext == DriverPass \/ StepMoves

GraphSpec == GraphInit /\ [][GraphNext]_graphVars

-----------------------------------------------------------------------------
\* graph::advance converges in as many passes as there are steps, and to what the
\* definition says.  A green verdict is about every step of the plan: each one
\* passed, was cached, or failed with continue_on_error; fold lets a skipped step
\* pass, and no run of the driver gets it to.
GreenIsComplete ==
  /\ LET moved == Advance(st, needs, tol)
     IN  AdvanceLoop(st, needs, tol) = moved /\ Advance(moved, needs, tol) = moved
  /\ verdict = "green" =>
       \A s \in Steps : st[s] \in {"passed", "cached"} \/ (st[s] = "failed" /\ s \in tol)

\* No plan, cyclic or dangling ones included, leaves the driver waiting for nothing:
\* after a pass there is a verdict, or a step to lease or under way.
EveryPlanIsDecided ==
  LET moved == AdvanceLoop(st, needs, tol)
  IN  Fold(moved, tol) = NoVerdict => \E s \in Steps : moved[s] \in {"ready", "leased"}
=============================================================================
