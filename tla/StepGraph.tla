----------------------------- MODULE StepGraph -----------------------------
(***************************************************************************)
(* The two pure functions the driver of a job applies to its steps on      *)
(* every pass: graph::advance and aggregate::fold                          *)
(* (crates/hull-ci-control/src/graph.rs and aggregate.rs).                 *)
(*                                                                         *)
(* A job's steps are a function st from a set of steps to StepStates; the  *)
(* plan is a function needs, giving the names each step waits for, and the *)
(* set tol of steps marked continue_on_error.  A name in needs[s] outside  *)
(* DOMAIN st is one the plan does not declare.                             *)
(***************************************************************************)
EXTENDS JobModel, Naturals, FiniteSets

-----------------------------------------------------------------------------
\* graph::advance, as the code computes it.

\* Mutant: any dependency that has ended lets its dependents run.
SatisfiedOnceOver(st, tol, n) == n \in DOMAIN st /\ StepTerminal(st[n])

\* dep_status is Satisfied: the dependency lets its dependents run.
Satisfied(st, tol, n) ==
  /\ n \in DOMAIN st
  /\ st[n] \in {"passed", "cached"} \/ (st[n] = "failed" /\ n \in tol)

\* dep_status is Blocked: the dependency will never let them run.
Blocked(st, tol, n) ==
  /\ n \in DOMAIN st
  /\ st[n] \in {"failed", "errored", "skipped"} /\ ~Satisfied(st, tol, n)

\* dep_status is Unknown for some name the step needs.
Dangling(st, needs, s) == ~(needs[s] \subseteq DOMAIN st)

\* gate, and what one pass of the loop in advance makes of a step.
Gate(st, needs, tol, s) ==
  CASE st[s] # "pending"                             -> st[s]
    [] OTHER ->
       CASE Dangling(st, needs, s)                    -> "errored"
         [] ~Dangling(st, needs, s) /\ (\E n \in needs[s] : Blocked(st, tol, n))
                                                      -> "skipped"
         [] \A n \in needs[s] : Satisfied(st, tol, n) -> "ready"
         [] OTHER                                     -> "pending"

\* One pass: every gate is decided against the same snapshot.
Pass(st, needs, tol) == [s \in DOMAIN st |-> Gate(st, needs, tol, s)]

\* Mutant: the loop stops after one pass.
PassesOnce(st, needs, tol) == Pass(st, needs, tol)

\* The loop: passes until one changes nothing.  Every other pass moves a step
\* out of "pending", so there are at most as many as there are steps.
Passes(st, needs, tol) ==
  LET after[n \in Nat] == IF n = 0 THEN st ELSE Pass(after[n - 1], needs, tol)
  IN  after[Cardinality(DOMAIN st)]

Live(st) == \E s \in DOMAIN st : st[s] \in {"ready", "leased", "running"}

\* Mutant: a cycle is left waiting for the job clock.
BreakCyclesNever(st) == st

\* What advance does after the loop: if nothing is live, whatever still waits
\* is waiting on a cycle.
BreakCycles(st) ==
  [s \in DOMAIN st |-> IF ~Live(st) /\ st[s] = "pending" THEN "errored" ELSE st[s]]

AdvanceLoop(st, needs, tol) == BreakCycles(Passes(st, needs, tol))

-----------------------------------------------------------------------------
\* graph::advance, as a definition: which pending steps can never run.

\* A set of pending steps closed under "has a need that blocks it".
ClosedUnderBlocking(D, st, needs, tol) ==
  \A s \in DOMAIN st :
    /\ st[s] = "pending"
    /\ Dangling(st, needs, s) \/ (\E n \in needs[s] : Blocked(st, tol, n) \/ n \in D)
    => s \in D

\* The smallest one.
Doomed(st, needs, tol) ==
  {s \in DOMAIN st : \A D \in SUBSET DOMAIN st :
                       ClosedUnderBlocking(D, st, needs, tol) => s \in D}

Advance(st, needs, tol) ==
  LET doomed == Doomed(st, needs, tol)
  IN  BreakCycles(
        [s \in DOMAIN st |->
           IF st[s] # "pending" THEN st[s]
           ELSE IF Dangling(st, needs, s) THEN "errored"
           ELSE IF s \in doomed THEN "skipped"
           ELSE IF \A n \in needs[s] : Satisfied(st, tol, n) THEN "ready"
           ELSE "pending"])

-----------------------------------------------------------------------------
\* aggregate::fold.

\* Step::failed_fatally.
FailedFatally(st, tol) == {s \in DOMAIN st : st[s] = "failed" /\ s \notin tol}

\* Mutant: an errored step does not stand in the way of green.
FoldForgiving(st, tol) ==
  IF FailedFatally(st, tol) # {} THEN "red"
  ELSE IF \E s \in DOMAIN st : ~StepTerminal(st[s]) THEN NoVerdict
  ELSE "green"

\* The verdict, or NoVerdict while it is undecided.
Fold(st, tol) ==
  IF DOMAIN st = {} THEN "errored"
  ELSE IF FailedFatally(st, tol) # {} THEN "red"
  ELSE IF \E s \in DOMAIN st : ~StepTerminal(st[s]) THEN NoVerdict
  ELSE IF \E s \in DOMAIN st : st[s] = "errored" THEN "errored"
  ELSE "green"

\* Decision::cancel: the steps in flight when a fatal failure decides the job.
ToCancel(st) == {s \in DOMAIN st : StepInFlight(st[s])}
=============================================================================
