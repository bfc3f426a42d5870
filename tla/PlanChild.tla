----------------------------- MODULE PlanChild -----------------------------
(***************************************************************************)
(* One evaluation of a pipeline in its own process:                        *)
(*   run and evaluate_measured (crates/hull-ci-plan/src/sandbox.rs), the   *)
(*   parent, with the thread that talks to the child,                      *)
(*   main (bin/hull-ci-plan-eval.rs), the child,                           *)
(*   Bounded (alloc.rs), the allocator that ends it.                       *)
(***************************************************************************)
EXTENDS Naturals

CONSTANTS
  Budget,   \* Limits::hard_memory_bytes
  MaxLive   \* bound: bytes the child tries to hold

ASSUME PlanChildAssumption == Budget \in Nat /\ MaxLive \in Nat

VARIABLES
  parent,   \* find, spawn, wait, reap, returned
  io,       \* none, writing, reading, done
  timedOut,
  child,    \* none, reading, evaluating, replying, or an exit
  live, peak, ceiling,   \* the allocator's counters
  reply,    \* what the io thread has read: none, part, whole
  result,   \* what run returned, and the Cost beside it
  cost,
  zombie    \* a child nobody will wait for

childVars == <<parent, io, timedOut, child, live, peak, ceiling, reply, result, cost, zombie>>

Unarmed == MaxLive + Budget + 1
Exits == {"ok", "over_budget", "failed", "killed"}
Running == {"reading", "evaluating", "replying"}

Returns(r) == parent' = "returned" /\ result' = r

-----------------------------------------------------------------------------
(* The parent. *)

\* worker_path finds nothing, or the spawn fails: there is no fallback.
NoWorker ==
  /\ parent = "find" /\ Returns("internal") /\ cost' = Budget
  /\ UNCHANGED <<io, timedOut, child, live, peak, ceiling, reply, zombie>>

Spawn ==
  /\ parent = "find" /\ parent' = "wait" /\ io' = "writing" /\ child' = "reading"
  /\ UNCHANGED <<timedOut, live, peak, ceiling, reply, result, cost, zombie>>

\* The io thread cannot be started: the early return drops the child.
NoThread ==
  /\ parent = "find" /\ Returns("internal") /\ cost' = Budget /\ child' = "failed" /\ zombie' = TRUE
  /\ UNCHANGED <<io, timedOut, live, peak, ceiling, reply>>

\* The io thread: write the request, or hear that the child is gone, then read.
IoWrote ==
  /\ io = "writing" /\ child # "reading" /\ io' = "reading"
  /\ UNCHANGED <<parent, timedOut, child, live, peak, ceiling, reply, result, cost, zombie>>

\* Its read ends with the child's output.
IoDone ==
  /\ io = "reading" /\ child \in Exits /\ io' = "done"
  /\ UNCHANGED <<parent, timedOut, child, live, peak, ceiling, reply, result, cost, zombie>>

\* recv_timeout returns in time.
Heard ==
  /\ parent = "wait" /\ io = "done" /\ parent' = "reap"
  /\ UNCHANGED <<io, timedOut, child, live, peak, ceiling, reply, result, cost, zombie>>

\* It does not: kill, which ends whatever the child was doing.
TimesOut ==
  /\ parent = "wait" /\ io # "done" /\ parent' = "reap" /\ timedOut' = TRUE
  /\ child' = IF child \in Running THEN "killed" ELSE child
  /\ UNCHANGED <<io, live, peak, ceiling, reply, result, cost, zombie>>

\* Mutant: the reply is read whatever the child's end was.
VerdictHasty == IF timedOut THEN "time" ELSE IF reply = "whole" THEN "response" ELSE "internal"

\* What run makes of the end: the clock, the exit status, then the reply.
Verdict ==
  IF timedOut THEN "time"
  ELSE IF child = "over_budget" THEN "memory"
  ELSE IF child = "ok" /\ reply = "whole" THEN "response"
  ELSE "internal"

\* join, wait, then the results.
Reap ==
  /\ parent = "reap" /\ io = "done" /\ child \in Exits
  /\ Returns(Verdict) /\ cost' = IF Verdict = "response" THEN peak ELSE Budget
  /\ UNCHANGED <<io, timedOut, child, live, peak, ceiling, reply, zombie>>

-----------------------------------------------------------------------------
(* The child. *)

\* The request is read and decoded, and the allocator armed; some bytes are live.
Arm(base) ==
  /\ child = "reading" /\ child' = "evaluating"
  /\ live' = base /\ peak' = base /\ ceiling' = base + Budget
  /\ UNCHANGED <<parent, io, timedOut, reply, result, cost, zombie>>

\* Mutant: what is over the ceiling is refused once it is live.
ChargeLate(n) ==
  /\ live' = live + n /\ peak' = IF live + n > peak THEN live + n ELSE peak
  /\ child' = IF live > ceiling THEN "over_budget" ELSE child

\* charge: the process ends at the allocation that crosses the ceiling.
Charge(n) ==
  IF live + n > ceiling THEN child' = "over_budget" /\ live' = live + n /\ UNCHANGED peak
  ELSE live' = live + n /\ peak' = (IF live + n > peak THEN live + n ELSE peak) /\ UNCHANGED child

\* alloc and realloc to a larger size; dealloc and realloc to a smaller one.
Allocates(n) ==
  /\ child \in {"evaluating", "replying"} /\ live + n <= MaxLive /\ Charge(n)
  /\ UNCHANGED <<parent, io, timedOut, ceiling, reply, result, cost, zombie>>
Frees(n) ==
  /\ child \in {"evaluating", "replying"} /\ n <= live /\ live' = live - n
  /\ UNCHANGED <<parent, io, timedOut, child, peak, ceiling, reply, result, cost, zombie>>

\* evaluate_in_process ends with a pipeline or a typed error.
Evaluated ==
  /\ child = "evaluating" /\ child' = "replying"
  /\ UNCHANGED <<parent, io, timedOut, live, peak, ceiling, reply, result, cost, zombie>>

\* The response is written, some of it, then all of it; the child exits 0.
Writes ==
  /\ child = "replying" /\ io \in {"writing", "reading"}
  /\ reply' = IF reply = "none" THEN "part" ELSE "whole"
  /\ child' = IF reply = "whole" THEN "ok" ELSE child
  /\ UNCHANGED <<parent, io, timedOut, live, peak, ceiling, result, cost, zombie>>

\* A bad request, a panic, a signal, a stack that overflows.
Crashes ==
  /\ child \in Running /\ child' = "failed"
  /\ UNCHANGED <<parent, io, timedOut, live, peak, ceiling, reply, result, cost, zombie>>

ChildInit ==
  /\ parent = "find" /\ io = "none" /\ timedOut = FALSE /\ child = "none"
  /\ live = 0 /\ peak = 0 /\ ceiling = Unarmed /\ reply = "none"
  /\ result = "none" /\ cost = 0 /\ zombie = FALSE

ChildNext ==
  \/ NoWorker \/ Spawn \/ NoThread \/ IoWrote \/ IoDone \/ Heard \/ TimesOut \/ Reap
  \/ \E n \in 0..1 : Arm(n)
  \/ \E n \in 1..2 : Allocates(n) \/ Frees(n)
  \/ Evaluated \/ Writes \/ Crashes

ChildSpec == ChildInit /\ [][ChildNext]_childVars

-----------------------------------------------------------------------------
\* A plan is the whole reply of a child that was inside its budget and ended well; an
\* author is told memory or time only when the child was over it or had not ended, and
\* the cost that is logged never overstates what an over-budget child held.
ResponseIsWhole ==
  /\ result = "response" => child = "ok" /\ reply = "whole" /\ peak <= ceiling /\ ~timedOut
  /\ result = "memory" => live > ceiling /\ cost <= live
  /\ result = "time" => timedOut

\* While the child can still answer, what it holds is under its ceiling: memory is
\* refused at the request, never after it.
LiveIsBounded == child \in {"evaluating", "replying", "ok"} => live <= ceiling /\ live <= peak

\* An evaluation ends within its bounds and is believed only whole: ResponseIsWhole
\* and LiveIsBounded, wherever its clock or its allocator stops it.
EvaluationIsContained == ResponseIsWhole /\ LiveIsBounded

\* "no early return can leave a zombie on the control plane".
NoZombie == parent = "returned" => ~zombie
=============================================================================
