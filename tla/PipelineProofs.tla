--------------------------- MODULE PipelineProofs ---------------------------
(***************************************************************************)
(* Proofs about module Pipeline, for any jobs, plans, tenants, caps and    *)
(* slots, and any outcome of fetching, planning, the fleet, the node and   *)
(* the clocks.                                                             *)
(*                                                                         *)
(* ClaimInv makes the step claim the token for launching a step; RunInv    *)
(* ties a step's result to the one run that produced it; OrderInv follows  *)
(* a step from ready to the node; SkipInv and VerdictInv carry what fold   *)
(* saw to the verdict.                                                     *)
(***************************************************************************)
EXTENDS Pipeline, TLAPS

\* A driver's local variables fit where it is: it has a grant in hand exactly
\* while the grant has an answer, and it cancels only steps of its own job.
HandInv ==
  \A j \in Jobs :
    /\ ~HandsOut(j) => answer[j] = "none"
    /\ HandsOut(j) => (answer[j] = "none" <=> hand[j] = None)
    /\ ~HandsOut(j) /\ pc[j] # "mark" => hand[j] = None
    /\ pc[j] = "mark" => hand[j] \in StepsOf(j)
    /\ cancel[j] \subseteq StepsOf(j)

TypeInv == TypeOK /\ HandInv

\* The step claim is the token for the launch: one pump at a time holds a
\* granted step, a launched step stays claimed, and the node has a run only
\* for a launched one.
ClaimInv ==
  /\ \A j \in Jobs : answer[j] = "granted" => hand[j] \in claims /\ launches[hand[j]] = 0
  /\ \A i, j \in Jobs : answer[i] = "granted" /\ answer[j] = "granted" /\ hand[i] = hand[j]
                          => i = j
  /\ \A s \in Steps : launches[s] # 0 => launches[s] = 1 /\ s \in claims
  /\ \A s \in Steps : launches[s] = 0 => run[s] = "none"

\* A step that passed or failed did so in its one run, which is over, or is
\* remembered.
RunInv ==
  \A s \in Steps :
    /\ step[s] = "passed" => run[s] = "over" /\ outcome[s] = "passed"
    /\ step[s] = "failed" => (run[s] = "over" /\ outcome[s] = "failed") \/ s \in Memoized
    /\ step[s] = "cached" => s \in Memoized

Early == {"queued", "fetching", "planning", "memo"}
InLoop == {"fold", "pump", "grants", "sleep"}
Ended == {"retire", "offer", "offers", "report", "leave", "leaves", "done"}

\* Where a driver is says whether its steps exist and whether its job has a
\* verdict.
PhaseInv ==
  \A j \in Jobs :
    /\ pc[j] \in Early => \A s \in StepsOf(j) : step[s] = "absent"
    /\ pc[j] \in InLoop => \A s \in StepsOf(j) : step[s] # "absent"
    /\ pc[j] \notin Ended => ~HasVerdict(job[j])

\* The needs of a step have let it run.
NeedsMet(s) ==
  \A n \in Needs[s] :
    n \in StepsOf(JobOf[s]) /\ (step[n] \in {"passed", "cached"}
                              \/ (step[n] = "failed" /\ n \in Tolerated))

\* The step is, or was, ready, and is remembered so: in the store, the queue, a
\* pump or on the node.
Reached(s) ==
  \/ step[s] \in {"ready", "leased", "running"}
  \/ place[s] # "none"
  \/ \E j \in Jobs : s \in grants[j] \/ (answer[j] # "none" /\ hand[j] = s)
  \/ launches[s] # 0

\* From the moment a step is ready its needs are met.
OrderInv == \A s \in Steps : Reached(s) => NeedsMet(s)

\* A step that stands in the way of green.
Spoils(s) == step[s] = "errored" \/ (step[s] = "failed" /\ s \notin Tolerated)

\* Before the job is decided, a step is skipped only because of one that
\* spoils the job.
SkipInv ==
  \A j \in Jobs : pc[j] \in InLoop =>
    \A s \in StepsOf(j) : step[s] = "skipped" => \E r \in StepsOf(j) : Spoils(r)

EarnedGreen(j) ==
  /\ StepsOf(j) # {}
  /\ \A s \in StepsOf(j) : \/ step[s] \in {"passed", "cached"}
                           \/ step[s] = "failed" /\ s \in Tolerated

EarnedRed(j) == \E s \in StepsOf(j) \ Tolerated : step[s] = "failed"

\* What fold decided stays true of the steps, and the verdict is what it decided.
VerdictInv ==
  \A j \in Jobs :
    /\ decision[j] = "green" => EarnedGreen(j)
    /\ decision[j] = "red" => EarnedRed(j)
    /\ job[j] \in {"green", "red"} => decision[j] = job[j] /\ pc[j] \in Ended

-----------------------------------------------------------------------------
\* The plan graph's helpers, as Pipeline uses them.

\* A pass of the driver is about the steps of its job.
LEMMA FoldDomain == \A j : DOMAIN Folded(j) = StepsOf(j)
  <1> TAKE j
  <1>1. DOMAIN Swept(j) = StepsOf(j)
    BY DEF Swept
  <1>2. \A st : DOMAIN BreakCycles(st) = DOMAIN st
    BY DEF BreakCycles
  <1>3. DOMAIN Advance(Swept(j), Needs, Tolerated) = DOMAIN Swept(j)
    BY <1>2 DEF Advance
  <1> QED
    BY <1>1, <1>3 DEF Folded

\* What graph::advance makes of a job's steps: what is not pending stays, a
\* step becomes ready only with its needs satisfied, and one is skipped only
\* if a step blocks it or one is errored with it.
LEMMA AdvanceFacts ==
  ASSUME NEW D, NEW st \in [D -> StepStates], NEW needs, NEW tol
  PROVE  LET a == Advance(st, needs, tol)
         IN  /\ a \in [D -> StepStates]
             /\ \A s \in D : st[s] # "pending" => a[s] = st[s]
             /\ \A s \in D : st[s] = "pending" =>
                               a[s] \in {"pending", "ready", "errored", "skipped"}
             /\ \A s \in D : st[s] = "pending" /\ a[s] = "ready" =>
                               \A n \in needs[s] : Satisfied(st, tol, n)
             /\ \A s \in D : st[s] = "pending" /\ a[s] = "skipped" =>
                               \E r \in D : a[r] = "errored" \/ Blocked(st, tol, r)
  <1> DEFINE doomed == Doomed(st, needs, tol)
             b == [s \in D |-> IF st[s] # "pending" THEN st[s]
                               ELSE IF Dangling(st, needs, s) THEN "errored"
                               ELSE IF s \in doomed THEN "skipped"
                               ELSE IF \A n \in needs[s] : Satisfied(st, tol, n)
                                    THEN "ready" ELSE "pending"]
             a == Advance(st, needs, tol)
  <1>1. DOMAIN st = D
    OBVIOUS
  <1>2. a = BreakCycles(b)
    BY <1>1 DEF Advance
  <1>3. b \in [D -> StepStates]
    BY DEF StepStates
  <1>4. a = [s \in D |-> IF ~Live(b) /\ b[s] = "pending" THEN "errored" ELSE b[s]]
    BY <1>2, <1>3 DEF BreakCycles
  <1>5. ASSUME NEW s \in D, st[s] = "pending", a[s] = "skipped"
        PROVE  \E r \in D : a[r] = "errored" \/ Blocked(st, tol, r)
    <2>1. s \in doomed
      BY <1>4, <1>5 DEF StepStates
    <2>2. ~ClosedUnderBlocking({}, st, needs, tol)
      BY <2>1, <1>1 DEF Doomed
    <2>3. PICK q \in D : /\ st[q] = "pending"
                         /\ Dangling(st, needs, q) \/ (\E n \in needs[q] : Blocked(st, tol, n))
      BY <2>2, <1>1 DEF ClosedUnderBlocking
    <2>4. CASE Dangling(st, needs, q)
      BY <2>3, <2>4, <1>4
    <2>5. CASE \E n \in needs[q] : Blocked(st, tol, n)
      BY <2>5, <1>1 DEF Blocked
    <2> QED
      BY <2>3, <2>4, <2>5
  <1>6. a \in [D -> StepStates]
    BY <1>3, <1>4 DEF StepStates
  <1>7. \A s \in D : st[s] # "pending" => a[s] = st[s]
    BY <1>4
  <1>8. \A s \in D : st[s] = "pending" => a[s] \in {"pending", "ready", "errored", "skipped"}
    BY <1>4
  <1>9. \A s \in D : st[s] = "pending" /\ a[s] = "ready" => \A n \in needs[s] : Satisfied(st, tol, n)
    BY <1>4
  <1> HIDE DEF a
  <1> QED
    BY <1>5, <1>6, <1>7, <1>8, <1>9 DEF a

\* What one pass of the driver makes of its job's steps, once they exist.
LEMMA FoldFacts ==
  ASSUME TypeOK, NEW j \in Jobs, \A s \in StepsOf(j) : step[s] # "absent"
  PROVE  LET f == Folded(j)
         IN  /\ f \in [StepsOf(j) -> StepStates]
             /\ \A s \in StepsOf(j) : StepTerminal(step[s]) => f[s] = step[s]
             /\ \A s \in StepsOf(j) : f[s] \in {"passed", "failed", "cached"} => step[s] = f[s]
             /\ \A s \in StepsOf(j) : f[s] \in {"ready", "leased", "running"} =>
                  \/ step[s] = f[s]
                  \/ \A n \in Needs[s] :
                       /\ n \in StepsOf(j)
                       /\ f[n] \in {"passed", "cached"} \/ (f[n] = "failed" /\ n \in Tolerated)
             /\ \A s \in StepsOf(j) : f[s] = "skipped" /\ step[s] # "skipped" =>
                  \E r \in StepsOf(j) : \/ f[r] = "errored" \/ step[r] = "skipped"
                                        \/ f[r] = "failed" /\ r \notin Tolerated
  <1> DEFINE D == StepsOf(j)
             w == Swept(j)
             f == Folded(j)
  <1>1. /\ w \in [D -> StepStates]
        /\ \A s \in D : w[s] = step[s] \/ (w[s] = "errored" /\ ~StepTerminal(step[s]))
    BY DEF TypeOK, Swept, StepsOf, StepTransition, StepEdge, StepTerminal, StepStates
  <1>2. f = Advance(w, Needs, Tolerated)
    BY DEF Folded
  <1> HIDE DEF w, f, D
  <1>3. /\ f \in [D -> StepStates]
        /\ \A s \in D : w[s] # "pending" => f[s] = w[s]
        /\ \A s \in D : w[s] = "pending" => f[s] \in {"pending", "ready", "errored", "skipped"}
        /\ \A s \in D : w[s] = "pending" /\ f[s] = "ready" =>
                          \A n \in Needs[s] : Satisfied(w, Tolerated, n)
        /\ \A s \in D : w[s] = "pending" /\ f[s] = "skipped" =>
                          \E r \in D : f[r] = "errored" \/ Blocked(w, Tolerated, r)
    BY <1>1, <1>2, AdvanceFacts
  <1>4. \A s \in D : StepTerminal(step[s]) => f[s] = step[s]
    BY <1>1, <1>3 DEF StepTerminal
  <1>5. \A s \in D : f[s] \in {"passed", "failed", "cached"} => step[s] = f[s]
    BY <1>1, <1>3
  <1>6. ASSUME NEW s \in D, f[s] \in {"ready", "leased", "running"}, step[s] # f[s], NEW n \in Needs[s]
        PROVE  /\ n \in D
               /\ f[n] \in {"passed", "cached"} \/ (f[n] = "failed" /\ n \in Tolerated)
    <2>1. w[s] = "pending" /\ f[s] = "ready"
      BY <1>1, <1>3, <1>6
    <2>2. Satisfied(w, Tolerated, n)
      BY <2>1, <1>3
    <2> QED
      BY <2>2, <1>1, <1>3 DEF Satisfied
  <1>7. ASSUME NEW s \in D, f[s] = "skipped", step[s] # "skipped"
        PROVE  \E r \in D : \/ f[r] = "errored" \/ step[r] = "skipped"
                            \/ f[r] = "failed" /\ r \notin Tolerated
    <2>1. w[s] = "pending"
      BY <1>1, <1>3, <1>7
    <2>2. PICK r \in D : f[r] = "errored" \/ Blocked(w, Tolerated, r)
      BY <2>1, <1>3, <1>7
    <2>3. CASE Blocked(w, Tolerated, r)
      BY <2>3, <1>1, <1>3 DEF Blocked, Satisfied
    <2> QED
      BY <2>2, <2>3
  <1> QED
    BY <1>3, <1>4, <1>5, <1>6, <1>7 DEF f, D

\* Every step preserves the types.
LEMMA TypeStep == TypeInv /\ PhaseInv /\ [Next]_vars => TypeOK'
  <1> SUFFICES ASSUME TypeInv /\ PhaseInv, [Next]_vars PROVE TypeOK'
    OBVIOUS
  <1> USE DEF storeVars, clockVars, ctrlVars, queueVars, drvVars, pumpVars,
              nodeVars
  <1>1. CASE UNCHANGED <<job, step, due, lapsed, late, trees, leases, permit, claims, admitted, place, pc, decision, cancel, grants, hand, answer, moved, woken, run, outcome, slotsFree, launches>>
    BY <1>1 DEF TypeInv, TypeOK
  <1>2. CASE UNCHANGED vars
    BY <1>1, <1>2 DEF vars
  <1>3. ASSUME NEW s \in Steps, StepClockFires(s) PROVE TypeOK'
    BY <1>3 DEF StepClockFires, TypeInv, TypeOK, HandInv, HandsOut
  <1>4. ASSUME NEW s \in Steps, LeaseLapses(s) PROVE TypeOK'
    BY <1>4 DEF LeaseLapses, TypeInv, TypeOK, HandInv, HandsOut
  <1>5. ASSUME NEW j \in Jobs, JobClockFires(j) PROVE TypeOK'
    BY <1>5 DEF JobClockFires, TypeInv, TypeOK, HandInv, HandsOut
  <1>6. ASSUME NEW j \in Jobs, Begin(j) PROVE TypeOK'
    BY <1>6 DEF Begin, JobTransition, JobEdge, JobStates, Statuses, DriverPC,
       TypeInv, TypeOK, HandInv, HandsOut
  <1>7. ASSUME NEW j \in Jobs, Fetched(j) PROVE TypeOK'
    BY <1>7 DEF Fetched, JobTransition, JobEdge, JobStates, Statuses,
       DriverPC, TypeInv, TypeOK, HandInv, HandsOut
  <1>8. ASSUME NEW j \in Jobs, Planned(j) PROVE TypeOK'
    BY <1>8 DEF Planned, DriverPC, TypeInv, TypeOK, HandInv, HandsOut
  <1>9. ASSUME NEW j \in Jobs, GivesUp(j) PROVE TypeOK'
    BY <1>9 DEF GivesUp, DriverPC, Statuses, TypeInv, TypeOK, HandInv,
       HandsOut
  <1>10. ASSUME NEW j \in Jobs, PushSteps(j) PROVE TypeOK'
    BY <1>10 DEF PushSteps, JobTransition, JobEdge, JobStates, Statuses,
       DriverPC, StepStates, TypeInv, TypeOK, HandInv, HandsOut
  <1>11. ASSUME NEW j \in Jobs, FoldPass(j) PROVE TypeOK'
    <2>1. \A s \in StepsOf(j) : step[s] # "absent"
      BY <1>11 DEF FoldPass, TypeInv, PhaseInv, InLoop
    <2>2. Folded(j) \in [StepsOf(j) -> StepStates]
      BY <2>1, FoldFacts DEF TypeInv
    <2>3. step' \in [Steps -> StepStates \cup {"absent"}]
      BY <1>11, <2>2 DEF FoldPass, TypeInv, TypeOK, StepsOf
    <2>4. Fold(Folded(j), Tolerated) \in Statuses \cup {NoVerdict}
      BY DEF Fold, Statuses
    <2>5. decision' \in [Jobs -> Statuses \cup {NoVerdict}]
      BY <1>11, <2>4 DEF FoldPass, TypeInv, TypeOK, Statuses
    <2>6. ToCancel(Folded(j)) \subseteq Steps
      BY <2>2 DEF ToCancel, StepsOf
    <2>7. cancel' \in [Jobs -> SUBSET Steps]
      BY <1>11, <2>6 DEF FoldPass, TypeInv, TypeOK
    <2>8. pc' \in [Jobs -> DriverPC]
      BY <1>11 DEF FoldPass, TypeInv, TypeOK, DriverPC
    <2>9. due' \subseteq Steps
      BY <1>11 DEF FoldPass, TypeInv, TypeOK
    <2> QED
      BY <1>11, <2>3, <2>5, <2>7, <2>8, <2>9 DEF FoldPass, TypeInv, TypeOK
  <1>12. ASSUME NEW j \in Jobs, LookInFlight(j) PROVE TypeOK'
    BY <1>12 DEF LookInFlight, DriverPC, ToCancel, Mine, StepsOf, TypeInv,
       TypeOK, HandInv, HandsOut
  <1>13. ASSUME NEW j \in Jobs, CancelStep(j) PROVE TypeOK'
    BY <1>13 DEF CancelStep, DriverPC, RunStages, TypeInv, TypeOK, HandInv,
       HandsOut
  <1>14. ASSUME NEW j \in Jobs, MarkSkipped(j) PROVE TypeOK'
    BY <1>14 DEF MarkSkipped, DriverPC, StepsOf, StepTransition, StepEdge,
       StepStates, TypeInv, TypeOK, HandInv, HandsOut
  <1>15. ASSUME NEW j \in Jobs, Cancelled(j) PROVE TypeOK'
    BY <1>15 DEF Cancelled, DriverPC, TypeInv, TypeOK, HandInv, HandsOut
  <1>16. ASSUME NEW j \in Jobs, Notified(j) PROVE TypeOK'
    BY <1>16 DEF Notified, DriverPC, TypeInv, TypeOK, HandInv, HandsOut
  <1>17. ASSUME NEW j \in Jobs, DeadlineWakes(j) PROVE TypeOK'
    BY <1>17 DEF DeadlineWakes, DriverPC, TypeInv, TypeOK, HandInv, HandsOut
  <1>18. ASSUME NEW j \in Jobs, Select(j) PROVE TypeOK'
    <2>1. Reconciled(j) \in [Steps -> {"none", "waiting", "running"}]
      BY DEF Reconciled, Placed, TypeInv, TypeOK
    <2>2. PICK g \in SUBSET Waiting(Reconciled(j)) :
            /\ grants' = [grants EXCEPT ![j] = g]
            /\ place' = [s \in Steps |-> IF s \in g THEN "running" ELSE Reconciled(j)[s]]
      BY <1>18 DEF Select, Granting
    <2>3. grants' \in [Jobs -> SUBSET Steps] /\ place' \in [Steps -> {"none", "waiting", "running"}]
      BY <2>1, <2>2 DEF Waiting, TypeInv, TypeOK
    <2>4. pc' \in [Jobs -> DriverPC] /\ admitted' \subseteq Jobs
      BY <1>18 DEF Select, DriverPC, TypeInv, TypeOK
    <2> QED
      BY <1>18, <2>3, <2>4 DEF Select, TypeInv, TypeOK
  <1>19. ASSUME NEW j \in Jobs, SelectForOthers(j) PROVE TypeOK'
    BY <1>19 DEF SelectForOthers, Granting, DriverPC, Waiting, TypeInv,
       TypeOK, HandInv, HandsOut
  <1>20. ASSUME NEW j \in Jobs, Claim(j) PROVE TypeOK'
    BY <1>20 DEF Claim, Answers, TypeInv, TypeOK, HandInv, HandsOut
  <1>21. ASSUME NEW j \in Jobs, AssignLeased(j) PROVE TypeOK'
    BY <1>21, PipelineAssumption DEF AssignLeased, Answers, RunStages,
       TypeInv, TypeOK, HandInv, HandsOut
  <1>22. ASSUME NEW j \in Jobs, AssignRejected(j) PROVE TypeOK'
    BY <1>22 DEF AssignRejected, Answers, TypeInv, TypeOK, HandInv, HandsOut
  <1>23. ASSUME NEW j \in Jobs, AssignFull(j) PROVE TypeOK'
    BY <1>23 DEF AssignFull, Answers, TypeInv, TypeOK, HandInv, HandsOut
  <1>24. ASSUME NEW j \in Jobs, SettleFull(j) PROVE TypeOK'
    BY <1>24 DEF SettleFull, Answers, TypeInv, TypeOK, HandInv, HandsOut
  <1>25. ASSUME NEW j \in Jobs, Settle(j) PROVE TypeOK'
    <2>1. hand[j] \in Steps /\ JobOf[hand[j]] \in Jobs
      BY <1>25, PipelineAssumption DEF Settle, TypeInv, TypeOK, HandInv, HandsOut
    <2>2. step' \in [Steps -> StepStates \cup {"absent"}]
      BY <1>25, <2>1 DEF Settle, StepTransition, StepStates, TypeInv, TypeOK
    <2>3. /\ due' \subseteq Steps /\ moved' \subseteq Jobs
          /\ woken' \in [Jobs -> SUBSET Jobs]
      BY <1>25, <2>1 DEF Settle, TypeInv, TypeOK
    <2>4. answer' \in [Jobs -> Answers] /\ hand' \in [Jobs -> Steps \cup {None}]
      BY <1>25 DEF Settle, Answers, TypeInv, TypeOK
    <2> QED
      BY <1>25, <2>2, <2>3, <2>4 DEF Settle, TypeInv, TypeOK
  <1>26. ASSUME NEW j \in Jobs, Drop(j) PROVE TypeOK'
    BY <1>26 DEF Drop, Answers, TypeInv, TypeOK, HandInv, HandsOut
  <1>27. ASSUME NEW j \in Jobs, EndPump(j) PROVE TypeOK'
    BY <1>27 DEF EndPump, DriverPC, TypeInv, TypeOK, HandInv, HandsOut
  <1>28. ASSUME NEW j \in Jobs, Finish(j) PROVE TypeOK'
    BY <1>28 DEF Finish, JobTransition, JobEdge, JobStates, Statuses,
       DriverPC, TypeInv, TypeOK, HandInv, HandsOut
  <1>29. ASSUME NEW j \in Jobs, Retire(j) PROVE TypeOK'
    BY <1>29 DEF Retire, DriverPC, TypeInv, TypeOK, HandInv, HandsOut
  <1>30. ASSUME NEW j \in Jobs, Reported(j) PROVE TypeOK'
    BY <1>30 DEF Reported, DriverPC, TypeInv, TypeOK, HandInv, HandsOut
  <1>31. ASSUME NEW s \in Steps, RunStarts(s) PROVE TypeOK'
    BY <1>31, PipelineAssumption DEF RunStarts, RunStages, TypeInv, TypeOK,
       HandInv, HandsOut
  <1>32. ASSUME NEW s \in Steps, MaterializeFails(s) PROVE TypeOK'
    BY <1>32 DEF MaterializeFails, RunStages, TypeInv, TypeOK, HandInv,
       HandsOut
  <1>33. ASSUME NEW s \in Steps, RunEnds(s) PROVE TypeOK'
    BY <1>33, PipelineAssumption DEF RunEnds, RunStages, TypeInv, TypeOK,
       HandInv, HandsOut
  <1>34. ASSUME NEW s \in Steps, ReportAccepted(s) PROVE TypeOK'
    <2>1. JobOf[s] \in Jobs
      BY PipelineAssumption
    <2>2. step' \in [Steps -> StepStates \cup {"absent"}]
      BY <1>34 DEF ReportAccepted, StepTransition, StepEdge, StepStates, TypeInv, TypeOK
    <2>3. run' \in [Steps -> RunStages] /\ due' \subseteq Steps /\ permit' \subseteq Jobs
      BY <1>34, <2>1 DEF ReportAccepted, RunStages, TypeInv, TypeOK
    <2> QED
      BY <1>34, <2>2, <2>3 DEF ReportAccepted, TypeInv, TypeOK
  <1>35. ASSUME NEW s \in Steps, ReportRefused(s) PROVE TypeOK'
    BY <1>35 DEF ReportRefused, RunStages, TypeInv, TypeOK, HandInv, HandsOut
  <1> QED
    BY <1>1, <1>2, <1>3, <1>4, <1>5, <1>6, <1>7, <1>8, <1>9, <1>10, <1>11,
       <1>12, <1>13, <1>14, <1>15, <1>16, <1>17, <1>18, <1>19, <1>20, <1>21,
       <1>22, <1>23, <1>24, <1>25, <1>26, <1>27, <1>28, <1>29, <1>30, <1>31,
       <1>32, <1>33, <1>34, <1>35 DEF Next, Clock, Driver, Phases, Loop, Pump,
       Ending, Node

\* Every step keeps the drivers' local variables where they belong.
LEMMA HandStep == TypeInv /\ [Next]_vars => HandInv'
  <1> SUFFICES ASSUME TypeInv, [Next]_vars PROVE HandInv'
    OBVIOUS
  <1> USE DEF storeVars, clockVars, ctrlVars, queueVars, drvVars, pumpVars,
              nodeVars
  <1>1. CASE UNCHANGED <<pc, answer, hand, cancel>>
    BY <1>1 DEF TypeInv, HandInv, HandsOut
  <1>2. CASE UNCHANGED vars
    BY <1>1, <1>2 DEF vars
  <1>3. ASSUME NEW s \in Steps, StepClockFires(s) \/ LeaseLapses(s)
        PROVE  HandInv'
    BY <1>1, <1>3 DEF StepClockFires, LeaseLapses
  <1>4. ASSUME NEW j \in Jobs, JobClockFires(j) PROVE HandInv'
    BY <1>1, <1>4 DEF JobClockFires
  <1>5. ASSUME NEW j \in Jobs, Begin(j) PROVE HandInv'
    BY <1>5 DEF Begin, TypeInv, TypeOK, HandInv, HandsOut, StepsOf
  <1>6. ASSUME NEW j \in Jobs, Fetched(j) PROVE HandInv'
    BY <1>6 DEF Fetched, TypeInv, TypeOK, HandInv, HandsOut, StepsOf
  <1>7. ASSUME NEW j \in Jobs, Planned(j) PROVE HandInv'
    BY <1>7 DEF Planned, TypeInv, TypeOK, HandInv, HandsOut, StepsOf
  <1>8. ASSUME NEW j \in Jobs, GivesUp(j) PROVE HandInv'
    BY <1>8 DEF GivesUp, TypeInv, TypeOK, HandInv, HandsOut, StepsOf
  <1>9. ASSUME NEW j \in Jobs, PushSteps(j) PROVE HandInv'
    BY <1>9 DEF PushSteps, TypeInv, TypeOK, HandInv, HandsOut, StepsOf
  <1>10. ASSUME NEW j \in Jobs, FoldPass(j) PROVE HandInv'
    <2>1. ToCancel(Folded(j)) \subseteq StepsOf(j)
      BY FoldDomain DEF ToCancel
    <2>2. cancel' = cancel \/ cancel' = [cancel EXCEPT ![j] = ToCancel(Folded(j))]
      BY <1>10 DEF FoldPass
    <2>3. \A i \in Jobs : cancel'[i] \subseteq StepsOf(i)
      BY <2>1, <2>2 DEF TypeInv, TypeOK, HandInv
    <2>4. \A i \in Jobs : pc'[i] = pc[i] \/ (i = j /\ pc'[i] \in {"look", "cancel", "pump"})
      BY <1>10 DEF FoldPass, TypeInv, TypeOK
    <2> QED
      BY <1>10, <2>3, <2>4 DEF FoldPass, TypeInv, TypeOK, HandInv, HandsOut
  <1>11. ASSUME NEW j \in Jobs, LookInFlight(j) PROVE HandInv'
    BY <1>11 DEF LookInFlight, ToCancel, Mine, TypeInv, TypeOK, HandInv,
       HandsOut, StepsOf
  <1>12. ASSUME NEW j \in Jobs, CancelStep(j) PROVE HandInv'
    BY <1>12, NoneAssumption DEF CancelStep, TypeInv, TypeOK, HandInv,
       HandsOut, StepsOf
  <1>13. ASSUME NEW j \in Jobs, MarkSkipped(j) PROVE HandInv'
    BY <1>13, NoneAssumption DEF MarkSkipped, TypeInv, TypeOK, HandInv,
       HandsOut, StepsOf
  <1>14. ASSUME NEW j \in Jobs, Cancelled(j) PROVE HandInv'
    BY <1>14 DEF Cancelled, TypeInv, TypeOK, HandInv, HandsOut, StepsOf
  <1>15. ASSUME NEW j \in Jobs, Notified(j) PROVE HandInv'
    BY <1>15 DEF Notified, TypeInv, TypeOK, HandInv, HandsOut, StepsOf
  <1>16. ASSUME NEW j \in Jobs, DeadlineWakes(j) PROVE HandInv'
    BY <1>16 DEF DeadlineWakes, TypeInv, TypeOK, HandInv, HandsOut, StepsOf
  <1>17. ASSUME NEW j \in Jobs, Select(j) PROVE HandInv'
    BY <1>17, NoneAssumption DEF Select, Granting, TypeInv, TypeOK, HandInv,
       HandsOut, StepsOf
  <1>18. ASSUME NEW j \in Jobs, SelectForOthers(j) PROVE HandInv'
    BY <1>18, NoneAssumption DEF SelectForOthers, Granting, TypeInv, TypeOK,
       HandInv, HandsOut, StepsOf
  <1>19. ASSUME NEW j \in Jobs, Claim(j) PROVE HandInv'
    BY <1>19, NoneAssumption DEF Claim, TypeInv, TypeOK, HandInv, HandsOut,
       StepsOf
  <1>20. ASSUME NEW j \in Jobs, AssignLeased(j) PROVE HandInv'
    BY <1>20, NoneAssumption DEF AssignLeased, TypeInv, TypeOK, HandInv,
       HandsOut, StepsOf
  <1>21. ASSUME NEW j \in Jobs, AssignRejected(j) PROVE HandInv'
    BY <1>21, NoneAssumption DEF AssignRejected, TypeInv, TypeOK, HandInv,
       HandsOut, StepsOf
  <1>22. ASSUME NEW j \in Jobs, AssignFull(j) PROVE HandInv'
    BY <1>22, NoneAssumption DEF AssignFull, TypeInv, TypeOK, HandInv,
       HandsOut, StepsOf
  <1>23. ASSUME NEW j \in Jobs, SettleFull(j) PROVE HandInv'
    BY <1>23, NoneAssumption DEF SettleFull, TypeInv, TypeOK, HandInv,
       HandsOut, StepsOf
  <1>24. ASSUME NEW j \in Jobs, Settle(j) PROVE HandInv'
    BY <1>24, NoneAssumption DEF Settle, TypeInv, TypeOK, HandInv, HandsOut,
       StepsOf
  <1>25. ASSUME NEW j \in Jobs, Drop(j) PROVE HandInv'
    BY <1>25, NoneAssumption DEF Drop, TypeInv, TypeOK, HandInv, HandsOut,
       StepsOf
  <1>26. ASSUME NEW j \in Jobs, EndPump(j) PROVE HandInv'
    BY <1>26, NoneAssumption DEF EndPump, TypeInv, TypeOK, HandInv, HandsOut,
       StepsOf
  <1>27. ASSUME NEW j \in Jobs, Finish(j) PROVE HandInv'
    BY <1>27 DEF Finish, TypeInv, TypeOK, HandInv, HandsOut, StepsOf
  <1>28. ASSUME NEW j \in Jobs, Retire(j) PROVE HandInv'
    BY <1>28 DEF Retire, TypeInv, TypeOK, HandInv, HandsOut, StepsOf
  <1>29. ASSUME NEW j \in Jobs, Reported(j) PROVE HandInv'
    BY <1>29 DEF Reported, TypeInv, TypeOK, HandInv, HandsOut, StepsOf
  <1>30. ASSUME NEW s \in Steps, RunStarts(s) \/ MaterializeFails(s) \/
              RunEnds(s) \/ ReportAccepted(s) \/ ReportRefused(s)
        PROVE  HandInv'
    BY <1>1, <1>30 DEF RunStarts, MaterializeFails, RunEnds, ReportAccepted,
       ReportRefused
  <1> QED
    BY <1>1, <1>2, <1>3, <1>4, <1>5, <1>6, <1>7, <1>8, <1>9, <1>10, <1>11,
       <1>12, <1>13, <1>14, <1>15, <1>16, <1>17, <1>18, <1>19, <1>20, <1>21,
       <1>22, <1>23, <1>24, <1>25, <1>26, <1>27, <1>28, <1>29, <1>30 DEF Next,
       Clock, Driver, Phases, Loop, Pump, Ending, Node

\* Every step keeps the phases of a job in step with its driver.
LEMMA PhaseStep == TypeInv /\ PhaseInv /\ [Next]_vars => PhaseInv'
  <1> SUFFICES ASSUME TypeInv /\ PhaseInv, [Next]_vars PROVE PhaseInv'
    OBVIOUS
  <1> USE DEF storeVars, clockVars, ctrlVars, queueVars, drvVars, pumpVars,
              nodeVars
  <1>1. CASE UNCHANGED <<pc, step, job>>
    BY <1>1 DEF PhaseInv
  <1>2. CASE UNCHANGED vars
    BY <1>1, <1>2 DEF vars
  <1>3. ASSUME NEW s \in Steps, StepClockFires(s) \/ LeaseLapses(s)
        PROVE  PhaseInv'
    BY <1>1, <1>3 DEF StepClockFires, LeaseLapses
  <1>4. ASSUME NEW j \in Jobs, JobClockFires(j) PROVE PhaseInv'
    BY <1>1, <1>4 DEF JobClockFires
  <1>5. ASSUME NEW j \in Jobs, Claim(j) \/ AssignLeased(j) \/
              AssignRejected(j) \/ AssignFull(j) \/ SettleFull(j) \/ Drop(j)
        PROVE  PhaseInv'
    BY <1>1, <1>5 DEF Claim, AssignLeased, AssignRejected, AssignFull,
       SettleFull, Drop
  <1>6. ASSUME NEW j \in Jobs, Begin(j) PROVE PhaseInv'
    BY <1>6 DEF Begin, JobTransition, JobEdge, JobStates, Statuses,
       HasVerdict, TypeInv, TypeOK, PhaseInv, Early, InLoop, Ended
  <1>7. ASSUME NEW j \in Jobs, Fetched(j) PROVE PhaseInv'
    BY <1>7 DEF Fetched, JobTransition, JobEdge, JobStates, Statuses,
       HasVerdict, TypeInv, TypeOK, PhaseInv, Early, InLoop, Ended
  <1>8. ASSUME NEW j \in Jobs, Planned(j) PROVE PhaseInv'
    BY <1>8 DEF Planned, TypeInv, TypeOK, PhaseInv, Early, InLoop, Ended
  <1>9. ASSUME NEW j \in Jobs, GivesUp(j) PROVE PhaseInv'
    BY <1>9 DEF GivesUp, TypeInv, TypeOK, PhaseInv, Early, InLoop, Ended
  <1>10. ASSUME NEW j \in Jobs, PushSteps(j) PROVE PhaseInv'
    BY <1>10 DEF PushSteps, JobTransition, JobEdge, JobStates, Statuses,
       HasVerdict, StepsOf, TypeInv, TypeOK, PhaseInv, Early, InLoop, Ended
  <1>11. ASSUME NEW j \in Jobs, FoldPass(j) PROVE PhaseInv'
    <2>1. \A s \in StepsOf(j) : step[s] # "absent"
      BY <1>11 DEF FoldPass, PhaseInv, InLoop
    <2>2. Folded(j) \in [StepsOf(j) -> StepStates]
      BY <2>1, FoldFacts DEF TypeInv
    <2>3. \A s \in Steps : IF s \in StepsOf(j) THEN step'[s] # "absent" ELSE step'[s] = step[s]
      BY <1>11, <2>2 DEF FoldPass, StepsOf, StepStates
    <2>4. \A i \in Jobs : IF i = j THEN pc'[i] \in {"look", "cancel", "pump"} ELSE pc'[i] = pc[i]
      BY <1>11 DEF FoldPass, TypeInv, TypeOK
    <2>5. pc[j] = "fold" /\ job' = job
      BY <1>11 DEF FoldPass
    <2> QED
      BY <2>3, <2>4, <2>5 DEF PhaseInv, Early, InLoop, Ended, StepsOf
  <1>12. ASSUME NEW j \in Jobs, LookInFlight(j) PROVE PhaseInv'
    BY <1>12 DEF LookInFlight, TypeInv, TypeOK, PhaseInv, Early, InLoop, Ended
  <1>13. ASSUME NEW j \in Jobs, CancelStep(j) PROVE PhaseInv'
    BY <1>13 DEF CancelStep, TypeInv, TypeOK, PhaseInv, Early, InLoop, Ended
  <1>14. ASSUME NEW j \in Jobs, MarkSkipped(j) PROVE PhaseInv'
    BY <1>14 DEF MarkSkipped, StepTransition, StepEdge, StepStates, HandInv,
       HandsOut, StepsOf, TypeInv, TypeOK, PhaseInv, Early, InLoop, Ended
  <1>15. ASSUME NEW j \in Jobs, Cancelled(j) PROVE PhaseInv'
    BY <1>15 DEF Cancelled, TypeInv, TypeOK, PhaseInv, Early, InLoop, Ended
  <1>16. ASSUME NEW j \in Jobs, Notified(j) PROVE PhaseInv'
    BY <1>16 DEF Notified, TypeInv, TypeOK, PhaseInv, Early, InLoop, Ended
  <1>17. ASSUME NEW j \in Jobs, DeadlineWakes(j) PROVE PhaseInv'
    BY <1>17 DEF DeadlineWakes, TypeInv, TypeOK, PhaseInv, Early, InLoop,
       Ended
  <1>18. ASSUME NEW j \in Jobs, Select(j) PROVE PhaseInv'
    BY <1>18 DEF Select, Granting, TypeInv, TypeOK, PhaseInv, Early, InLoop,
       Ended
  <1>19. ASSUME NEW j \in Jobs, SelectForOthers(j) PROVE PhaseInv'
    BY <1>19 DEF SelectForOthers, Granting, TypeInv, TypeOK, PhaseInv, Early,
       InLoop, Ended
  <1>20. ASSUME NEW j \in Jobs, Settle(j) PROVE PhaseInv'
    BY <1>20 DEF Settle, StepTransition, StepEdge, StepStates, HandInv,
       HandsOut, TypeInv, TypeOK, PhaseInv, Early, InLoop, Ended
  <1>21. ASSUME NEW j \in Jobs, EndPump(j) PROVE PhaseInv'
    BY <1>21 DEF EndPump, HandsOut, TypeInv, TypeOK, PhaseInv, Early, InLoop,
       Ended
  <1>22. ASSUME NEW j \in Jobs, Finish(j) PROVE PhaseInv'
    BY <1>22 DEF Finish, JobTransition, JobEdge, JobStates, Statuses,
       HasVerdict, TypeInv, TypeOK, PhaseInv, Early, InLoop, Ended
  <1>23. ASSUME NEW j \in Jobs, Retire(j) PROVE PhaseInv'
    BY <1>23 DEF Retire, TypeInv, TypeOK, PhaseInv, Early, InLoop, Ended
  <1>24. ASSUME NEW j \in Jobs, Reported(j) PROVE PhaseInv'
    BY <1>24 DEF Reported, TypeInv, TypeOK, PhaseInv, Early, InLoop, Ended
  <1>25. ASSUME NEW s \in Steps, RunStarts(s) \/ MaterializeFails(s) \/
              RunEnds(s) \/ ReportRefused(s)
        PROVE  PhaseInv'
    BY <1>1, <1>25 DEF RunStarts, MaterializeFails, RunEnds, ReportRefused
  <1>26. ASSUME NEW s \in Steps, ReportAccepted(s) PROVE PhaseInv'
    BY <1>26 DEF ReportAccepted, StepTransition, StepEdge, StepStates,
       TypeInv, TypeOK, PhaseInv, Early, InLoop, Ended
  <1> QED
    BY <1>1, <1>2, <1>3, <1>4, <1>5, <1>6, <1>7, <1>8, <1>9, <1>10, <1>11,
       <1>12, <1>13, <1>14, <1>15, <1>16, <1>17, <1>18, <1>19, <1>20, <1>21,
       <1>22, <1>23, <1>24, <1>25, <1>26 DEF Next, Clock, Driver, Phases,
       Loop, Pump, Ending, Node

\* Every step keeps the claim a token: this is where a dropped claim check shows.
LEMMA ClaimStep == TypeInv /\ ClaimInv /\ [Next]_vars => ClaimInv'
  <1> SUFFICES ASSUME TypeInv /\ ClaimInv, [Next]_vars PROVE ClaimInv'
    OBVIOUS
  <1> USE DEF storeVars, clockVars, ctrlVars, queueVars, drvVars, pumpVars,
              nodeVars
  <1>1. CASE UNCHANGED <<answer, hand, claims, launches, run>>
    BY <1>1 DEF ClaimInv
  <1>2. CASE UNCHANGED vars
    BY <1>1, <1>2 DEF vars
  <1>3. ASSUME NEW s \in Steps, StepClockFires(s) \/ LeaseLapses(s)
        PROVE  ClaimInv'
    BY <1>1, <1>3 DEF StepClockFires, LeaseLapses
  <1>4. ASSUME NEW j \in Jobs, JobClockFires(j) PROVE ClaimInv'
    BY <1>1, <1>4 DEF JobClockFires
  <1>5. ASSUME NEW j \in Jobs, Begin(j) \/ Fetched(j) \/ Planned(j) \/
              GivesUp(j) \/ PushSteps(j) \/ FoldPass(j) \/ LookInFlight(j) \/
              Cancelled(j) \/ Notified(j) \/ DeadlineWakes(j) \/ Select(j) \/
              SelectForOthers(j) \/ EndPump(j) \/ Finish(j) \/ Retire(j) \/
              Reported(j)
        PROVE  ClaimInv'
    BY <1>1, <1>5 DEF Begin, Fetched, Planned, GivesUp, PushSteps, FoldPass,
       LookInFlight, Cancelled, Notified, DeadlineWakes, Select,
       SelectForOthers, EndPump, Finish, Retire, Reported, Granting
  <1>6. ASSUME NEW j \in Jobs, CancelStep(j) PROVE ClaimInv'
    BY <1>6, NoneAssumption, SMTT(30) DEF CancelStep, TypeInv, TypeOK, HandInv,
       HandsOut, ClaimInv
  <1>7. ASSUME NEW j \in Jobs, MarkSkipped(j) PROVE ClaimInv'
    BY <1>7, NoneAssumption DEF MarkSkipped, TypeInv, TypeOK, HandInv,
       HandsOut, ClaimInv
  <1>8. ASSUME NEW j \in Jobs, Claim(j) PROVE ClaimInv'
    BY <1>8, NoneAssumption DEF Claim, StepClaim, TypeInv, TypeOK, HandInv,
       HandsOut, ClaimInv
  <1>9. ASSUME NEW j \in Jobs, AssignLeased(j) PROVE ClaimInv'
    BY <1>9, NoneAssumption DEF AssignLeased, TypeInv, TypeOK, HandInv,
       HandsOut, ClaimInv
  <1>10. ASSUME NEW j \in Jobs, AssignRejected(j) PROVE ClaimInv'
    BY <1>10 DEF AssignRejected, TypeInv, TypeOK, HandInv, HandsOut, ClaimInv
  <1>11. ASSUME NEW j \in Jobs, AssignFull(j) PROVE ClaimInv'
    BY <1>11 DEF AssignFull, TypeInv, TypeOK, HandInv, HandsOut, ClaimInv
  <1>12. ASSUME NEW j \in Jobs, SettleFull(j) PROVE ClaimInv'
    BY <1>12 DEF SettleFull, TypeInv, TypeOK, HandInv, HandsOut, ClaimInv
  <1>13. ASSUME NEW j \in Jobs, Settle(j) PROVE ClaimInv'
    BY <1>13 DEF Settle, TypeInv, TypeOK, HandInv, HandsOut, ClaimInv
  <1>14. ASSUME NEW j \in Jobs, Drop(j) PROVE ClaimInv'
    BY <1>14 DEF Drop, TypeInv, TypeOK, HandInv, HandsOut, ClaimInv
  <1>15. ASSUME NEW s \in Steps, RunStarts(s) PROVE ClaimInv'
    BY <1>15 DEF RunStarts, TypeInv, TypeOK, HandInv, HandsOut, ClaimInv
  <1>16. ASSUME NEW s \in Steps, MaterializeFails(s) PROVE ClaimInv'
    BY <1>16 DEF MaterializeFails, TypeInv, TypeOK, HandInv, HandsOut,
       ClaimInv
  <1>17. ASSUME NEW s \in Steps, RunEnds(s) PROVE ClaimInv'
    BY <1>17 DEF RunEnds, TypeInv, TypeOK, HandInv, HandsOut, ClaimInv
  <1>18. ASSUME NEW s \in Steps, ReportAccepted(s) PROVE ClaimInv'
    BY <1>18 DEF ReportAccepted, TypeInv, TypeOK, HandInv, HandsOut, ClaimInv
  <1>19. ASSUME NEW s \in Steps, ReportRefused(s) PROVE ClaimInv'
    BY <1>19 DEF ReportRefused, TypeInv, TypeOK, HandInv, HandsOut, ClaimInv
  <1> QED
    BY <1>1, <1>2, <1>3, <1>4, <1>5, <1>6, <1>7, <1>8, <1>9, <1>10, <1>11,
       <1>12, <1>13, <1>14, <1>15, <1>16, <1>17, <1>18, <1>19 DEF Next, Clock,
       Driver, Phases, Loop, Pump, Ending, Node

\* A step that has ended stays as it ended.
Forward == \A s \in Steps : StepTerminal(step[s]) => step'[s] = step[s]

\* No step of the system moves a step that has ended: sweeps, cancels, late
\* assignments and late reports included.
LEMMA ForwardStep == TypeInv /\ PhaseInv /\ [Next]_vars => Forward
  <1> SUFFICES ASSUME TypeInv /\ PhaseInv, [Next]_vars PROVE Forward
    OBVIOUS
  <1> USE DEF storeVars, clockVars, ctrlVars, queueVars, drvVars, pumpVars,
              nodeVars
  <1>1. CASE UNCHANGED <<step>>
    BY <1>1 DEF Forward
  <1>2. CASE UNCHANGED vars
    BY <1>1, <1>2 DEF vars
  <1>3. ASSUME NEW s \in Steps, StepClockFires(s) \/ LeaseLapses(s)
        PROVE  Forward
    BY <1>1, <1>3 DEF StepClockFires, LeaseLapses
  <1>4. ASSUME NEW j \in Jobs, JobClockFires(j) PROVE Forward
    BY <1>1, <1>4 DEF JobClockFires
  <1>5. ASSUME NEW j \in Jobs, Begin(j) \/ Fetched(j) \/ Planned(j) \/
              GivesUp(j) \/ LookInFlight(j) \/ CancelStep(j) \/ Cancelled(j)
              \/ Notified(j) \/ DeadlineWakes(j) \/ Select(j) \/
              SelectForOthers(j) \/ Claim(j) \/ AssignLeased(j) \/
              AssignRejected(j) \/ AssignFull(j) \/ SettleFull(j) \/ Drop(j)
              \/ EndPump(j) \/ Finish(j) \/ Retire(j) \/ Reported(j)
        PROVE  Forward
    BY <1>1, <1>5 DEF Begin, Fetched, Planned, GivesUp, LookInFlight,
       CancelStep, Cancelled, Notified, DeadlineWakes, Select,
       SelectForOthers, Claim, AssignLeased, AssignRejected, AssignFull,
       SettleFull, Drop, EndPump, Finish, Retire, Reported, Granting
  <1>6. ASSUME NEW j \in Jobs, PushSteps(j) PROVE Forward
    BY <1>6 DEF PushSteps, PhaseInv, Early, StepsOf, TypeInv, TypeOK, Forward,
       StepTerminal
  <1>7. ASSUME NEW j \in Jobs, FoldPass(j) PROVE Forward
    <2>1. \A s \in StepsOf(j) : step[s] # "absent"
      BY <1>7 DEF FoldPass, PhaseInv, InLoop
    <2>2. \A s \in StepsOf(j) : StepTerminal(step[s]) => Folded(j)[s] = step[s]
      BY <2>1, FoldFacts DEF TypeInv
    <2> QED
      BY <1>7, <2>2 DEF FoldPass, StepsOf, Forward
  <1>8. ASSUME NEW j \in Jobs, MarkSkipped(j) PROVE Forward
    BY <1>8 DEF MarkSkipped, StepTransition, StepEdge, StepStates, HandInv,
       StepsOf, TypeInv, TypeOK, Forward, StepTerminal
  <1>9. ASSUME NEW j \in Jobs, Settle(j) PROVE Forward
    BY <1>9 DEF Settle, StepTransition, StepEdge, StepStates, HandInv,
       HandsOut, TypeInv, TypeOK, Forward, StepTerminal
  <1>10. ASSUME NEW s \in Steps, RunStarts(s) \/ MaterializeFails(s) \/
              RunEnds(s) \/ ReportRefused(s)
        PROVE  Forward
    BY <1>1, <1>10 DEF RunStarts, MaterializeFails, RunEnds, ReportRefused
  <1>11. ASSUME NEW s \in Steps, ReportAccepted(s) PROVE Forward
    BY <1>11 DEF ReportAccepted, StepTransition, StepEdge, StepStates,
       TypeInv, TypeOK, Forward, StepTerminal
  <1> QED
    BY <1>1, <1>2, <1>3, <1>4, <1>5, <1>6, <1>7, <1>8, <1>9, <1>10, <1>11 DEF
       Next, Clock, Driver, Phases, Loop, Pump, Ending, Node

\* A result comes from the one run that ended with it.
LEMMA RunStep == TypeInv /\ PhaseInv /\ ClaimInv /\ RunInv /\ [Next]_vars => RunInv'
  <1> SUFFICES ASSUME TypeInv /\ PhaseInv /\ ClaimInv /\ RunInv, [Next]_vars PROVE RunInv'
    OBVIOUS
  <1> USE DEF storeVars, clockVars, ctrlVars, queueVars, drvVars, pumpVars,
              nodeVars
  <1>1. CASE UNCHANGED <<step, run, outcome>>
    BY <1>1 DEF RunInv
  <1>2. CASE UNCHANGED vars
    BY <1>1, <1>2 DEF vars
  <1>3. ASSUME NEW s \in Steps, StepClockFires(s) \/ LeaseLapses(s)
        PROVE  RunInv'
    BY <1>1, <1>3 DEF StepClockFires, LeaseLapses
  <1>4. ASSUME NEW j \in Jobs, JobClockFires(j) PROVE RunInv'
    BY <1>1, <1>4 DEF JobClockFires
  <1>5. ASSUME NEW j \in Jobs, Begin(j) \/ Fetched(j) \/ Planned(j) \/
              GivesUp(j) \/ LookInFlight(j) \/ Cancelled(j) \/ Notified(j) \/
              DeadlineWakes(j) \/ Select(j) \/ SelectForOthers(j) \/ Claim(j)
              \/ AssignRejected(j) \/ AssignFull(j) \/ SettleFull(j) \/
              Drop(j) \/ EndPump(j) \/ Finish(j) \/ Retire(j) \/ Reported(j)
        PROVE  RunInv'
    BY <1>1, <1>5 DEF Begin, Fetched, Planned, GivesUp, LookInFlight,
       Cancelled, Notified, DeadlineWakes, Select, SelectForOthers, Claim,
       AssignRejected, AssignFull, SettleFull, Drop, EndPump, Finish, Retire,
       Reported, Granting
  <1>6. ASSUME NEW j \in Jobs, PushSteps(j) PROVE RunInv'
    BY <1>6 DEF PushSteps, TypeInv, TypeOK, RunInv
  <1>7. ASSUME NEW j \in Jobs, FoldPass(j) PROVE RunInv'
    <2>1. \A s \in StepsOf(j) : step[s] # "absent"
      BY <1>7 DEF FoldPass, PhaseInv, InLoop
    <2>2. \A s \in StepsOf(j) : Folded(j)[s] \in {"passed", "failed", "cached"} => step[s] = Folded(j)[s]
      BY <2>1, FoldFacts DEF TypeInv
    <2>3. \A s \in Steps : step'[s] \in {"passed", "failed", "cached"} => step[s] = step'[s]
      BY <1>7, <2>2 DEF FoldPass, StepsOf
    <2> QED
      BY <1>7, <2>3 DEF FoldPass, RunInv
  <1>8. ASSUME NEW j \in Jobs, CancelStep(j) PROVE RunInv'
    BY <1>8 DEF CancelStep, TypeInv, TypeOK, RunInv
  <1>9. ASSUME NEW j \in Jobs, MarkSkipped(j) PROVE RunInv'
    BY <1>9 DEF MarkSkipped, StepTransition, StepEdge, StepStates, HandInv,
       StepsOf, TypeInv, TypeOK, RunInv
  <1>10. ASSUME NEW j \in Jobs, AssignLeased(j) PROVE RunInv'
    BY <1>10 DEF AssignLeased, ClaimInv, HandInv, HandsOut, TypeInv, TypeOK,
       RunInv
  <1>11. ASSUME NEW j \in Jobs, Settle(j) PROVE RunInv'
    BY <1>11 DEF Settle, StepTransition, StepEdge, StepStates, HandInv,
       HandsOut, TypeInv, TypeOK, RunInv
  <1>12. ASSUME NEW s \in Steps, RunStarts(s) PROVE RunInv'
    BY <1>12 DEF RunStarts, TypeInv, TypeOK, RunInv
  <1>13. ASSUME NEW s \in Steps, MaterializeFails(s) PROVE RunInv'
    BY <1>13 DEF MaterializeFails, TypeInv, TypeOK, RunInv
  <1>14. ASSUME NEW s \in Steps, RunEnds(s) PROVE RunInv'
    BY <1>14 DEF RunEnds, TypeInv, TypeOK, RunInv
  <1>15. ASSUME NEW s \in Steps, ReportAccepted(s) PROVE RunInv'
    BY <1>15 DEF ReportAccepted, StepTransition, StepEdge, StepStates,
       TypeInv, TypeOK, RunInv
  <1>16. ASSUME NEW s \in Steps, ReportRefused(s) PROVE RunInv'
    BY <1>16 DEF ReportRefused, TypeInv, TypeOK, RunInv
  <1> QED
    BY <1>1, <1>2, <1>3, <1>4, <1>5, <1>6, <1>7, <1>8, <1>9, <1>10, <1>11,
       <1>12, <1>13, <1>14, <1>15, <1>16 DEF Next, Clock, Driver, Phases,
       Loop, Pump, Ending, Node

\* Only a pass of its own driver makes a step ready; every other step of the
\* system passes on what was ready already.
ReachedAfter == \A s \in Steps : Reached(s)' => Reached(s) \/ NeedsMet(s)'

\* A step becomes ready with its needs met, and stays in that order.
LEMMA ReachedStep == TypeInv /\ PhaseInv /\ [Next]_vars => ReachedAfter
  <1> SUFFICES ASSUME TypeInv /\ PhaseInv, [Next]_vars PROVE ReachedAfter
    OBVIOUS
  <1> USE DEF storeVars, clockVars, ctrlVars, queueVars, drvVars, pumpVars,
              nodeVars
  <1>1. CASE UNCHANGED <<step, place, grants, answer, hand, launches>>
    BY <1>1 DEF ReachedAfter, Reached
  <1>2. CASE UNCHANGED vars
    BY <1>1, <1>2 DEF vars
  <1>3. ASSUME NEW s \in Steps, StepClockFires(s) \/ LeaseLapses(s)
        PROVE  ReachedAfter
    BY <1>1, <1>3 DEF StepClockFires, LeaseLapses
  <1>4. ASSUME NEW j \in Jobs, JobClockFires(j) PROVE ReachedAfter
    BY <1>1, <1>4 DEF JobClockFires
  <1>5. ASSUME NEW j \in Jobs, Begin(j) \/ Fetched(j) \/ Planned(j) \/
              GivesUp(j) \/ LookInFlight(j) \/ Cancelled(j) \/ Notified(j) \/
              DeadlineWakes(j) \/ EndPump(j) \/ Finish(j) \/ Reported(j)
        PROVE  ReachedAfter
    BY <1>1, <1>5 DEF Begin, Fetched, Planned, GivesUp, LookInFlight,
       Cancelled, Notified, DeadlineWakes, EndPump, Finish, Reported
  <1>6. ASSUME NEW j \in Jobs, PushSteps(j) PROVE ReachedAfter
    BY <1>6 DEF PushSteps, TypeInv, TypeOK, HandInv, HandsOut, ReachedAfter,
       Reached
  <1>7. ASSUME NEW j \in Jobs, FoldPass(j) PROVE ReachedAfter
    <2>1. \A s \in StepsOf(j) : step[s] # "absent"
      BY <1>7 DEF FoldPass, PhaseInv, InLoop
    <2>2. \A s \in StepsOf(j) : Folded(j)[s] \in {"ready", "leased", "running"} =>
            \/ step[s] = Folded(j)[s]
            \/ \A n \in Needs[s] :
                 /\ n \in StepsOf(j)
                 /\ \/ Folded(j)[n] \in {"passed", "cached"}
                    \/ Folded(j)[n] = "failed" /\ n \in Tolerated
      BY <2>1, FoldFacts DEF TypeInv
    <2>3. \A s \in Steps : step'[s] = IF s \in StepsOf(j) THEN Folded(j)[s] ELSE step[s]
      BY <1>7 DEF FoldPass, StepsOf
    <2>4. ASSUME NEW s \in Steps, step'[s] \in {"ready", "leased", "running"}
          PROVE  step[s] \in {"ready", "leased", "running"} \/ NeedsMet(s)'
      <3>1. CASE s \notin StepsOf(j)
        BY <2>3, <2>4, <3>1
      <3>2. CASE s \in StepsOf(j)
        <4>1. JobOf[s] = j /\ StepsOf(j) \subseteq Steps
          BY <3>2 DEF StepsOf
        <4> QED
          BY <2>2, <2>3, <2>4, <3>2, <4>1 DEF NeedsMet, StepsOf
      <3> QED
        BY <3>1, <3>2
    <2>5. UNCHANGED <<place, grants, answer, hand, launches>>
      BY <1>7 DEF FoldPass
    <2> QED
      BY <2>4, <2>5 DEF ReachedAfter, Reached
  <1>8. ASSUME NEW j \in Jobs, CancelStep(j) PROVE ReachedAfter
    BY <1>8 DEF CancelStep, TypeInv, TypeOK, HandInv, HandsOut, ReachedAfter,
       Reached
  <1>9. ASSUME NEW j \in Jobs, MarkSkipped(j) PROVE ReachedAfter
    BY <1>9 DEF MarkSkipped, StepTransition, StepEdge, StepStates, StepsOf,
       TypeInv, TypeOK, HandInv, HandsOut, ReachedAfter, Reached
  <1>10. ASSUME NEW j \in Jobs, Select(j) PROVE ReachedAfter
    <2> DEFINE pl == Reconciled(j)
    <2>1. \A s \in Steps : pl[s] # "none" => Reached(s)
      BY DEF Reconciled, Placed, Reached, StepHeld, TypeInv, TypeOK
    <2>2. PICK g \in SUBSET Waiting(pl) :
            /\ grants' = [grants EXCEPT ![j] = g]
            /\ place' = [s \in Steps |-> IF s \in g THEN "running" ELSE pl[s]]
      BY <1>10 DEF Select, Granting
    <2>3. \A s \in g : s \in Steps /\ pl[s] # "none"
      BY <2>2 DEF Waiting
    <2> HIDE DEF pl
    <2>4. \A i \in Jobs : grants'[i] \subseteq grants[i] \cup g
      BY <2>2 DEF TypeInv, TypeOK
    <2>5. \A s \in Steps : place'[s] # "none" => Reached(s)
      BY <2>1, <2>2, <2>3
    <2>6. \A s \in Steps, i \in Jobs : s \in grants'[i] => Reached(s)
      BY <2>1, <2>3, <2>4 DEF Reached
    <2>7. UNCHANGED <<step, answer, hand, launches>>
      BY <1>10 DEF Select
    <2> QED
      BY <2>5, <2>6, <2>7 DEF ReachedAfter, Reached
  <1>11. ASSUME NEW j \in Jobs, SelectForOthers(j) PROVE ReachedAfter
    <2> DEFINE pl == place
    <2>1. \A s \in Steps : pl[s] # "none" => Reached(s)
      BY DEF Reconciled, Placed, Reached, StepHeld, TypeInv, TypeOK
    <2>2. PICK g \in SUBSET Waiting(pl) :
            /\ grants' = [grants EXCEPT ![j] = g]
            /\ place' = [s \in Steps |-> IF s \in g THEN "running" ELSE pl[s]]
      BY <1>11 DEF SelectForOthers, Granting
    <2>3. \A s \in g : s \in Steps /\ pl[s] # "none"
      BY <2>2 DEF Waiting
    <2> HIDE DEF pl
    <2>4. \A i \in Jobs : grants'[i] \subseteq grants[i] \cup g
      BY <2>2 DEF TypeInv, TypeOK
    <2>5. \A s \in Steps : place'[s] # "none" => Reached(s)
      BY <2>1, <2>2, <2>3
    <2>6. \A s \in Steps, i \in Jobs : s \in grants'[i] => Reached(s)
      BY <2>1, <2>3, <2>4 DEF Reached
    <2>7. UNCHANGED <<step, answer, hand, launches>>
      BY <1>11 DEF SelectForOthers
    <2> QED
      BY <2>5, <2>6, <2>7 DEF ReachedAfter, Reached
  <1>12. ASSUME NEW j \in Jobs, Claim(j) PROVE ReachedAfter
    BY <1>12, NoneAssumption DEF Claim, TypeInv, TypeOK, HandInv, HandsOut,
       ReachedAfter, Reached
  <1>13. ASSUME NEW j \in Jobs, AssignLeased(j) PROVE ReachedAfter
    BY <1>13 DEF AssignLeased, TypeInv, TypeOK, HandInv, HandsOut,
       ReachedAfter, Reached
  <1>14. ASSUME NEW j \in Jobs, AssignRejected(j) PROVE ReachedAfter
    BY <1>14 DEF AssignRejected, TypeInv, TypeOK, HandInv, HandsOut,
       ReachedAfter, Reached
  <1>15. ASSUME NEW j \in Jobs, AssignFull(j) PROVE ReachedAfter
    BY <1>15 DEF AssignFull, TypeInv, TypeOK, HandInv, HandsOut, ReachedAfter,
       Reached
  <1>16. ASSUME NEW j \in Jobs, SettleFull(j) PROVE ReachedAfter
    BY <1>16 DEF SettleFull, TypeInv, TypeOK, HandInv, HandsOut, ReachedAfter,
       Reached
  <1>17. ASSUME NEW j \in Jobs, Settle(j) PROVE ReachedAfter
    BY <1>17 DEF Settle, StepTransition, StepEdge, StepStates, TypeInv,
       TypeOK, HandInv, HandsOut, ReachedAfter, Reached
  <1>18. ASSUME NEW j \in Jobs, Drop(j) PROVE ReachedAfter
    BY <1>18 DEF Drop, TypeInv, TypeOK, HandInv, HandsOut, ReachedAfter,
       Reached
  <1>19. ASSUME NEW j \in Jobs, Retire(j) PROVE ReachedAfter
    BY <1>19 DEF Retire, TypeInv, TypeOK, HandInv, HandsOut, ReachedAfter,
       Reached
  <1>20. ASSUME NEW s \in Steps, RunStarts(s) \/ MaterializeFails(s) \/
              RunEnds(s) \/ ReportRefused(s)
        PROVE  ReachedAfter
    BY <1>1, <1>20 DEF RunStarts, MaterializeFails, RunEnds, ReportRefused
  <1>21. ASSUME NEW s \in Steps, ReportAccepted(s) PROVE ReachedAfter
    BY <1>21 DEF ReportAccepted, StepTransition, StepEdge, StepStates,
       TypeInv, TypeOK, HandInv, HandsOut, ReachedAfter, Reached
  <1> QED
    BY <1>1, <1>2, <1>3, <1>4, <1>5, <1>6, <1>7, <1>8, <1>9, <1>10, <1>11,
       <1>12, <1>13, <1>14, <1>15, <1>16, <1>17, <1>18, <1>19, <1>20, <1>21
       DEF Next, Clock, Driver, Phases, Loop, Pump, Ending, Node

\* What has been met stays met.
LEMMA OrderStep == TypeInv /\ PhaseInv /\ OrderInv /\ [Next]_vars => OrderInv'
  <1> SUFFICES ASSUME TypeInv, PhaseInv, OrderInv, [Next]_vars PROVE OrderInv'
    OBVIOUS
  <1>1. ASSUME NEW s \in Steps, NeedsMet(s) PROVE NeedsMet(s)'
    <2>1. Forward
      BY ForwardStep
    <2> QED
      BY <1>1, <2>1 DEF Forward, NeedsMet, StepsOf, StepTerminal
  <1>2. ReachedAfter
    BY ReachedStep
  <1> QED
    BY <1>1, <1>2 DEF OrderInv, ReachedAfter

\* After a pass, what is skipped is skipped because of a step that spoils the job.
LEMMA FoldSkips ==
  ASSUME TypeInv, PhaseInv, SkipInv, NEW j \in Jobs, FoldPass(j)
  PROVE  \A s \in StepsOf(j) : step'[s] = "skipped" => \E r \in StepsOf(j) : Spoils(r)'
  <1>1. (\A s \in StepsOf(j) : step[s] # "absent") /\ pc[j] \in InLoop
    BY DEF FoldPass, PhaseInv, InLoop
  <1>2. /\ \A s \in StepsOf(j) : StepTerminal(step[s]) => Folded(j)[s] = step[s]
        /\ \A s \in StepsOf(j) : Folded(j)[s] = "skipped" /\ step[s] # "skipped" =>
             \E r \in StepsOf(j) : \/ Folded(j)[r] = "errored" \/ step[r] = "skipped"
                                   \/ Folded(j)[r] = "failed" /\ r \notin Tolerated
    BY <1>1, FoldFacts DEF TypeInv
  <1>3. \A s \in StepsOf(j) : step'[s] = Folded(j)[s]
    BY DEF FoldPass, StepsOf
  <1>4. ASSUME NEW r \in StepsOf(j), Spoils(r) PROVE Spoils(r)'
    BY <1>2, <1>3, <1>4 DEF Spoils, StepTerminal
  <1>5. ASSUME NEW s \in StepsOf(j), step[s] = "skipped"
        PROVE  \E r \in StepsOf(j) : Spoils(r)'
    BY <1>1, <1>4, <1>5 DEF SkipInv
  <1> QED
    BY <1>2, <1>3, <1>5 DEF Spoils

\* No fail-fast, sweep or late answer skips a step of an undecided job for
\* another reason.
LEMMA SkipStep == TypeInv /\ PhaseInv /\ SkipInv /\ [Next]_vars => SkipInv'
  <1> SUFFICES ASSUME TypeInv /\ PhaseInv /\ SkipInv, [Next]_vars PROVE SkipInv'
    OBVIOUS
  <1> USE DEF storeVars, clockVars, ctrlVars, queueVars, drvVars, pumpVars,
              nodeVars
  <1>0. ASSUME NEW i \in Jobs, \E r \in StepsOf(i) : Spoils(r)
        PROVE  \E r \in StepsOf(i) : Spoils(r)'
    <2>1. Forward
      BY ForwardStep
    <2> QED
      BY <1>0, <2>1 DEF Forward, Spoils, StepsOf, StepTerminal
  <1>1. CASE UNCHANGED <<pc, step>>
    BY <1>1 DEF SkipInv, Spoils
  <1>2. CASE UNCHANGED vars
    BY <1>1, <1>2 DEF vars
  <1>3. ASSUME NEW s \in Steps, StepClockFires(s) \/ LeaseLapses(s)
        PROVE  SkipInv'
    BY <1>1, <1>3 DEF StepClockFires, LeaseLapses
  <1>4. ASSUME NEW j \in Jobs, JobClockFires(j) PROVE SkipInv'
    BY <1>1, <1>4 DEF JobClockFires
  <1>5. ASSUME NEW j \in Jobs, Claim(j) \/ AssignLeased(j) \/
              AssignRejected(j) \/ AssignFull(j) \/ SettleFull(j) \/ Drop(j)
        PROVE  SkipInv'
    BY <1>1, <1>5 DEF Claim, AssignLeased, AssignRejected, AssignFull,
       SettleFull, Drop
  <1>6. ASSUME NEW j \in Jobs, Begin(j) PROVE SkipInv'
    BY <1>6 DEF Begin, TypeInv, TypeOK, SkipInv, Spoils, InLoop, HandsOut
  <1>7. ASSUME NEW j \in Jobs, Fetched(j) PROVE SkipInv'
    BY <1>7 DEF Fetched, TypeInv, TypeOK, SkipInv, Spoils, InLoop, HandsOut
  <1>8. ASSUME NEW j \in Jobs, Planned(j) PROVE SkipInv'
    BY <1>8 DEF Planned, TypeInv, TypeOK, SkipInv, Spoils, InLoop, HandsOut
  <1>9. ASSUME NEW j \in Jobs, GivesUp(j) PROVE SkipInv'
    BY <1>9 DEF GivesUp, TypeInv, TypeOK, SkipInv, Spoils, InLoop, HandsOut
  <1>10. ASSUME NEW j \in Jobs, PushSteps(j) PROVE SkipInv'
    <2>1. \A i \in Jobs : \A q \in StepsOf(i) : step'[q] = "skipped" /\ pc'[i] \in InLoop =>
            step[q] = "skipped" /\ pc[i] \in InLoop
      BY <1>10 DEF PushSteps, HandInv, HandsOut, StepsOf, InLoop, TypeInv, TypeOK
    <2> QED
      BY <2>1, <1>0 DEF SkipInv
  <1>11. ASSUME NEW j \in Jobs, FoldPass(j) PROVE SkipInv'
    <2>1. \A s \in StepsOf(j) : step'[s] = "skipped" => \E r \in StepsOf(j) : Spoils(r)'
      BY <1>11, FoldSkips
    <2>2. \A i \in Jobs : i # j => pc'[i] = pc[i] /\ \A s \in StepsOf(i) : step'[s] = step[s]
      BY <1>11 DEF FoldPass, StepsOf, TypeInv, TypeOK
    <2> QED
      BY <2>1, <2>2 DEF SkipInv, Spoils
  <1>12. ASSUME NEW j \in Jobs, LookInFlight(j) PROVE SkipInv'
    BY <1>12 DEF LookInFlight, TypeInv, TypeOK, SkipInv, Spoils, InLoop,
       HandsOut
  <1>13. ASSUME NEW j \in Jobs, CancelStep(j) PROVE SkipInv'
    BY <1>13 DEF CancelStep, TypeInv, TypeOK, SkipInv, Spoils, InLoop,
       HandsOut
  <1>14. ASSUME NEW j \in Jobs, MarkSkipped(j) PROVE SkipInv'
    <2>1. \A i \in Jobs : \A q \in StepsOf(i) : step'[q] = "skipped" /\ pc'[i] \in InLoop =>
            step[q] = "skipped" /\ pc[i] \in InLoop
      BY <1>14 DEF MarkSkipped, StepTransition, StepEdge, StepStates, HandInv, HandsOut, StepsOf, InLoop, TypeInv, TypeOK
    <2> QED
      BY <2>1, <1>0 DEF SkipInv
  <1>15. ASSUME NEW j \in Jobs, Cancelled(j) PROVE SkipInv'
    BY <1>15 DEF Cancelled, TypeInv, TypeOK, SkipInv, Spoils, InLoop, HandsOut
  <1>16. ASSUME NEW j \in Jobs, Notified(j) PROVE SkipInv'
    BY <1>16 DEF Notified, TypeInv, TypeOK, SkipInv, Spoils, InLoop, HandsOut
  <1>17. ASSUME NEW j \in Jobs, DeadlineWakes(j) PROVE SkipInv'
    BY <1>17 DEF DeadlineWakes, TypeInv, TypeOK, SkipInv, Spoils, InLoop,
       HandsOut
  <1>18. ASSUME NEW j \in Jobs, Select(j) PROVE SkipInv'
    BY <1>18 DEF Select, Granting, TypeInv, TypeOK, SkipInv, Spoils, InLoop,
       HandsOut
  <1>19. ASSUME NEW j \in Jobs, SelectForOthers(j) PROVE SkipInv'
    BY <1>19 DEF SelectForOthers, Granting, TypeInv, TypeOK, SkipInv, Spoils,
       InLoop, HandsOut
  <1>20. ASSUME NEW j \in Jobs, Settle(j) PROVE SkipInv'
    <2>1. \A i \in Jobs : \A q \in StepsOf(i) : step'[q] = "skipped" /\ pc'[i] \in InLoop =>
            step[q] = "skipped" /\ pc[i] \in InLoop
      BY <1>20 DEF Settle, StepTransition, StepEdge, StepStates, HandInv, HandsOut, StepsOf, InLoop, TypeInv, TypeOK
    <2> QED
      BY <2>1, <1>0 DEF SkipInv
  <1>21. ASSUME NEW j \in Jobs, EndPump(j) PROVE SkipInv'
    BY <1>21 DEF EndPump, TypeInv, TypeOK, SkipInv, Spoils, InLoop, HandsOut
  <1>22. ASSUME NEW j \in Jobs, Finish(j) PROVE SkipInv'
    BY <1>22 DEF Finish, TypeInv, TypeOK, SkipInv, Spoils, InLoop, HandsOut
  <1>23. ASSUME NEW j \in Jobs, Retire(j) PROVE SkipInv'
    BY <1>23 DEF Retire, TypeInv, TypeOK, SkipInv, Spoils, InLoop, HandsOut
  <1>24. ASSUME NEW j \in Jobs, Reported(j) PROVE SkipInv'
    BY <1>24 DEF Reported, TypeInv, TypeOK, SkipInv, Spoils, InLoop, HandsOut
  <1>25. ASSUME NEW s \in Steps, RunStarts(s) \/ MaterializeFails(s) \/
              RunEnds(s) \/ ReportRefused(s)
        PROVE  SkipInv'
    BY <1>1, <1>25 DEF RunStarts, MaterializeFails, RunEnds, ReportRefused
  <1>26. ASSUME NEW s \in Steps, ReportAccepted(s) PROVE SkipInv'
    <2>1. \A i \in Jobs : \A q \in StepsOf(i) : step'[q] = "skipped" /\ pc'[i] \in InLoop =>
            step[q] = "skipped" /\ pc[i] \in InLoop
      BY <1>26 DEF ReportAccepted, StepTransition, StepEdge, StepStates, HandInv, HandsOut, StepsOf, InLoop, TypeInv, TypeOK
    <2> QED
      BY <2>1, <1>0 DEF SkipInv
  <1> QED
    BY <1>1, <1>2, <1>3, <1>4, <1>5, <1>6, <1>7, <1>8, <1>9, <1>10, <1>11,
       <1>12, <1>13, <1>14, <1>15, <1>16, <1>17, <1>18, <1>19, <1>20, <1>21,
       <1>22, <1>23, <1>24, <1>25, <1>26 DEF Next, Clock, Driver, Phases,
       Loop, Pump, Ending, Node

\* What fold saw is still true when the verdict is recorded, and ever after.
LEMMA VerdictStep == TypeInv /\ PhaseInv /\ SkipInv /\ VerdictInv /\ [Next]_vars => VerdictInv'
  <1> SUFFICES ASSUME TypeInv /\ PhaseInv /\ SkipInv /\ VerdictInv, [Next]_vars PROVE VerdictInv'
    OBVIOUS
  <1> USE DEF storeVars, clockVars, ctrlVars, queueVars, drvVars, pumpVars,
              nodeVars
  <1>0. ASSUME NEW i \in Jobs
        PROVE  (EarnedGreen(i) => EarnedGreen(i)') /\ (EarnedRed(i) => EarnedRed(i)')
    <2>1. Forward
      BY ForwardStep
    <2> QED
      BY <2>1 DEF Forward, EarnedGreen, EarnedRed, StepsOf, StepTerminal
  <1>1. CASE UNCHANGED <<decision, job, pc, step>>
    BY <1>1 DEF VerdictInv, EarnedGreen, EarnedRed
  <1>2. CASE UNCHANGED vars
    BY <1>1, <1>2 DEF vars
  <1>3. ASSUME NEW s \in Steps, StepClockFires(s) \/ LeaseLapses(s)
        PROVE  VerdictInv'
    BY <1>1, <1>3 DEF StepClockFires, LeaseLapses
  <1>4. ASSUME NEW j \in Jobs, JobClockFires(j) PROVE VerdictInv'
    BY <1>1, <1>4 DEF JobClockFires
  <1>5. ASSUME NEW j \in Jobs, Claim(j) \/ AssignLeased(j) \/
              AssignRejected(j) \/ AssignFull(j) \/ SettleFull(j) \/ Drop(j)
        PROVE  VerdictInv'
    BY <1>1, <1>5 DEF Claim, AssignLeased, AssignRejected, AssignFull,
       SettleFull, Drop
  <1>6. ASSUME NEW j \in Jobs, Begin(j) PROVE VerdictInv'
    <2>1. \A i \in Jobs : /\ decision'[i] = decision[i] \/ decision'[i] = "errored"
                          /\ job'[i] \in {"green", "red"} => decision'[i] = job'[i] /\ pc'[i] \in Ended
      BY <1>6 DEF Begin, JobTransition, JobEdge, JobStates, Statuses, VerdictInv, Ended, TypeInv, TypeOK
    <2> QED
      BY <2>1, <1>0 DEF VerdictInv
  <1>7. ASSUME NEW j \in Jobs, Fetched(j) PROVE VerdictInv'
    <2>1. \A i \in Jobs : /\ decision'[i] = decision[i] \/ decision'[i] = "errored"
                          /\ job'[i] \in {"green", "red"} => decision'[i] = job'[i] /\ pc'[i] \in Ended
      BY <1>7 DEF Fetched, JobTransition, JobEdge, JobStates, Statuses, VerdictInv, Ended, TypeInv, TypeOK
    <2> QED
      BY <2>1, <1>0 DEF VerdictInv
  <1>8. ASSUME NEW j \in Jobs, Planned(j) PROVE VerdictInv'
    <2>1. \A i \in Jobs : /\ decision'[i] = decision[i] \/ decision'[i] = "errored"
                          /\ job'[i] \in {"green", "red"} => decision'[i] = job'[i] /\ pc'[i] \in Ended
      BY <1>8 DEF Planned, PhaseInv, VerdictInv, Ended, TypeInv, TypeOK
    <2> QED
      BY <2>1, <1>0 DEF VerdictInv
  <1>9. ASSUME NEW j \in Jobs, GivesUp(j) PROVE VerdictInv'
    <2>1. \A i \in Jobs : /\ decision'[i] = decision[i] \/ decision'[i] = "errored"
                          /\ job'[i] \in {"green", "red"} => decision'[i] = job'[i] /\ pc'[i] \in Ended
      BY <1>9 DEF GivesUp, PhaseInv, HasVerdict, Statuses, VerdictInv, Ended, TypeInv, TypeOK
    <2> QED
      BY <2>1, <1>0 DEF VerdictInv
  <1>10. ASSUME NEW j \in Jobs, PushSteps(j) PROVE VerdictInv'
    <2>1. \A i \in Jobs : /\ decision'[i] = decision[i] \/ decision'[i] = "errored"
                          /\ job'[i] \in {"green", "red"} => decision'[i] = job'[i] /\ pc'[i] \in Ended
      BY <1>10 DEF PushSteps, JobTransition, JobEdge, JobStates, Statuses, VerdictInv, Ended, TypeInv, TypeOK
    <2> QED
      BY <2>1, <1>0 DEF VerdictInv
  <1>11. ASSUME NEW j \in Jobs, FoldPass(j) PROVE VerdictInv'
    <2> DEFINE f == Folded(j)
               v == Fold(f, Tolerated)
    <2>1. \A s \in StepsOf(j) : step'[s] = f[s]
      BY <1>11 DEF FoldPass, StepsOf
    <2>2. DOMAIN f = StepsOf(j)
      BY FoldDomain
    <2>3. \A s \in StepsOf(j) : step'[s] = "skipped" => \E r \in StepsOf(j) : Spoils(r)'
      BY <1>11, FoldSkips
    <2>4. (\A s \in StepsOf(j) : step[s] # "absent") /\ pc[j] \notin Ended
      BY <1>11 DEF FoldPass, PhaseInv, InLoop, Ended
    <2>5. f \in [StepsOf(j) -> StepStates]
      BY <2>4, FoldFacts DEF TypeInv
    <2> HIDE DEF f
    <2>6. ASSUME v = "green" PROVE EarnedGreen(j)'
      <3>1. /\ StepsOf(j) # {}
            /\ \A s \in StepsOf(j) : /\ StepTerminal(f[s]) /\ f[s] # "errored"
                                     /\ ~(f[s] = "failed" /\ s \notin Tolerated)
        BY <2>2, <2>6 DEF Fold, FailedFatally, NoVerdict
      <3>2. \A s \in StepsOf(j) : f[s] # "skipped"
        BY <2>1, <2>3, <3>1 DEF Spoils
      <3> QED
        BY <2>1, <3>1, <3>2 DEF EarnedGreen, StepTerminal
    <2>7. ASSUME v = "red" PROVE EarnedRed(j)'
      BY <2>1, <2>2, <2>7 DEF Fold, FailedFatally, NoVerdict, EarnedRed
    <2>8. decision' = decision \/ decision' = [decision EXCEPT ![j] = "errored"]
            \/ decision' = [decision EXCEPT ![j] = v]
      BY <1>11 DEF FoldPass, f
    <2>9. \A i \in Jobs : i # j => pc'[i] = pc[i]
      BY <1>11 DEF FoldPass, TypeInv, TypeOK
    <2>10. job' = job /\ job[j] \notin {"green", "red"}
      BY <1>11, <2>4 DEF FoldPass, VerdictInv
    <2> HIDE DEF v
    <2>11. \A i \in Jobs : \/ decision'[i] = decision[i] \/ decision'[i] = "errored"
                           \/ i = j /\ decision'[i] = v
      BY <2>8 DEF TypeInv, TypeOK
    <2>12. \A i \in Jobs : i # j => decision'[i] = decision[i]
      BY <2>8 DEF TypeInv, TypeOK
    <2>13. \A i \in Jobs : /\ decision'[i] = "green" => EarnedGreen(i)'
                           /\ decision'[i] = "red" => EarnedRed(i)'
      BY <2>6, <2>7, <2>11, <1>0 DEF VerdictInv
    <2> QED
      BY <2>9, <2>10, <2>12, <2>13 DEF VerdictInv
  <1>12. ASSUME NEW j \in Jobs, LookInFlight(j) PROVE VerdictInv'
    <2>1. \A i \in Jobs : /\ decision'[i] = decision[i] \/ decision'[i] = "errored"
                          /\ job'[i] \in {"green", "red"} => decision'[i] = job'[i] /\ pc'[i] \in Ended
      BY <1>12 DEF LookInFlight, PhaseInv, VerdictInv, Ended, TypeInv, TypeOK
    <2> QED
      BY <2>1, <1>0 DEF VerdictInv
  <1>13. ASSUME NEW j \in Jobs, CancelStep(j) PROVE VerdictInv'
    <2>1. \A i \in Jobs : /\ decision'[i] = decision[i] \/ decision'[i] = "errored"
                          /\ job'[i] \in {"green", "red"} => decision'[i] = job'[i] /\ pc'[i] \in Ended
      BY <1>13 DEF CancelStep, PhaseInv, VerdictInv, Ended, TypeInv, TypeOK
    <2> QED
      BY <2>1, <1>0 DEF VerdictInv
  <1>14. ASSUME NEW j \in Jobs, MarkSkipped(j) PROVE VerdictInv'
    <2>1. \A i \in Jobs : /\ decision'[i] = decision[i] \/ decision'[i] = "errored"
                          /\ job'[i] \in {"green", "red"} => decision'[i] = job'[i] /\ pc'[i] \in Ended
      BY <1>14 DEF MarkSkipped, PhaseInv, VerdictInv, Ended, TypeInv, TypeOK
    <2> QED
      BY <2>1, <1>0 DEF VerdictInv
  <1>15. ASSUME NEW j \in Jobs, Cancelled(j) PROVE VerdictInv'
    <2>1. \A i \in Jobs : /\ decision'[i] = decision[i] \/ decision'[i] = "errored"
                          /\ job'[i] \in {"green", "red"} => decision'[i] = job'[i] /\ pc'[i] \in Ended
      BY <1>15 DEF Cancelled, PhaseInv, VerdictInv, Ended, TypeInv, TypeOK
    <2> QED
      BY <2>1, <1>0 DEF VerdictInv
  <1>16. ASSUME NEW j \in Jobs, Notified(j) PROVE VerdictInv'
    <2>1. \A i \in Jobs : /\ decision'[i] = decision[i] \/ decision'[i] = "errored"
                          /\ job'[i] \in {"green", "red"} => decision'[i] = job'[i] /\ pc'[i] \in Ended
      BY <1>16 DEF Notified, PhaseInv, VerdictInv, Ended, TypeInv, TypeOK
    <2> QED
      BY <2>1, <1>0 DEF VerdictInv
  <1>17. ASSUME NEW j \in Jobs, DeadlineWakes(j) PROVE VerdictInv'
    <2>1. \A i \in Jobs : /\ decision'[i] = decision[i] \/ decision'[i] = "errored"
                          /\ job'[i] \in {"green", "red"} => decision'[i] = job'[i] /\ pc'[i] \in Ended
      BY <1>17 DEF DeadlineWakes, PhaseInv, VerdictInv, Ended, TypeInv, TypeOK
    <2> QED
      BY <2>1, <1>0 DEF VerdictInv
  <1>18. ASSUME NEW j \in Jobs, Select(j) PROVE VerdictInv'
    <2>1. \A i \in Jobs : /\ decision'[i] = decision[i] \/ decision'[i] = "errored"
                          /\ job'[i] \in {"green", "red"} => decision'[i] = job'[i] /\ pc'[i] \in Ended
      BY <1>18 DEF Select, PhaseInv, VerdictInv, Ended, TypeInv, TypeOK
    <2> QED
      BY <2>1, <1>0 DEF VerdictInv
  <1>19. ASSUME NEW j \in Jobs, SelectForOthers(j) PROVE VerdictInv'
    <2>1. \A i \in Jobs : /\ decision'[i] = decision[i] \/ decision'[i] = "errored"
                          /\ job'[i] \in {"green", "red"} => decision'[i] = job'[i] /\ pc'[i] \in Ended
      BY <1>19 DEF SelectForOthers, PhaseInv, VerdictInv, Ended, TypeInv, TypeOK
    <2> QED
      BY <2>1, <1>0 DEF VerdictInv
  <1>20. ASSUME NEW j \in Jobs, Settle(j) PROVE VerdictInv'
    <2>1. \A i \in Jobs : /\ decision'[i] = decision[i] \/ decision'[i] = "errored"
                          /\ job'[i] \in {"green", "red"} => decision'[i] = job'[i] /\ pc'[i] \in Ended
      BY <1>20 DEF Settle, PhaseInv, VerdictInv, Ended, TypeInv, TypeOK
    <2> QED
      BY <2>1, <1>0 DEF VerdictInv
  <1>21. ASSUME NEW j \in Jobs, EndPump(j) PROVE VerdictInv'
    <2>1. \A i \in Jobs : /\ decision'[i] = decision[i] \/ decision'[i] = "errored"
                          /\ job'[i] \in {"green", "red"} => decision'[i] = job'[i] /\ pc'[i] \in Ended
      BY <1>21 DEF EndPump, HandsOut, VerdictInv, Ended, TypeInv, TypeOK
    <2> QED
      BY <2>1, <1>0 DEF VerdictInv
  <1>22. ASSUME NEW j \in Jobs, Finish(j) PROVE VerdictInv'
    <2>1. \A i \in Jobs : /\ decision'[i] = decision[i] \/ decision'[i] = "errored"
                          /\ job'[i] \in {"green", "red"} => decision'[i] = job'[i] /\ pc'[i] \in Ended
      BY <1>22 DEF Finish, JobTransition, JobEdge, JobStates, Statuses, HasVerdict, PhaseInv, VerdictInv, Ended, TypeInv, TypeOK
    <2> QED
      BY <2>1, <1>0 DEF VerdictInv
  <1>23. ASSUME NEW j \in Jobs, Retire(j) PROVE VerdictInv'
    <2>1. \A i \in Jobs : /\ decision'[i] = decision[i] \/ decision'[i] = "errored"
                          /\ job'[i] \in {"green", "red"} => decision'[i] = job'[i] /\ pc'[i] \in Ended
      BY <1>23 DEF Retire, PhaseInv, VerdictInv, Ended, TypeInv, TypeOK
    <2> QED
      BY <2>1, <1>0 DEF VerdictInv
  <1>24. ASSUME NEW j \in Jobs, Reported(j) PROVE VerdictInv'
    <2>1. \A i \in Jobs : /\ decision'[i] = decision[i] \/ decision'[i] = "errored"
                          /\ job'[i] \in {"green", "red"} => decision'[i] = job'[i] /\ pc'[i] \in Ended
      BY <1>24 DEF Reported, PhaseInv, VerdictInv, Ended, TypeInv, TypeOK
    <2> QED
      BY <2>1, <1>0 DEF VerdictInv
  <1>25. ASSUME NEW s \in Steps, RunStarts(s) \/ MaterializeFails(s) \/
              RunEnds(s) \/ ReportRefused(s)
        PROVE  VerdictInv'
    BY <1>1, <1>25 DEF RunStarts, MaterializeFails, RunEnds, ReportRefused
  <1>26. ASSUME NEW s \in Steps, ReportAccepted(s) PROVE VerdictInv'
    <2>1. \A i \in Jobs : /\ decision'[i] = decision[i] \/ decision'[i] = "errored"
                          /\ job'[i] \in {"green", "red"} => decision'[i] = job'[i] /\ pc'[i] \in Ended
      BY <1>26 DEF ReportAccepted, PhaseInv, VerdictInv, Ended, TypeInv, TypeOK
    <2> QED
      BY <2>1, <1>0 DEF VerdictInv
  <1> QED
    BY <1>1, <1>2, <1>3, <1>4, <1>5, <1>6, <1>7, <1>8, <1>9, <1>10, <1>11,
       <1>12, <1>13, <1>14, <1>15, <1>16, <1>17, <1>18, <1>19, <1>20, <1>21,
       <1>22, <1>23, <1>24, <1>25, <1>26 DEF Next, Clock, Driver, Phases,
       Loop, Pump, Ending, Node

-----------------------------------------------------------------------------
\* The inductive invariant.

IInv == /\ TypeInv /\ PhaseInv /\ ClaimInv /\ RunInv
        /\ OrderInv /\ SkipInv /\ VerdictInv

LEMMA IInvariant == Spec => []IInv
  <1>1. Init => IInv
    <2> SUFFICES ASSUME Init PROVE IInv
      OBVIOUS
    <2>1. TypeOK
      BY PipelineAssumption DEF Init, TypeOK, JobStates, DriverPC, Answers, RunStages
    <2>2. HandInv /\ PhaseInv /\ ClaimInv /\ RunInv
      BY DEF Init, HandInv, HandsOut, PhaseInv, Early, InLoop, Ended, HasVerdict,
         Statuses, ClaimInv, RunInv, StepsOf
    <2>3. OrderInv /\ SkipInv /\ VerdictInv
      BY DEF Init, OrderInv, Reached, SkipInv, InLoop, VerdictInv, NoVerdict
    <2> QED
      BY <2>1, <2>2, <2>3 DEF IInv, TypeInv
  <1>2. IInv /\ [Next]_vars => IInv'
    BY TypeStep, HandStep, PhaseStep, ClaimStep, RunStep, OrderStep, SkipStep,
       VerdictStep DEF IInv, TypeInv
  <1> QED
    BY <1>1, <1>2, PTL DEF Spec

\* Types of the drivers, the pumps, the queue and the node.
THEOREM TypeCorrect == Spec => []TypeOK
  <1>1. IInv => TypeOK
    BY DEF IInv, TypeInv
  <1> QED
    BY <1>1, IInvariant, PTL

\* However many drivers race to hand out a step, and whatever the fleet answers,
\* LocalClaims::claim_step lets it reach a node at most once.
THEOREM LaunchedOnce == Spec => []OneLaunch
  <1>1. IInv => OneLaunch
    BY DEF IInv, ClaimInv, OneLaunch, TypeInv, TypeOK
  <1> QED
    BY <1>1, IInvariant, PTL

\* A step reaches a node only after everything it needs has let it, although
\* pump does not look at the step's state again after it was granted.
THEOREM LaunchesFollowTheGraph == Spec => []LaunchedInOrder
  <1>1. IInv => LaunchedInOrder
    <2> SUFFICES ASSUME IInv, NEW s \in Steps, launches[s] > 0
                 PROVE  NeedsMet(s)
      BY DEF LaunchedInOrder, NeedsMet
    <2>1. launches[s] # 0
      BY DEF IInv, TypeInv, TypeOK
    <2> QED
      BY <2>1 DEF IInv, OrderInv, Reached
  <1> QED
    BY <1>1, IInvariant, PTL

\* finish reports green only for a job all of whose steps earned it.
THEOREM GreenEarned == Spec => []GreenIsEarned
  <1>1. IInv => GreenIsEarned
    <2> SUFFICES ASSUME IInv, NEW j \in Jobs, job[j] = "green"
                 PROVE  /\ StepsOf(j) # {}
                        /\ \A s \in StepsOf(j) :
                             \/ step[s] = "passed" /\ outcome[s] = "passed"
                             \/ step[s] = "cached" /\ s \in Memoized
                             \/ step[s] = "failed" /\ s \in Tolerated
      BY DEF GreenIsEarned
    <2>1. EarnedGreen(j)
      BY DEF IInv, VerdictInv
    <2> QED
      BY <2>1 DEF EarnedGreen, IInv, RunInv, StepsOf
  <1> QED
    BY <1>1, IInvariant, PTL

\* finish reports red only for a job one of whose steps really failed.
THEOREM RedEarned == Spec => []RedIsEarned
  <1>1. IInv => RedIsEarned
    <2> SUFFICES ASSUME IInv, NEW j \in Jobs, job[j] = "red"
                 PROVE  \E s \in StepsOf(j) \ Tolerated :
                          step[s] = "failed" /\ (outcome[s] = "failed" \/ s \in Memoized)
      BY DEF RedIsEarned
    <2>1. EarnedRed(j)
      BY DEF IInv, VerdictInv
    <2> QED
      BY <2>1 DEF EarnedRed, IInv, RunInv, StepsOf
  <1> QED
    BY <1>1, IInvariant, PTL


\* What Hull is told of the code was seen in a run (fold and finish).
THEOREM VerdictsEarned == Spec => []VerdictIsEarned
  BY GreenEarned, RedEarned, PTL DEF VerdictIsEarned

\* The fleet runs the plan: each step at most once, after what it needs (pump, assign).
THEOREM PlanIsFollowed == Spec => []LaunchedByThePlan
  BY LaunchedOnce, LaunchesFollowTheGraph, PTL DEF LaunchedByThePlan
=============================================================================
