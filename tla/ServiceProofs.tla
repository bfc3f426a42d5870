---------------------------- MODULE ServiceProofs ----------------------------
(***************************************************************************)
(* Proofs about the service that module Pipeline gives a ready step, for   *)
(* any jobs, plans, tenants, caps and slots: it is queued or on its way,   *)
(* and no capacity is left idle that it could use.                         *)
(*                                                                         *)
(* The store, the queue, the claims and the pumps know of a step at        *)
(* different times.  QueueInv says which differences may be, and who is    *)
(* about to settle each; RoomInv says that room in the fleet is left over  *)
(* only while somebody is on the way to a pump.                            *)
(***************************************************************************)
EXTENDS PipelineProofs, FiniteSetTheorems

\* The driver is at work, and comes to its own pump, or to retire, on its own.
Working == {"fold", "look", "cancel", "mark", "pump", "finish", "retire", "offer"}

\* The driver of q works, or something makes sure that it will: a stored
\* permit, a step of its own that its pump moved, or a pump about to wake it.
Stirs(q) ==
  \/ pc[q] \in Working
  \/ /\ pc[q] \in {"sleep", "grants"}
     /\ \/ q \in permit
        \/ pc[q] = "grants" /\ q \in moved
        \/ \E k \in Jobs : q \in woken[k]

\* The states of a step that is not in flight.
Quiet == {"absent", "passed", "failed", "errored", "cached", "skipped"}

\* A job's tree and drive lease are there while it has steps in flight, and a
\* driver leaves nothing in flight behind.
RestInv ==
  \A j \in Jobs :
    /\ pc[j] \in {"memo", "look", "cancel", "mark"} \cup InLoop => j \in trees
    /\ pc[j] \notin Ended => j \in leases
    /\ pc[j] \in {"cancel", "mark"} =>
         \A s \in StepsOf(j) : step[s] \in Quiet \/ s \in cancel[j]
    /\ pc[j] \in {"finish"} \cup Ended => \A s \in StepsOf(j) : step[s] \in Quiet

\* Outside pump a driver holds no grants and owes nobody a wake-up.
PumpInv ==
  \A j \in Jobs : ~HandsOut(j) => grants[j] = {} /\ woken[j] = {}

\* Queue, pumps and claims know nothing of a step that was never ready, and the
\* queue forgets the steps of a retired job.
UnseenInv ==
  \A s \in Steps :
    /\ step[s] \in {"absent", "pending"} =>
         place[s] = "none" /\ ~Handled(s) /\ s \notin claims
    /\ pc[JobOf[s]] \in Ended \ {"retire"} => place[s] = "none"

\* Where a pump is between winning the claim of a step and recording an answer.
Asking == {"granted", "leased", "rejected"}

\* A pump has the step in hand, holds its claim and has yet to record the
\* fleet's answer.
Settling(s) == \E k \in Jobs : hand[k] = s /\ answer[k] \in Asking

\* A ready step that is claimed is being assigned; a ready step is dropped only
\* because another pump claimed it.
AskInv ==
  /\ \A s \in Steps : s \in claims /\ step[s] = "ready" => Settling(s)
  /\ \A j \in Jobs : answer[j] = "drop" /\ step[hand[j]] = "ready" => hand[j] \in claims
  /\ \A j \in Jobs : answer[j] # "full"

\* The queue's placement of step s of job i against the store's state of it: they
\* differ only while some pump has the step or its driver stirs.
Agree(i, s) ==
  /\ step[s] = "ready" => place[s] = "waiting" \/ Handled(s) \/ pc[i] \in Working
  /\ place[s] = "waiting" => step[s] = "ready" \/ Stirs(i)
  /\ place[s] = "running" => \/ StepHeld(step[s]) \/ Stirs(i)
                             \/ step[s] = "ready" /\ Handled(s)

QueueInv == \A i \in Jobs : \A s \in StepsOf(i) : Agree(i, s)

ServiceInv == RestInv /\ PumpInv /\ UnseenInv /\ AskInv /\ QueueInv

\* The steps that count against the slots and the caps, in the store or the queue.
Busy == {s \in Steps : StepHeld(step[s]) \/ place[s] = "running"}

\* With the steps in B counted, there is no room for s.
Full(s, B) ==
  \/ Cardinality(B) >= Slots
  \/ Cardinality(OfTenant(TenantOf[JobOf[s]], B)) >= Cap[TenantOf[JobOf[s]]]

\* Capacity is left over only while somebody is on the way to a pump.
RoomInv ==
  \/ \E j \in Jobs : Stirs(j)
  \/ \E s \in Steps : step[s] = "ready" /\ Settling(s)
  \/ \A s \in Steps : place[s] = "waiting" => Full(s, Busy)

-----------------------------------------------------------------------------
\* Every step belongs to a job.
LEMMA Owners == \A s \in Steps : JobOf[s] \in Jobs
  BY PipelineAssumption

\* What one pass of the driver can do to each of its steps.
LEMMA FoldMoves ==
  ASSUME TypeOK, NEW j \in Jobs, \A s \in StepsOf(j) : step[s] # "absent"
  PROVE  \A s \in StepsOf(j) :
           LET f == Folded(j)[s]
           IN  \/ f = step[s]
               \/ step[s] = "pending" /\ f \in {"ready", "errored", "skipped"}
               \/ step[s] \in {"ready", "leased", "running"} /\ f = "errored"
  <1> DEFINE D == StepsOf(j)
             w == Swept(j)
             f == Folded(j)
  <1>1. /\ w \in [D -> StepStates]
        /\ \A s \in D : \/ w[s] = step[s]
                        \/ w[s] = "errored" /\ step[s] \in {"pending", "ready", "leased", "running"}
    BY DEF TypeOK, Swept, StepsOf, StepTransition, StepEdge, StepStates
  <1>2. f = Advance(w, Needs, Tolerated)
    BY DEF Folded
  <1> HIDE DEF w, f, D
  <1>3. /\ f \in [D -> StepStates]
        /\ \A s \in D : w[s] # "pending" => f[s] = w[s]
        /\ \A s \in D : w[s] = "pending" => f[s] \in {"pending", "ready", "errored", "skipped"}
    BY <1>1, <1>2, AdvanceFacts
  <1>4. \A s \in D : \/ f[s] = step[s]
                     \/ step[s] = "pending" /\ f[s] \in {"ready", "errored", "skipped"}
                     \/ step[s] \in {"ready", "leased", "running"} /\ f[s] = "errored"
    BY <1>1, <1>3
  <1> QED
    BY <1>4 DEF D, f

\* The same, of the store as a whole.
LEMMA FoldPassMoves ==
  ASSUME TypeInv, PhaseInv, NEW j \in Jobs, FoldPass(j)
  PROVE  /\ \A s \in Steps \ StepsOf(j) : step'[s] = step[s]
         /\ \A s \in StepsOf(j) :
              /\ step[s] # "absent" /\ step'[s] = Folded(j)[s]
              /\ \/ step'[s] = step[s]
                 \/ step[s] = "pending" /\ step'[s] \in {"ready", "errored", "skipped"}
                 \/ step[s] \in {"ready", "leased", "running"} /\ step'[s] = "errored"
         /\ \A i \in Jobs : IF i = j THEN pc'[i] \in {"look", "cancel", "pump"} ELSE pc'[i] = pc[i]
  <1>1. \A s \in StepsOf(j) : step[s] # "absent"
    BY DEF FoldPass, PhaseInv, InLoop
  <1>2. \A s \in StepsOf(j) :
           LET f == Folded(j)[s]
           IN  \/ f = step[s]
               \/ step[s] = "pending" /\ f \in {"ready", "errored", "skipped"}
               \/ step[s] \in {"ready", "leased", "running"} /\ f = "errored"
    BY <1>1, FoldMoves DEF TypeInv
  <1>3. \A s \in Steps : step'[s] = IF s \in StepsOf(j) THEN Folded(j)[s] ELSE step[s]
    BY DEF FoldPass, StepsOf
  <1>4. StepsOf(j) \subseteq Steps
    BY DEF StepsOf
  <1>5. \A i \in Jobs : IF i = j THEN pc'[i] \in {"look", "cancel", "pump"} ELSE pc'[i] = pc[i]
    BY DEF FoldPass, TypeInv, TypeOK
  <1> QED
    BY <1>1, <1>2, <1>3, <1>4, <1>5

\* Every step keeps what a driver needs while its steps are in flight, and lets it
\* leave only when none is.
LEMMA RestStep == TypeInv /\ PhaseInv /\ RestInv /\ [Next]_vars => RestInv'
  <1> SUFFICES ASSUME TypeInv /\ PhaseInv /\ RestInv, [Next]_vars
               PROVE  RestInv'
    OBVIOUS
  <1> USE DEF storeVars, clockVars, ctrlVars, queueVars, drvVars, pumpVars,
              nodeVars
  <1>1. CASE UNCHANGED <<pc, step, cancel, trees, leases>>
    BY <1>1 DEF RestInv
  <1>2. CASE UNCHANGED vars
    BY <1>1, <1>2 DEF vars
  <1>3. ASSUME NEW s \in Steps,
              StepClockFires(s) \/ LeaseLapses(s) \/ RunStarts(s) \/
              MaterializeFails(s) \/ RunEnds(s) \/ ReportRefused(s)
        PROVE  RestInv'
    BY <1>1, <1>3 DEF StepClockFires, LeaseLapses, RunStarts,
       MaterializeFails, RunEnds, ReportRefused
  <1>4. ASSUME NEW j \in Jobs,
              JobClockFires(j) \/ Claim(j) \/ AssignLeased(j) \/
              AssignRejected(j) \/ AssignFull(j) \/ SettleFull(j) \/ Drop(j)
        PROVE  RestInv'
    BY <1>1, <1>4 DEF JobClockFires, Claim, AssignLeased, AssignRejected,
       AssignFull, SettleFull, Drop
  <1>5. ASSUME NEW j \in Jobs, Begin(j) PROVE RestInv'
    BY <1>5 DEF Begin, TypeInv, TypeOK, RestInv, StepsOf, InLoop, Ended, Quiet
  <1>6. ASSUME NEW j \in Jobs, Fetched(j) PROVE RestInv'
    BY <1>6 DEF Fetched, TypeInv, TypeOK, RestInv, StepsOf, InLoop, Ended,
       Quiet
  <1>7. ASSUME NEW j \in Jobs, Notified(j) PROVE RestInv'
    BY <1>7 DEF Notified, TypeInv, TypeOK, RestInv, StepsOf, InLoop, Ended,
       Quiet
  <1>8. ASSUME NEW j \in Jobs, DeadlineWakes(j) PROVE RestInv'
    BY <1>8 DEF DeadlineWakes, TypeInv, TypeOK, RestInv, StepsOf, InLoop,
       Ended, Quiet
  <1>9. ASSUME NEW j \in Jobs, Cancelled(j) PROVE RestInv'
    BY <1>9 DEF Cancelled, TypeInv, TypeOK, RestInv, StepsOf, InLoop, Ended,
       Quiet
  <1>10. ASSUME NEW j \in Jobs, Finish(j) PROVE RestInv'
    BY <1>10 DEF Finish, TypeInv, TypeOK, RestInv, StepsOf, InLoop, Ended,
       Quiet
  <1>11. ASSUME NEW j \in Jobs, Reported(j) PROVE RestInv'
    BY <1>11 DEF Reported, TypeInv, TypeOK, RestInv, StepsOf, InLoop, Ended,
       Quiet
  <1>12. ASSUME NEW j \in Jobs, CancelStep(j) PROVE RestInv'
    BY <1>12 DEF CancelStep, TypeInv, TypeOK, RestInv, StepsOf, InLoop, Ended,
       Quiet
  <1>13. ASSUME NEW j \in Jobs, Retire(j) PROVE RestInv'
    BY <1>13 DEF Retire, TypeInv, TypeOK, RestInv, StepsOf, InLoop, Ended,
       Quiet
  <1>14. ASSUME NEW j \in Jobs, EndPump(j) PROVE RestInv'
    BY <1>14 DEF EndPump, HandsOut, TypeInv, TypeOK, RestInv, StepsOf, InLoop,
       Ended, Quiet
  <1>15. ASSUME NEW j \in Jobs, GivesUp(j) PROVE RestInv'
    BY <1>15 DEF GivesUp, PhaseInv, Early, TypeInv, TypeOK, RestInv, StepsOf,
       InLoop, Ended, Quiet
  <1>16. ASSUME NEW j \in Jobs, Planned(j) PROVE RestInv'
    BY <1>16 DEF Planned, TypeInv, TypeOK, RestInv, StepsOf, InLoop, Ended,
       Quiet
  <1>17. ASSUME NEW j \in Jobs, Select(j) PROVE RestInv'
    BY <1>17 DEF Select, TypeInv, TypeOK, RestInv, StepsOf, InLoop, Ended,
       Quiet
  <1>18. ASSUME NEW j \in Jobs, SelectForOthers(j) PROVE RestInv'
    BY <1>18 DEF SelectForOthers, TypeInv, TypeOK, RestInv, StepsOf, InLoop,
       Ended, Quiet
  <1>19. ASSUME NEW j \in Jobs, PushSteps(j) PROVE RestInv'
    BY <1>19 DEF PushSteps, PhaseInv, Early, TypeInv, TypeOK, RestInv, StepsOf,
       InLoop, Ended, Quiet
  <1>20. ASSUME NEW j \in Jobs, FoldPass(j) PROVE RestInv'
    <2>1. /\ \A s \in Steps : \A i \in Jobs \ {j} : s \in StepsOf(i) => step'[s] = step[s]
          /\ \A s \in StepsOf(j) : step'[s] = Folded(j)[s]
          /\ \A i \in Jobs : IF i = j THEN pc'[i] \in {"look", "cancel", "pump"} ELSE pc'[i] = pc[i]
      BY <1>20, FoldPassMoves DEF StepsOf
    <2>2. pc'[j] = "cancel" => \A s \in StepsOf(j) : step'[s] \in Quiet \/ s \in cancel'[j]
      <3>1. SUFFICES ASSUME pc'[j] = "cancel", NEW s \in StepsOf(j)
                     PROVE  step'[s] \in Quiet \/ s \in cancel'[j]
        OBVIOUS
      <3>2. cancel'[j] = ToCancel(Folded(j))
        BY <1>20, <3>1 DEF FoldPass, TypeInv, TypeOK
      <3> QED
        BY <2>1, <3>2, FoldDomain DEF ToCancel, StepInFlight, StepTerminal,
           Quiet
    <2>3. \A i \in Jobs \ {j} : cancel'[i] = cancel[i]
      BY <1>20 DEF FoldPass, TypeInv, TypeOK
    <2>4. pc[j] = "fold" /\ UNCHANGED <<trees, leases>>
      BY <1>20 DEF FoldPass
    <2> QED
      BY <2>1, <2>2, <2>3, <2>4 DEF RestInv, StepsOf, InLoop, Ended
  <1>21. ASSUME NEW j \in Jobs, LookInFlight(j) PROVE RestInv'
    BY <1>21 DEF LookInFlight, ToCancel, Mine, StepInFlight, StepTerminal,
       TypeInv, TypeOK, RestInv, StepsOf, InLoop, Ended, Quiet
  <1>22. ASSUME NEW j \in Jobs, MarkSkipped(j) PROVE RestInv'
    BY <1>22 DEF MarkSkipped, StepTransition, StepEdge, StepStates, HandInv,
       TypeInv, TypeOK, RestInv, StepsOf, InLoop, Ended, Quiet
  <1>23. ASSUME NEW j \in Jobs, Settle(j) PROVE RestInv'
    BY <1>23 DEF Settle, StepTransition, StepEdge, HandInv, HandsOut, TypeInv,
       TypeOK, RestInv, StepsOf, InLoop, Ended, Quiet
  <1>24. ASSUME NEW s \in Steps, ReportAccepted(s) PROVE RestInv'
    BY <1>24 DEF ReportAccepted, StepTransition, StepEdge, StepHeld, TypeInv,
       TypeOK, RestInv, StepsOf, InLoop, Ended, Quiet
  <1> QED
    BY <1>1, <1>2, <1>3, <1>4, <1>5, <1>6, <1>7, <1>8, <1>9, <1>10, <1>11,
       <1>12, <1>13, <1>14, <1>15, <1>16, <1>17, <1>18, <1>19, <1>20, <1>21,
       <1>22, <1>23, <1>24 DEF Next, Clock, Driver, Phases, Loop, Pump, Ending,
       Node

\* Every step keeps grants and wake-ups inside pump.
LEMMA PumpStep == TypeInv /\ PumpInv /\ [Next]_vars => PumpInv'
  <1> SUFFICES ASSUME TypeInv /\ PumpInv, [Next]_vars
               PROVE  PumpInv'
    OBVIOUS
  <1> USE DEF storeVars, clockVars, ctrlVars, queueVars, drvVars, pumpVars,
              nodeVars
  <1>1. CASE UNCHANGED <<pc, grants, woken>>
    BY <1>1 DEF PumpInv, HandsOut
  <1>2. CASE UNCHANGED vars
    BY <1>1, <1>2 DEF vars
  <1>3. ASSUME NEW s \in Steps,
              StepClockFires(s) \/ LeaseLapses(s) \/ RunStarts(s) \/
              MaterializeFails(s) \/ RunEnds(s) \/ ReportRefused(s) \/
              ReportAccepted(s)
        PROVE  PumpInv'
    BY <1>1, <1>3 DEF StepClockFires, LeaseLapses, RunStarts,
       MaterializeFails, RunEnds, ReportRefused, ReportAccepted
  <1>4. ASSUME NEW j \in Jobs,
              JobClockFires(j) \/ AssignLeased(j) \/ AssignRejected(j) \/
              AssignFull(j) \/ SettleFull(j) \/ Drop(j)
        PROVE  PumpInv'
    BY <1>1, <1>4 DEF JobClockFires, AssignLeased, AssignRejected, AssignFull,
       SettleFull, Drop
  <1>5. ASSUME NEW j \in Jobs, Begin(j) PROVE PumpInv'
    BY <1>5 DEF Begin, TypeInv, TypeOK, PumpInv, HandsOut
  <1>6. ASSUME NEW j \in Jobs, Fetched(j) PROVE PumpInv'
    BY <1>6 DEF Fetched, TypeInv, TypeOK, PumpInv, HandsOut
  <1>7. ASSUME NEW j \in Jobs, Planned(j) PROVE PumpInv'
    BY <1>7 DEF Planned, TypeInv, TypeOK, PumpInv, HandsOut
  <1>8. ASSUME NEW j \in Jobs, GivesUp(j) PROVE PumpInv'
    BY <1>8 DEF GivesUp, TypeInv, TypeOK, PumpInv, HandsOut
  <1>9. ASSUME NEW j \in Jobs, PushSteps(j) PROVE PumpInv'
    BY <1>9 DEF PushSteps, TypeInv, TypeOK, PumpInv, HandsOut
  <1>10. ASSUME NEW j \in Jobs, FoldPass(j) PROVE PumpInv'
    BY <1>10 DEF FoldPass, TypeInv, TypeOK, PumpInv, HandsOut
  <1>11. ASSUME NEW j \in Jobs, LookInFlight(j) PROVE PumpInv'
    BY <1>11 DEF LookInFlight, TypeInv, TypeOK, PumpInv, HandsOut
  <1>12. ASSUME NEW j \in Jobs, CancelStep(j) PROVE PumpInv'
    BY <1>12 DEF CancelStep, TypeInv, TypeOK, PumpInv, HandsOut
  <1>13. ASSUME NEW j \in Jobs, MarkSkipped(j) PROVE PumpInv'
    BY <1>13 DEF MarkSkipped, TypeInv, TypeOK, PumpInv, HandsOut
  <1>14. ASSUME NEW j \in Jobs, Cancelled(j) PROVE PumpInv'
    BY <1>14 DEF Cancelled, TypeInv, TypeOK, PumpInv, HandsOut
  <1>15. ASSUME NEW j \in Jobs, Notified(j) PROVE PumpInv'
    BY <1>15 DEF Notified, TypeInv, TypeOK, PumpInv, HandsOut
  <1>16. ASSUME NEW j \in Jobs, DeadlineWakes(j) PROVE PumpInv'
    BY <1>16 DEF DeadlineWakes, TypeInv, TypeOK, PumpInv, HandsOut
  <1>17. ASSUME NEW j \in Jobs, Select(j) PROVE PumpInv'
    BY <1>17 DEF Select, Granting, TypeInv, TypeOK, PumpInv, HandsOut
  <1>18. ASSUME NEW j \in Jobs, SelectForOthers(j) PROVE PumpInv'
    BY <1>18 DEF SelectForOthers, Granting, TypeInv, TypeOK, PumpInv, HandsOut
  <1>19. ASSUME NEW j \in Jobs, Claim(j) PROVE PumpInv'
    BY <1>19 DEF Claim, TypeInv, TypeOK, PumpInv, HandsOut
  <1>20. ASSUME NEW j \in Jobs, Settle(j) PROVE PumpInv'
    BY <1>20 DEF Settle, TypeInv, TypeOK, PumpInv, HandsOut
  <1>21. ASSUME NEW j \in Jobs, EndPump(j) PROVE PumpInv'
    BY <1>21 DEF EndPump, TypeInv, TypeOK, PumpInv, HandsOut
  <1>22. ASSUME NEW j \in Jobs, Finish(j) PROVE PumpInv'
    BY <1>22 DEF Finish, TypeInv, TypeOK, PumpInv, HandsOut
  <1>23. ASSUME NEW j \in Jobs, Retire(j) PROVE PumpInv'
    BY <1>23 DEF Retire, TypeInv, TypeOK, PumpInv, HandsOut
  <1>24. ASSUME NEW j \in Jobs, Reported(j) PROVE PumpInv'
    BY <1>24 DEF Reported, TypeInv, TypeOK, PumpInv, HandsOut
  <1> QED
    BY <1>1, <1>2, <1>3, <1>4, <1>5, <1>6, <1>7, <1>8, <1>9, <1>10, <1>11,
       <1>12, <1>13, <1>14, <1>15, <1>16, <1>17, <1>18, <1>19, <1>20, <1>21,
       <1>22, <1>23, <1>24 DEF Next, Clock, Driver, Phases, Loop, Pump, Ending,
       Node

\* Every step keeps the steps that were never ready, or whose job is retired, out of
\* the queue.
LEMMA UnseenStep ==
  ~FleetFills /\ TypeInv /\ PhaseInv /\ PumpInv /\ AskInv /\ UnseenInv /\
  [Next]_vars
    => UnseenInv'
  <1> SUFFICES ASSUME ~FleetFills /\ TypeInv /\ PhaseInv /\ PumpInv /\
                      AskInv /\ UnseenInv, [Next]_vars
               PROVE  UnseenInv'
    OBVIOUS
  <1> USE DEF storeVars, clockVars, ctrlVars, queueVars, drvVars, pumpVars,
              nodeVars
  <1>1. CASE UNCHANGED <<step, place, grants, hand, claims, pc>>
    BY <1>1 DEF UnseenInv, Handled, HandsOut
  <1>2. CASE UNCHANGED vars
    BY <1>1, <1>2 DEF vars
  <1>3. ASSUME NEW s \in Steps,
              StepClockFires(s) \/ LeaseLapses(s) \/ RunStarts(s) \/
              MaterializeFails(s) \/ RunEnds(s) \/ ReportRefused(s)
        PROVE  UnseenInv'
    BY <1>1, <1>3 DEF StepClockFires, LeaseLapses, RunStarts,
       MaterializeFails, RunEnds, ReportRefused
  <1>4. ASSUME NEW j \in Jobs,
              JobClockFires(j) \/ AssignLeased(j) \/ AssignRejected(j)
        PROVE  UnseenInv'
    BY <1>1, <1>4 DEF JobClockFires, AssignLeased, AssignRejected
  <1>5. ASSUME NEW j \in Jobs, Begin(j) PROVE UnseenInv'
    BY <1>5 DEF Begin, TypeInv, TypeOK, HandInv, UnseenInv, Handled, HandsOut,
       Ended
  <1>6. ASSUME NEW j \in Jobs, Fetched(j) PROVE UnseenInv'
    BY <1>6 DEF Fetched, TypeInv, TypeOK, HandInv, UnseenInv, Handled,
       HandsOut, Ended
  <1>7. ASSUME NEW j \in Jobs, Planned(j) PROVE UnseenInv'
    BY <1>7 DEF Planned, TypeInv, TypeOK, HandInv, UnseenInv, Handled,
       HandsOut, Ended
  <1>8. ASSUME NEW j \in Jobs, GivesUp(j) PROVE UnseenInv'
    BY <1>8 DEF GivesUp, TypeInv, TypeOK, HandInv, UnseenInv, Handled,
       HandsOut, Ended
  <1>9. ASSUME NEW j \in Jobs, Cancelled(j) PROVE UnseenInv'
    BY <1>9 DEF Cancelled, TypeInv, TypeOK, HandInv, UnseenInv, Handled,
       HandsOut, Ended
  <1>10. ASSUME NEW j \in Jobs, Notified(j) PROVE UnseenInv'
    BY <1>10 DEF Notified, TypeInv, TypeOK, HandInv, UnseenInv, Handled,
       HandsOut, Ended
  <1>11. ASSUME NEW j \in Jobs, DeadlineWakes(j) PROVE UnseenInv'
    BY <1>11 DEF DeadlineWakes, TypeInv, TypeOK, HandInv, UnseenInv, Handled,
       HandsOut, Ended
  <1>12. ASSUME NEW j \in Jobs, LookInFlight(j) PROVE UnseenInv'
    BY <1>12 DEF LookInFlight, TypeInv, TypeOK, HandInv, UnseenInv, Handled,
       HandsOut, Ended
  <1>13. ASSUME NEW j \in Jobs, Finish(j) PROVE UnseenInv'
    BY <1>13 DEF Finish, TypeInv, TypeOK, HandInv, UnseenInv, Handled,
       HandsOut, Ended
  <1>14. ASSUME NEW j \in Jobs, Reported(j) PROVE UnseenInv'
    BY <1>14 DEF Reported, TypeInv, TypeOK, HandInv, UnseenInv, Handled,
       HandsOut, Ended
  <1>15. ASSUME NEW j \in Jobs, CancelStep(j) PROVE UnseenInv'
    BY <1>15, NoneAssumption DEF CancelStep, TypeInv, TypeOK, HandInv,
       UnseenInv, Handled, HandsOut, Ended
  <1>16. ASSUME NEW j \in Jobs, EndPump(j) PROVE UnseenInv'
    BY <1>16, NoneAssumption DEF EndPump, TypeInv, TypeOK, HandInv, UnseenInv,
       Handled, HandsOut, Ended
  <1>17. ASSUME NEW j \in Jobs, AssignFull(j) \/ SettleFull(j) PROVE UnseenInv'
    BY <1>17 DEF AssignFull, SettleFull, AskInv
  <1>18. ASSUME NEW j \in Jobs, PushSteps(j) PROVE UnseenInv'
    BY <1>18 DEF PushSteps, PhaseInv, Early, StepsOf, TypeInv, TypeOK, HandInv,
       UnseenInv, Handled, HandsOut, Ended
  <1>19. ASSUME NEW j \in Jobs, FoldPass(j) PROVE UnseenInv'
    <2>1. /\ \A s \in Steps : step'[s] \in {"absent", "pending"} => step'[s] = step[s]
          /\ \A i \in Jobs : IF i = j THEN pc'[i] \in {"look", "cancel", "pump"} ELSE pc'[i] = pc[i]
      BY <1>19, FoldPassMoves DEF StepsOf
    <2>2. \A s \in Steps : Handled(s)' => Handled(s)
      BY <1>19, <2>1 DEF FoldPass, Handled, HandsOut
    <2>3. \A i \in Jobs : pc'[i] \in Ended \ {"retire"} => pc'[i] = pc[i]
      BY <2>1 DEF Ended
    <2>4. UNCHANGED <<place, claims>>
      BY <1>19 DEF FoldPass
    <2> QED
      BY <2>1, <2>2, <2>3, <2>4, Owners DEF UnseenInv
  <1>20. ASSUME NEW j \in Jobs, MarkSkipped(j) PROVE UnseenInv'
    BY <1>20, NoneAssumption DEF MarkSkipped, StepTransition, StepEdge,
       StepsOf, TypeInv, TypeOK, HandInv, UnseenInv, Handled, HandsOut, Ended
  <1>21. ASSUME NEW j \in Jobs, Select(j) PROVE UnseenInv'
    <2>1. PICK g \in SUBSET Waiting(Reconciled(j)) :
            /\ grants' = [grants EXCEPT ![j] = g]
            /\ place' = [s \in Steps |-> IF s \in g THEN "running" ELSE Reconciled(j)[s]]
      BY <1>21 DEF Select, Granting
    <2>2. \A s \in Steps : step[s] \in {"absent", "pending"} => Reconciled(j)[s] = "none"
      BY DEF Reconciled, Placed, UnseenInv, StepHeld, StepStates, StepTerminal
    <2>3. \A s \in Steps : JobOf[s] # j => Reconciled(j)[s] = place[s]
      BY DEF Reconciled
    <2>4. \A s \in g : Reconciled(j)[s] = "waiting"
      BY <2>1 DEF Waiting
    <2> HIDE DEF Reconciled
    <2>5. UNCHANGED <<step, claims, hand>> /\ pc' = [pc EXCEPT ![j] = "grants"] /\ pc[j] = "pump"
      BY <1>21 DEF Select
    <2>6. \A s \in Steps : Handled(s)' => Handled(s) \/ s \in g
      BY <2>1, <2>5, NoneAssumption DEF TypeInv, TypeOK, HandInv, Handled,
         HandsOut
    <2>7. \A i \in Jobs : pc'[i] \in Ended \ {"retire"} => pc'[i] = pc[i] /\ i # j
      BY <2>5 DEF TypeInv, TypeOK, Ended
    <2>8. \A s \in Steps : place'[s] = IF s \in g THEN "running" ELSE Reconciled(j)[s]
      BY <2>1
    <2> QED
      BY <2>2, <2>3, <2>4, <2>5, <2>6, <2>7, <2>8, Owners DEF UnseenInv
  <1>22. ASSUME NEW j \in Jobs, SelectForOthers(j) PROVE UnseenInv'
    <2>1. PICK g \in SUBSET Waiting(place) :
            /\ grants' = [grants EXCEPT ![j] = g]
            /\ place' = [s \in Steps |-> IF s \in g THEN "running" ELSE place[s]]
      BY <1>22 DEF SelectForOthers, Granting
    <2>2. \A s \in g : place[s] = "waiting"
      BY <2>1 DEF Waiting
    <2>3. /\ UNCHANGED <<step, claims, hand>> /\ pc[j] \in {"offer", "leave"}
          /\ pc' = [pc EXCEPT ![j] = IF @ = "offer" THEN "offers" ELSE "leaves"]
      BY <1>22 DEF SelectForOthers
    <2>4. \A s \in Steps : Handled(s)' => Handled(s) \/ s \in g
      BY <2>1, <2>3, NoneAssumption DEF TypeInv, TypeOK, HandInv, Handled,
         HandsOut
    <2>5. \A i \in Jobs : pc'[i] \in Ended \ {"retire"} => pc[i] \in Ended \ {"retire"}
      BY <2>3 DEF TypeInv, TypeOK, Ended
    <2>6. \A s \in Steps : place'[s] = IF s \in g THEN "running" ELSE place[s]
      BY <2>1
    <2> QED
      BY <2>2, <2>3, <2>4, <2>5, <2>6, Owners DEF UnseenInv
  <1>23. ASSUME NEW j \in Jobs, Claim(j) PROVE UnseenInv'
    BY <1>23 DEF Claim, TypeInv, TypeOK, HandInv, UnseenInv, Handled, HandsOut,
       Ended
  <1>24. ASSUME NEW j \in Jobs, Settle(j) PROVE UnseenInv'
    <2>1. /\ hand[j] \in Steps /\ HandsOut(j) /\ UNCHANGED <<place, claims, pc, grants>>
          /\ hand' \in {hand, [hand EXCEPT ![j] = None]}
      BY <1>24 DEF Settle, TypeInv, TypeOK, HandInv
    <2>2. \A s \in Steps : Handled(s)' => Handled(s)
      BY <2>1, NoneAssumption DEF TypeInv, TypeOK, Handled, HandsOut
    <2>3. \A s \in Steps : step'[s] \in {"absent", "pending"} => step'[s] = step[s]
      BY <1>24, <2>1 DEF Settle, TypeInv, TypeOK, StepTransition
    <2> QED
      BY <2>1, <2>2, <2>3 DEF UnseenInv
  <1>25. ASSUME NEW j \in Jobs, Drop(j) PROVE UnseenInv'
    <2>1. /\ UNCHANGED <<step, claims, pc, grants>>
          /\ hand' = [hand EXCEPT ![j] = None] /\ place' = [place EXCEPT ![hand[j]] = "none"]
      BY <1>25 DEF Drop
    <2>2. \A s \in Steps : Handled(s)' => Handled(s)
      BY <2>1, NoneAssumption DEF TypeInv, TypeOK, Handled, HandsOut
    <2>3. \A s \in Steps : place'[s] \in {"none", place[s]}
      BY <2>1 DEF TypeInv, TypeOK
    <2> QED
      BY <2>1, <2>2, <2>3 DEF UnseenInv
  <1>26. ASSUME NEW j \in Jobs, Retire(j) PROVE UnseenInv'
    BY <1>26 DEF Retire, TypeInv, TypeOK, HandInv, UnseenInv, Handled,
       HandsOut, Ended
  <1>27. ASSUME NEW s \in Steps, ReportAccepted(s) PROVE UnseenInv'
    BY <1>27 DEF ReportAccepted, StepTransition, StepEdge, StepHeld, TypeInv,
       TypeOK, HandInv, UnseenInv, Handled, HandsOut, Ended
  <1> QED
    BY <1>1, <1>2, <1>3, <1>4, <1>5, <1>6, <1>7, <1>8, <1>9, <1>10, <1>11,
       <1>12, <1>13, <1>14, <1>15, <1>16, <1>17, <1>18, <1>19, <1>20, <1>21,
       <1>22, <1>23, <1>24, <1>25, <1>26, <1>27 DEF Next, Clock, Driver,
       Phases, Loop, Pump, Ending, Node

\* A ready step's job has its tree and its drive lease, and its driver is in the
\* loop or cancelling.
LEMMA ReadyOwner ==
  ASSUME TypeInv, PhaseInv, RestInv, NEW s \in Steps, step[s] \notin Quiet
  PROVE  /\ JobOf[s] \in trees /\ JobOf[s] \in leases
         /\ pc[JobOf[s]] \in InLoop \cup {"look", "cancel", "mark"}
  <1>1. JobOf[s] \in Jobs /\ s \in StepsOf(JobOf[s])
    BY Owners DEF StepsOf
  <1>2. pc[JobOf[s]] \in InLoop \cup {"look", "cancel", "mark"}
    BY <1>1 DEF TypeInv, TypeOK, DriverPC, PhaseInv, RestInv, Early, Ended,
       InLoop, Quiet
  <1> QED
    BY <1>1, <1>2 DEF RestInv, InLoop, Ended

\* Every step keeps the claim of a ready step with the pump that is assigning it.
LEMMA AskStep ==
  ~FleetFills /\ TypeInv /\ PhaseInv /\ RestInv /\ UnseenInv /\ AskInv /\
  [Next]_vars
    => AskInv'
  <1> SUFFICES ASSUME ~FleetFills /\ TypeInv /\ PhaseInv /\ RestInv /\
                      UnseenInv /\ AskInv, [Next]_vars
               PROVE  AskInv'
    OBVIOUS
  <1> USE DEF storeVars, clockVars, ctrlVars, queueVars, drvVars, pumpVars,
              nodeVars
  <1>1. CASE UNCHANGED <<step, hand, claims, answer>>
    BY <1>1 DEF AskInv, Settling
  <1>2. CASE UNCHANGED vars
    BY <1>1, <1>2 DEF vars
  <1>3. ASSUME NEW s \in Steps,
              StepClockFires(s) \/ LeaseLapses(s) \/ RunStarts(s) \/
              MaterializeFails(s) \/ RunEnds(s) \/ ReportRefused(s)
        PROVE  AskInv'
    BY <1>1, <1>3 DEF StepClockFires, LeaseLapses, RunStarts,
       MaterializeFails, RunEnds, ReportRefused
  <1>4. ASSUME NEW j \in Jobs,
              JobClockFires(j) \/ Begin(j) \/ Fetched(j) \/ Planned(j) \/
              GivesUp(j) \/ LookInFlight(j) \/ Cancelled(j) \/ Notified(j) \/
              DeadlineWakes(j) \/ Select(j) \/ SelectForOthers(j) \/
              EndPump(j) \/ Finish(j) \/ Retire(j) \/ Reported(j)
        PROVE  AskInv'
    BY <1>1, <1>4 DEF JobClockFires, Begin, Fetched, Planned, GivesUp,
       LookInFlight, Cancelled, Notified, DeadlineWakes, Select,
       SelectForOthers, EndPump, Finish, Retire, Reported, Granting
  <1>5. ASSUME NEW j \in Jobs, AssignFull(j) \/ SettleFull(j) PROVE AskInv'
    BY <1>5 DEF AssignFull, SettleFull, AskInv
  <1>6. ASSUME NEW j \in Jobs, PushSteps(j) PROVE AskInv'
    <2>1. \A s \in Steps : step'[s] = "ready" => step'[s] = step[s]
      BY <1>6 DEF PushSteps
    <2>2. UNCHANGED <<claims, hand, answer>>
      BY <1>6 DEF PushSteps
    <2>3. \A k \in Jobs : answer[k] = "drop" => hand[k] \in Steps
      BY DEF TypeInv, TypeOK, HandInv, HandsOut
    <2> QED
      BY <2>1, <2>2, <2>3 DEF AskInv, Settling
  <1>7. ASSUME NEW j \in Jobs, FoldPass(j) PROVE AskInv'
    <2>1. \A s \in Steps : step'[s] = "ready" => step[s] \in {"ready", "pending"}
      BY <1>7, FoldPassMoves DEF StepsOf
    <2>2. \A s \in Steps : step[s] = "pending" => s \notin claims /\ ~Handled(s)
      BY DEF UnseenInv
    <2>3. \A k \in Jobs : answer[k] = "drop" => hand[k] \in Steps /\ Handled(hand[k])
      BY DEF TypeInv, TypeOK, HandInv, HandsOut, Handled
    <2>4. UNCHANGED <<claims, hand, answer>>
      BY <1>7 DEF FoldPass
    <2> QED
      BY <2>1, <2>2, <2>3, <2>4 DEF AskInv, Settling
  <1>8. ASSUME NEW s \in Steps, ReportAccepted(s) PROVE AskInv'
    <2>1. \A r \in Steps : step'[r] = "ready" => step'[r] = step[r]
      BY <1>8 DEF ReportAccepted, StepTransition, StepEdge, StepHeld, TypeInv,
         TypeOK
    <2>2. UNCHANGED <<claims, hand, answer>>
      BY <1>8 DEF ReportAccepted
    <2>3. \A k \in Jobs : answer[k] = "drop" => hand[k] \in Steps
      BY DEF TypeInv, TypeOK, HandInv, HandsOut
    <2> QED
      BY <2>1, <2>2, <2>3 DEF AskInv, Settling
  <1>9. ASSUME NEW j \in Jobs, CancelStep(j) PROVE AskInv'
    BY <1>9 DEF CancelStep, TypeInv, TypeOK, HandInv, HandsOut, AskInv,
       Settling, Asking
  <1>10. ASSUME NEW j \in Jobs, MarkSkipped(j) PROVE AskInv'
    BY <1>10 DEF MarkSkipped, StepTransition, StepsOf, TypeInv, TypeOK,
       HandInv, HandsOut, AskInv, Settling, Asking
  <1>11. ASSUME NEW j \in Jobs, Claim(j) PROVE AskInv'
    <2>1. PICK s \in grants[j] :
            LET may == JobOf[s] \in trees /\ JobOf[s] \in leases /\ s \notin claims
            IN  /\ hand' = [hand EXCEPT ![j] = s]
                /\ answer' = [answer EXCEPT ![j] = IF may THEN "granted" ELSE "drop"]
                /\ claims' = IF may THEN claims \cup {s} ELSE claims
      BY <1>11 DEF Claim, StepClaim
    <2>2. s \in Steps /\ hand[j] = None /\ HandsOut(j) /\ step' = step
      BY <1>11 DEF Claim, TypeInv, TypeOK
    <2>3. step[s] = "ready" => JobOf[s] \in trees /\ JobOf[s] \in leases
      BY <2>2, ReadyOwner DEF Quiet
    <2> DEFINE may == JobOf[s] \in trees /\ JobOf[s] \in leases /\ s \notin claims
    <2>4. hand'[j] = s /\ \A k \in Jobs \ {j} : hand'[k] = hand[k] /\ answer'[k] = answer[k]
      BY <2>1 DEF TypeInv, TypeOK
    <2>5. answer[j] = "none"
      BY <2>2 DEF HandInv, TypeInv
    <2>6. CASE may
      <3>1. answer'[j] = "granted" /\ claims' = claims \cup {s}
        BY <2>1, <2>6 DEF TypeInv, TypeOK
      <3> QED
        BY <3>1, <2>2, <2>4, <2>5 DEF AskInv, Settling, Asking
    <2>7. CASE ~may
      <3>1. answer'[j] = "drop" /\ claims' = claims
        BY <2>1, <2>7 DEF TypeInv, TypeOK
      <3> QED
        BY <3>1, <2>2, <2>3, <2>4, <2>5, <2>7 DEF AskInv, Settling, Asking
    <2> QED
      BY <2>6, <2>7
  <1>12. ASSUME NEW j \in Jobs, AssignLeased(j) PROVE AskInv'
    BY <1>12 DEF AssignLeased, TypeInv, TypeOK, HandInv, HandsOut, AskInv,
       Settling, Asking
  <1>13. ASSUME NEW j \in Jobs, AssignRejected(j) PROVE AskInv'
    BY <1>13 DEF AssignRejected, TypeInv, TypeOK, HandInv, HandsOut, AskInv,
       Settling, Asking
  <1>14. ASSUME NEW j \in Jobs, Settle(j) PROVE AskInv'
    <2> DEFINE h == hand[j]
    <2>1. /\ h \in Steps /\ HandsOut(j) /\ claims' = claims
          /\ \A k \in Jobs \ {j} : hand'[k] = hand[k] /\ answer'[k] = answer[k]
      BY <1>14 DEF Settle, TypeInv, TypeOK, HandInv
    <2>2. /\ \A s \in Steps : step'[s] = "ready" => step[s] = "ready" /\ s # h
          /\ \A s \in Steps \ {h} : step'[s] = step[s]
      BY <1>14, <2>1 DEF Settle, StepTransition, StepEdge, TypeInv, TypeOK
    <2>3. /\ answer'[j] \in {"drop", "none"}
          /\ answer'[j] = "drop" => hand'[j] = h
      BY <1>14 DEF Settle, TypeInv, TypeOK
    <2>4. \A k \in Jobs : answer[k] = "drop" => hand[k] \in Steps
      BY DEF TypeInv, TypeOK, HandInv, HandsOut
    <2> HIDE DEF h
    <2>5. \A s \in Steps : s # h /\ Settling(s) => Settling(s)'
      BY <2>1 DEF Settling, h
    <2>6. \A s \in Steps : s \in claims' /\ step'[s] = "ready" => Settling(s)'
      BY <2>1, <2>2, <2>5 DEF AskInv
    <2>7. \A k \in Jobs : answer'[k] = "drop" /\ step'[hand'[k]] = "ready" => hand'[k] \in claims'
      BY <2>1, <2>2, <2>3, <2>4 DEF AskInv
    <2>8. \A k \in Jobs : answer'[k] # "full"
      BY <2>1, <2>3 DEF AskInv
    <2> QED
      BY <2>6, <2>7, <2>8 DEF AskInv
  <1>15. ASSUME NEW j \in Jobs, Drop(j) PROVE AskInv'
    BY <1>15 DEF Drop, TypeInv, TypeOK, HandInv, HandsOut, AskInv, Settling,
       Asking
  <1> QED
    BY <1>1, <1>2, <1>3, <1>4, <1>5, <1>6, <1>7, <1>8, <1>9, <1>10, <1>11,
       <1>12, <1>13, <1>14, <1>15 DEF Next, Clock, Driver, Phases, Loop, Pump,
       Ending, Node

\* A move that leaves a step alone, and takes it neither from a pump nor takes away
\* its driver's reason to stir, keeps them in agreement.
LEMMA QueueKept ==
  ASSUME NEW i \in Jobs, NEW s \in StepsOf(i), Agree(i, s),
         step'[s] = step[s], place'[s] = place[s],
         Handled(s) => Handled(s)', Stirs(i) => Stirs(i)',
         pc[i] \in Working => pc'[i] \in Working
  PROVE  Agree(i, s)'
  BY DEF Agree, StepHeld

\* Once pump has told the queue of a job's steps, their placements are the store's.
LEMMA ReconciledPlaces ==
  ASSUME TypeInv, UnseenInv, NEW j \in Jobs
  PROVE  /\ \A s \in StepsOf(j) : /\ Reconciled(j)[s] = "waiting" <=> step[s] = "ready"
                                  /\ Reconciled(j)[s] = "running" <=> StepHeld(step[s])
         /\ \A s \in Steps : JobOf[s] # j => Reconciled(j)[s] = place[s]
  <1>1. ASSUME NEW s \in StepsOf(j)
        PROVE  /\ Reconciled(j)[s] = "waiting" <=> step[s] = "ready"
               /\ Reconciled(j)[s] = "running" <=> StepHeld(step[s])
    <2>1. s \in Steps /\ JobOf[s] = j
      BY DEF StepsOf
    <2>2. Reconciled(j)[s] = Placed(step[s], place[s])
      BY <2>1 DEF Reconciled
    <2>3. step[s] \in StepStates \cup {"absent"} /\ (step[s] \in {"absent", "pending"} => place[s] = "none")
      BY <2>1 DEF TypeInv, TypeOK, UnseenInv
    <2> QED
      BY <2>2, <2>3 DEF Placed, StepHeld, StepStates, StepTerminal
  <1> QED
    BY <1>1 DEF Reconciled

\* An answer that moves a step wakes the driver of its job.
LEMMA SettleStirs ==
  ASSUME TypeInv, PhaseInv, RestInv, NEW j \in Jobs, Settle(j), NEW i \in Jobs, i = JobOf[hand[j]],
         StepEdge(step[hand[j]], IF answer[j] = "leased" THEN "leased" ELSE "errored")
  PROVE  Stirs(i)'
  <1>1. hand[j] \in Steps /\ HandsOut(j)
    BY DEF Settle, TypeInv, TypeOK, HandInv
  <1>2. step[hand[j]] \notin Quiet
    BY DEF Settle, StepEdge, Quiet
  <1>3. pc[i] \in InLoop \cup {"look", "cancel", "mark"} /\ pc' = pc
    BY <1>1, <1>2, ReadyOwner DEF Settle, drvVars
  <1>4. IF i = j THEN j \in moved' ELSE i \in woken'[j]
    BY <1>1 DEF Settle, TypeInv, TypeOK
  <1> QED
    BY <1>1, <1>3, <1>4 DEF Stirs, Working, InLoop, HandsOut

\* Every step keeps store and queue in agreement, or somebody about to settle the
\* difference.
LEMMA QueueStep ==
  ~FleetFills /\ TypeInv /\ PhaseInv /\ ServiceInv /\ [Next]_vars
    => QueueInv'
  <1> SUFFICES ASSUME ~FleetFills /\ TypeInv /\ PhaseInv /\ ServiceInv,
                      [Next]_vars
               PROVE  QueueInv'
    OBVIOUS
  <1> USE DEF storeVars, clockVars, ctrlVars, queueVars, drvVars, pumpVars,
              nodeVars, ServiceInv
  <1>1. CASE UNCHANGED <<step, place, pc, grants, hand, permit, moved, woken>>
    BY <1>1 DEF QueueInv, Agree, StepHeld, Handled, HandsOut, Stirs
  <1>2. CASE UNCHANGED vars
    BY <1>1, <1>2 DEF vars
  <1>3. ASSUME NEW s \in Steps,
              StepClockFires(s) \/ LeaseLapses(s) \/ RunStarts(s) \/
              MaterializeFails(s) \/ RunEnds(s) \/ ReportRefused(s)
        PROVE  QueueInv'
    BY <1>1, <1>3 DEF StepClockFires, LeaseLapses, RunStarts,
       MaterializeFails, RunEnds, ReportRefused
  <1>4. ASSUME NEW j \in Jobs,
              JobClockFires(j) \/ AssignLeased(j) \/ AssignRejected(j)
        PROVE  QueueInv'
    BY <1>1, <1>4 DEF JobClockFires, AssignLeased, AssignRejected
  <1>5. ASSUME NEW j \in Jobs, AssignFull(j) \/ SettleFull(j) PROVE QueueInv'
    BY <1>5 DEF AssignFull, SettleFull, AskInv
  <1>6. ASSUME NEW j \in Jobs, Begin(j) PROVE QueueInv'
    <2>1. \A s \in Steps : Handled(s) => Handled(s)'
      BY <1>6, NoneAssumption DEF Begin, TypeInv, TypeOK, HandInv, PumpInv,
         HandsOut, Handled
    <2>2. \A i \in Jobs : /\ pc[i] \in Working => pc'[i] \in Working
                          /\ Stirs(i) => Stirs(i)'
      BY <1>6 DEF Begin, TypeInv, TypeOK, HandsOut, Stirs, Working
    <2>3. UNCHANGED <<step, place>>
      BY <1>6 DEF Begin
    <2> QED
      BY <2>1, <2>2, <2>3, QueueKept DEF QueueInv, StepsOf
  <1>7. ASSUME NEW j \in Jobs, Fetched(j) PROVE QueueInv'
    <2>1. \A s \in Steps : Handled(s) => Handled(s)'
      BY <1>7, NoneAssumption DEF Fetched, TypeInv, TypeOK, HandInv, PumpInv,
         HandsOut, Handled
    <2>2. \A i \in Jobs : /\ pc[i] \in Working => pc'[i] \in Working
                          /\ Stirs(i) => Stirs(i)'
      BY <1>7 DEF Fetched, TypeInv, TypeOK, HandsOut, Stirs, Working
    <2>3. UNCHANGED <<step, place>>
      BY <1>7 DEF Fetched
    <2> QED
      BY <2>1, <2>2, <2>3, QueueKept DEF QueueInv, StepsOf
  <1>8. ASSUME NEW j \in Jobs, Planned(j) PROVE QueueInv'
    <2>1. \A s \in Steps : Handled(s) => Handled(s)'
      BY <1>8, NoneAssumption DEF Planned, TypeInv, TypeOK, HandInv, PumpInv,
         HandsOut, Handled
    <2>2. \A i \in Jobs : /\ pc[i] \in Working => pc'[i] \in Working
                          /\ Stirs(i) => Stirs(i)'
      BY <1>8 DEF Planned, TypeInv, TypeOK, HandsOut, Stirs, Working
    <2>3. UNCHANGED <<step, place>>
      BY <1>8 DEF Planned
    <2> QED
      BY <2>1, <2>2, <2>3, QueueKept DEF QueueInv, StepsOf
  <1>9. ASSUME NEW j \in Jobs, GivesUp(j) PROVE QueueInv'
    <2>1. \A s \in Steps : Handled(s) => Handled(s)'
      BY <1>9, NoneAssumption DEF GivesUp, TypeInv, TypeOK, HandInv, PumpInv,
         HandsOut, Handled
    <2>2. \A i \in Jobs : /\ pc[i] \in Working => pc'[i] \in Working
                          /\ Stirs(i) => Stirs(i)'
      BY <1>9 DEF GivesUp, TypeInv, TypeOK, HandsOut, Stirs, Working
    <2>3. UNCHANGED <<step, place>>
      BY <1>9 DEF GivesUp
    <2> QED
      BY <2>1, <2>2, <2>3, QueueKept DEF QueueInv, StepsOf
  <1>10. ASSUME NEW j \in Jobs, LookInFlight(j) PROVE QueueInv'
    <2>1. \A s \in Steps : Handled(s) => Handled(s)'
      BY <1>10, NoneAssumption DEF LookInFlight, TypeInv, TypeOK, HandInv,
         PumpInv, HandsOut, Handled
    <2>2. \A i \in Jobs : /\ pc[i] \in Working => pc'[i] \in Working
                          /\ Stirs(i) => Stirs(i)'
      BY <1>10 DEF LookInFlight, TypeInv, TypeOK, HandsOut, Stirs, Working
    <2>3. UNCHANGED <<step, place>>
      BY <1>10 DEF LookInFlight
    <2> QED
      BY <2>1, <2>2, <2>3, QueueKept DEF QueueInv, StepsOf
  <1>11. ASSUME NEW j \in Jobs, CancelStep(j) PROVE QueueInv'
    <2>1. \A s \in Steps : Handled(s) => Handled(s)'
      BY <1>11, NoneAssumption DEF CancelStep, TypeInv, TypeOK, HandInv,
         PumpInv, HandsOut, Handled
    <2>2. \A i \in Jobs : /\ pc[i] \in Working => pc'[i] \in Working
                          /\ Stirs(i) => Stirs(i)'
      BY <1>11 DEF CancelStep, TypeInv, TypeOK, HandsOut, Stirs, Working
    <2>3. UNCHANGED <<step, place>>
      BY <1>11 DEF CancelStep
    <2> QED
      BY <2>1, <2>2, <2>3, QueueKept DEF QueueInv, StepsOf
  <1>12. ASSUME NEW j \in Jobs, Cancelled(j) PROVE QueueInv'
    <2>1. \A s \in Steps : Handled(s) => Handled(s)'
      BY <1>12, NoneAssumption DEF Cancelled, TypeInv, TypeOK, HandInv,
         PumpInv, HandsOut, Handled
    <2>2. \A i \in Jobs : /\ pc[i] \in Working => pc'[i] \in Working
                          /\ Stirs(i) => Stirs(i)'
      BY <1>12 DEF Cancelled, TypeInv, TypeOK, HandsOut, Stirs, Working
    <2>3. UNCHANGED <<step, place>>
      BY <1>12 DEF Cancelled
    <2> QED
      BY <2>1, <2>2, <2>3, QueueKept DEF QueueInv, StepsOf
  <1>13. ASSUME NEW j \in Jobs, Notified(j) PROVE QueueInv'
    <2>1. \A s \in Steps : Handled(s) => Handled(s)'
      BY <1>13, NoneAssumption DEF Notified, TypeInv, TypeOK, HandInv, PumpInv,
         HandsOut, Handled
    <2>2. \A i \in Jobs : /\ pc[i] \in Working => pc'[i] \in Working
                          /\ Stirs(i) => Stirs(i)'
      BY <1>13 DEF Notified, TypeInv, TypeOK, HandsOut, Stirs, Working
    <2>3. UNCHANGED <<step, place>>
      BY <1>13 DEF Notified
    <2> QED
      BY <2>1, <2>2, <2>3, QueueKept DEF QueueInv, StepsOf
  <1>14. ASSUME NEW j \in Jobs, DeadlineWakes(j) PROVE QueueInv'
    <2>1. \A s \in Steps : Handled(s) => Handled(s)'
      BY <1>14, NoneAssumption DEF DeadlineWakes, TypeInv, TypeOK, HandInv,
         PumpInv, HandsOut, Handled
    <2>2. \A i \in Jobs : /\ pc[i] \in Working => pc'[i] \in Working
                          /\ Stirs(i) => Stirs(i)'
      BY <1>14 DEF DeadlineWakes, TypeInv, TypeOK, HandsOut, Stirs, Working
    <2>3. UNCHANGED <<step, place>>
      BY <1>14 DEF DeadlineWakes
    <2> QED
      BY <2>1, <2>2, <2>3, QueueKept DEF QueueInv, StepsOf
  <1>15. ASSUME NEW j \in Jobs, Claim(j) PROVE QueueInv'
    <2>1. \A s \in Steps : Handled(s) => Handled(s)'
      BY <1>15, NoneAssumption DEF Claim, TypeInv, TypeOK, HandInv, PumpInv,
         HandsOut, Handled
    <2>2. \A i \in Jobs : /\ pc[i] \in Working => pc'[i] \in Working
                          /\ Stirs(i) => Stirs(i)'
      BY <1>15 DEF Claim, TypeInv, TypeOK, HandsOut, Stirs, Working
    <2>3. UNCHANGED <<step, place>>
      BY <1>15 DEF Claim
    <2> QED
      BY <2>1, <2>2, <2>3, QueueKept DEF QueueInv, StepsOf
  <1>16. ASSUME NEW j \in Jobs, Finish(j) PROVE QueueInv'
    <2>1. \A s \in Steps : Handled(s) => Handled(s)'
      BY <1>16, NoneAssumption DEF Finish, TypeInv, TypeOK, HandInv, PumpInv,
         HandsOut, Handled
    <2>2. \A i \in Jobs : /\ pc[i] \in Working => pc'[i] \in Working
                          /\ Stirs(i) => Stirs(i)'
      BY <1>16 DEF Finish, TypeInv, TypeOK, HandsOut, Stirs, Working
    <2>3. UNCHANGED <<step, place>>
      BY <1>16 DEF Finish
    <2> QED
      BY <2>1, <2>2, <2>3, QueueKept DEF QueueInv, StepsOf
  <1>17. ASSUME NEW j \in Jobs, Reported(j) PROVE QueueInv'
    <2>1. \A s \in Steps : Handled(s) => Handled(s)'
      BY <1>17, NoneAssumption DEF Reported, TypeInv, TypeOK, HandInv, PumpInv,
         HandsOut, Handled
    <2>2. \A i \in Jobs : /\ pc[i] \in Working => pc'[i] \in Working
                          /\ Stirs(i) => Stirs(i)'
      BY <1>17 DEF Reported, TypeInv, TypeOK, HandsOut, Stirs, Working
    <2>3. UNCHANGED <<step, place>>
      BY <1>17 DEF Reported
    <2> QED
      BY <2>1, <2>2, <2>3, QueueKept DEF QueueInv, StepsOf
  <1>18. ASSUME NEW j \in Jobs, EndPump(j) PROVE QueueInv'
    <2>1. \A s \in Steps : Handled(s) => Handled(s)'
      BY <1>18, NoneAssumption DEF EndPump, TypeInv, TypeOK, HandInv, PumpInv,
         HandsOut, Handled
    <2>2. \A i \in Jobs : /\ pc[i] \in Working => pc'[i] \in Working
                          /\ Stirs(i) => Stirs(i)'
      BY <1>18 DEF EndPump, TypeInv, TypeOK, HandsOut, Stirs, Working
    <2>3. UNCHANGED <<step, place>>
      BY <1>18 DEF EndPump
    <2> QED
      BY <2>1, <2>2, <2>3, QueueKept DEF QueueInv, StepsOf
  <1>19. ASSUME NEW j \in Jobs, PushSteps(j) PROVE QueueInv'
    <2>1. /\ \A s \in Steps \ StepsOf(j) : step'[s] = step[s]
          /\ \A s \in StepsOf(j) : step[s] = "absent" /\ step'[s] # "ready"
      BY <1>19 DEF PushSteps, PhaseInv, Early, StepsOf
    <2>2. \A s \in Steps : Handled(s) => Handled(s)'
      BY <1>19, NoneAssumption DEF PushSteps, TypeInv, TypeOK, HandInv,
         HandsOut, Handled
    <2>3. \A i \in Jobs : /\ pc[i] \in Working => pc'[i] \in Working
                          /\ Stirs(i) => Stirs(i)'
      BY <1>19 DEF PushSteps, TypeInv, TypeOK, HandsOut, Stirs, Working
    <2>4. place' = place
      BY <1>19 DEF PushSteps
    <2>5. \A s \in StepsOf(j) : place[s] = "none" /\ s \in Steps
      BY <2>1 DEF UnseenInv, StepsOf
    <2>6. \A s \in StepsOf(j) : Agree(j, s)'
      BY <2>1, <2>4, <2>5 DEF Agree
    <2>7. \A i \in Jobs \ {j} : \A s \in StepsOf(i) : Agree(i, s)'
      BY <2>1, <2>2, <2>3, <2>4, QueueKept DEF QueueInv, StepsOf
    <2> QED
      BY <2>6, <2>7 DEF QueueInv
  <1>20. ASSUME NEW j \in Jobs, FoldPass(j) PROVE QueueInv'
    <2>1. \A s \in Steps : JobOf[s] # j => step'[s] = step[s]
      BY <1>20, FoldPassMoves DEF StepsOf
    <2>2. \A s \in Steps : Handled(s) => Handled(s)'
      BY <1>20, FoldPassMoves DEF FoldPass, TypeInv, TypeOK, HandInv, HandsOut,
         Handled
    <2>3. \A i \in Jobs : /\ pc[i] \in Working => pc'[i] \in Working
                          /\ Stirs(i) => Stirs(i)'
      BY <1>20, FoldPassMoves DEF FoldPass, Stirs, Working
    <2>4. place' = place
      BY <1>20 DEF FoldPass
    <2>5. pc'[j] \in Working /\ Stirs(j)'
      BY <1>20, FoldPassMoves DEF FoldPass, TypeInv, TypeOK, Working, Stirs
    <2>6. \A s \in StepsOf(j) : Agree(j, s)'
      BY <2>5 DEF Agree
    <2>7. \A i \in Jobs \ {j} : \A s \in StepsOf(i) : Agree(i, s)'
      BY <2>1, <2>2, <2>3, <2>4, QueueKept DEF QueueInv, StepsOf
    <2> QED
      BY <2>6, <2>7 DEF QueueInv
  <1>21. ASSUME NEW j \in Jobs, MarkSkipped(j) PROVE QueueInv'
    <2>1. \A s \in Steps : JobOf[s] # j => step'[s] = step[s]
      BY <1>21 DEF MarkSkipped, TypeInv, TypeOK, HandInv, StepsOf
    <2>2. \A s \in Steps : Handled(s) => Handled(s)'
      BY <1>21, NoneAssumption DEF MarkSkipped, TypeInv, TypeOK, HandInv,
         HandsOut, Handled
    <2>3. \A i \in Jobs : /\ pc[i] \in Working => pc'[i] \in Working
                          /\ Stirs(i) => Stirs(i)'
      BY <1>21 DEF MarkSkipped, TypeInv, TypeOK, HandsOut, Stirs, Working
    <2>4. place' = place
      BY <1>21 DEF MarkSkipped
    <2>5. pc'[j] \in Working /\ Stirs(j)'
      BY <1>21, Owners DEF MarkSkipped, TypeInv, TypeOK, Working, Stirs
    <2>6. \A s \in StepsOf(j) : Agree(j, s)'
      BY <2>5 DEF Agree
    <2>7. \A i \in Jobs \ {j} : \A s \in StepsOf(i) : Agree(i, s)'
      BY <2>1, <2>2, <2>3, <2>4, QueueKept DEF QueueInv, StepsOf
    <2> QED
      BY <2>6, <2>7 DEF QueueInv
  <1>22. ASSUME NEW s \in Steps, ReportAccepted(s) PROVE QueueInv'
    <2>1. /\ \A r \in Steps \ {s} : step'[r] = step[r]
          /\ step'[s] # "ready"
      BY <1>22 DEF ReportAccepted, StepTransition, StepEdge, StepHeld, TypeInv,
         TypeOK
    <2>2. \A r \in Steps : Handled(r) => Handled(r)'
      BY <1>22, NoneAssumption DEF ReportAccepted, TypeInv, TypeOK, HandInv,
         HandsOut, Handled
    <2>3. \A i \in Jobs : /\ pc[i] \in Working => pc'[i] \in Working
                          /\ Stirs(i) => Stirs(i)'
      BY <1>22 DEF ReportAccepted, TypeInv, TypeOK, HandsOut, Stirs, Working
    <2>4. place' = place
      BY <1>22 DEF ReportAccepted
    <2>5. pc[JobOf[s]] \in InLoop \cup {"look", "cancel", "mark"}
      BY <1>22, ReadyOwner DEF ReportAccepted, StepHeld, Quiet
    <2>6. pc' = pc /\ JobOf[s] \in permit'
      BY <1>22 DEF ReportAccepted
    <2>7. \A i \in Jobs : s \in StepsOf(i) => Stirs(i)'
      BY <2>5, <2>6 DEF Stirs, Working, InLoop, StepsOf
    <2>8. \A i \in Jobs : s \in StepsOf(i) => Agree(i, s)'
      BY <2>1, <2>7 DEF Agree
    <2>9. \A i \in Jobs : \A r \in StepsOf(i) \ {s} : Agree(i, r)'
      BY <2>1, <2>2, <2>3, <2>4, QueueKept DEF QueueInv, StepsOf
    <2> QED
      BY <2>8, <2>9 DEF QueueInv
  <1>23. ASSUME NEW j \in Jobs, Settle(j) PROVE QueueInv'
    <2>0. PICK h \in Steps : h = hand[j]
      BY <1>23 DEF Settle, TypeInv, TypeOK, HandInv
    <2> DEFINE moves == StepEdge(step[h], IF answer[j] = "leased" THEN "leased" ELSE "errored")
    <2>1. HandsOut(j) /\ UNCHANGED <<place, pc, grants, permit>>
      BY <1>23 DEF Settle
    <2>2. \A s \in Steps \ {h} : step'[s] = step[s]
      BY <1>23, <2>0 DEF Settle, TypeInv, TypeOK
    <2>3. \A s \in Steps \ {h} : Handled(s) => Handled(s)'
      BY <1>23, <2>0, <2>1 DEF Settle, TypeInv, TypeOK, Handled, HandsOut
    <2>4. \A i \in Jobs : /\ pc[i] \in Working => pc'[i] \in Working
                          /\ Stirs(i) => Stirs(i)'
      BY <1>23, <2>0, <2>1 DEF Settle, TypeInv, TypeOK, Stirs
    <2>r. \A i \in Jobs : \A s \in StepsOf(i) \ {h} : Agree(i, s)'
      BY <2>1, <2>2, <2>3, <2>4, QueueKept DEF QueueInv, StepsOf
    <2>5. CASE ~moves
      <3>1. step'[h] = step[h] /\ hand' = hand
        BY <1>23, <2>0, <2>1, <2>5 DEF Settle, StepTransition, TypeInv, TypeOK
      <3>2. Handled(h) => Handled(h)'
        BY <2>0, <2>1, <3>1 DEF Handled, HandsOut
      <3>3. \A i \in Jobs : h \in StepsOf(i) => Agree(i, h)'
        BY <2>1, <2>4, <3>1, <3>2, QueueKept DEF QueueInv
      <3> QED
        BY <2>r, <3>3 DEF QueueInv
    <2>6. CASE moves
      <3>1. step'[h] # "ready"
        BY <1>23, <2>0, <2>1, <2>6 DEF Settle, StepTransition, TypeInv, TypeOK
      <3>2. \A i \in Jobs : h \in StepsOf(i) => Stirs(i)'
        BY <1>23, <2>0, <2>6, SettleStirs DEF StepsOf
      <3>3. \A i \in Jobs : h \in StepsOf(i) => Agree(i, h)'
        BY <3>1, <3>2 DEF Agree
      <3> QED
        BY <2>r, <3>3 DEF QueueInv
    <2> QED
      BY <2>5, <2>6
  <1>24. ASSUME NEW j \in Jobs, Drop(j) PROVE QueueInv'
    <2>0. PICK h \in Steps : h = hand[j]
      BY <1>24 DEF Drop, TypeInv, TypeOK, HandInv
    <2>1. /\ answer[j] = "drop" /\ UNCHANGED <<step, pc, grants, permit, moved, woken>>
          /\ hand' = [hand EXCEPT ![j] = None]
          /\ place'[h] = "none" /\ \A s \in Steps \ {h} : place'[s] = place[s]
      BY <1>24, <2>0 DEF Drop, TypeInv, TypeOK
    <2>2. \A s \in Steps \ {h} : Handled(s) => Handled(s)'
      BY <2>0, <2>1 DEF TypeInv, TypeOK, Handled, HandsOut
    <2>3. step[h] = "ready" => Handled(h)'
      <3>1. SUFFICES ASSUME step[h] = "ready" PROVE Handled(h)'
        OBVIOUS
      <3>2. PICK k \in Jobs : hand[k] = h /\ answer[k] \in Asking
        BY <2>0, <2>1, <3>1 DEF AskInv, Settling
      <3>3. k # j /\ HandsOut(k)
        BY <2>0, <2>1, <3>2 DEF Asking, TypeInv, HandInv
      <3> QED
        BY <2>0, <2>1, <3>2, <3>3 DEF TypeInv, TypeOK, Handled, HandsOut
    <2>4. \A i \in Jobs : Stirs(i) => Stirs(i)'
      BY <2>1 DEF Stirs
    <2>5. \A i \in Jobs : \A s \in StepsOf(i) \ {h} : Agree(i, s)'
      BY <2>1, <2>2, <2>4, QueueKept DEF QueueInv, StepsOf
    <2>6. \A i \in Jobs : h \in StepsOf(i) => Agree(i, h)'
      BY <2>1, <2>3 DEF Agree
    <2> QED
      BY <2>5, <2>6 DEF QueueInv
  <1>25. ASSUME NEW j \in Jobs, Retire(j) PROVE QueueInv'
    <2>1. /\ \A s \in Steps : place'[s] = IF JobOf[s] = j THEN "none" ELSE place[s]
          /\ UNCHANGED <<step, grants, hand, permit, moved, woken>>
      BY <1>25 DEF Retire
    <2>2. \A i \in Jobs : /\ pc[i] \in Working => pc'[i] \in Working
                          /\ Stirs(i) => Stirs(i)'
      BY <1>25 DEF Retire, TypeInv, TypeOK, Working, Stirs
    <2>3. \A s \in Steps : JobOf[s] = j => step[s] # "ready"
      BY <1>25 DEF Retire, RestInv, Ended, StepsOf, Quiet
    <2>4. \A s \in Steps : Handled(s) => Handled(s)'
      BY <1>25 DEF Retire, TypeInv, TypeOK, Handled, HandsOut
    <2>5. \A i \in Jobs \ {j} : \A s \in StepsOf(i) : Agree(i, s)'
      BY <2>1, <2>2, <2>4, QueueKept DEF QueueInv, StepsOf
    <2>6. \A s \in StepsOf(j) : Agree(j, s)'
      BY <2>1, <2>3 DEF Agree, StepsOf
    <2> QED
      BY <2>5, <2>6 DEF QueueInv
  <1>26. ASSUME NEW j \in Jobs, Select(j) PROVE QueueInv'
    <2>1. PICK g \in SUBSET Waiting(Reconciled(j)) :
            /\ grants' = [grants EXCEPT ![j] = g]
            /\ place' = [s \in Steps |-> IF s \in g THEN "running" ELSE Reconciled(j)[s]]
      BY <1>26 DEF Select, Granting
    <2>2. /\ \A s \in StepsOf(j) : /\ Reconciled(j)[s] = "waiting" <=> step[s] = "ready"
                                   /\ Reconciled(j)[s] = "running" <=> StepHeld(step[s])
          /\ \A s \in Steps : JobOf[s] # j => Reconciled(j)[s] = place[s]
      BY ReconciledPlaces
    <2>3. \A s \in g : Reconciled(j)[s] = "waiting"
      BY <2>1 DEF Waiting
    <2> HIDE DEF Reconciled
    <2>4. /\ UNCHANGED <<step, hand, permit, moved, woken>>
          /\ pc' = [pc EXCEPT ![j] = "grants"] /\ pc[j] = "pump" /\ grants[j] = {}
      BY <1>26 DEF Select, PumpInv, HandsOut
    <2>5. \A s \in Steps : (Handled(s) \/ s \in g) => Handled(s)'
      BY <2>1, <2>4 DEF TypeInv, TypeOK, Handled, HandsOut
    <2>6. \A i \in Jobs \ {j} : /\ pc[i] \in Working => pc'[i] \in Working
                                /\ Stirs(i) => Stirs(i)'
      BY <2>4 DEF TypeInv, TypeOK, Stirs
    <2>7. \A s \in Steps : place'[s] = IF s \in g THEN "running" ELSE Reconciled(j)[s]
      BY <2>1
    <2>8. ASSUME NEW s \in StepsOf(j) PROVE Agree(j, s)'
      <3>1. s \in Steps /\ step'[s] = step[s]
        BY <2>4 DEF StepsOf
      <3>2. CASE s \in g
        <4>1. step[s] = "ready" /\ place'[s] = "running" /\ Handled(s)'
          BY <2>2, <2>3, <2>5, <2>7, <3>1, <3>2
        <4> QED
          BY <3>1, <4>1 DEF Agree
      <3>3. CASE s \notin g
        <4>1. /\ place'[s] = "waiting" <=> step[s] = "ready"
              /\ place'[s] = "running" <=> step[s] \in {"leased", "running"}
          BY <2>2, <2>7, <3>1, <3>3 DEF StepHeld
        <4> QED
          BY <3>1, <4>1 DEF Agree, StepHeld
      <3> QED
        BY <3>2, <3>3
    <2>9. ASSUME NEW i \in Jobs \ {j}, NEW s \in StepsOf(i) PROVE Agree(i, s)'
      <3>1. s \in Steps /\ JobOf[s] # j /\ Agree(i, s)
        BY DEF StepsOf, QueueInv
      <3>2. Stirs(i) => Stirs(i)'
        BY <2>6
      <3>3. CASE s \in g
        <4>1. place[s] = "waiting" /\ place'[s] = "running" /\ step'[s] = step[s] /\ Handled(s)'
          BY <2>2, <2>3, <2>4, <2>5, <2>7, <3>1, <3>3
        <4>2. step[s] = "ready" \/ Stirs(i)'
          BY <3>1, <3>2, <4>1 DEF Agree
        <4> QED
          BY <4>1, <4>2 DEF Agree
      <3>4. CASE s \notin g
        <4>1. place'[s] = place[s] /\ step'[s] = step[s]
          BY <2>2, <2>4, <2>7, <3>1, <3>4
        <4> QED
          BY <2>5, <2>6, <3>1, <4>1, QueueKept
      <3> QED
        BY <3>3, <3>4
    <2> QED
      BY <2>8, <2>9 DEF QueueInv
  <1>27. ASSUME NEW j \in Jobs, SelectForOthers(j) PROVE QueueInv'
    <2>1. PICK g \in SUBSET Waiting(place) :
            /\ grants' = [grants EXCEPT ![j] = g]
            /\ place' = [s \in Steps |-> IF s \in g THEN "running" ELSE place[s]]
      BY <1>27 DEF SelectForOthers, Granting
    <2>2. \A s \in g : place[s] = "waiting"
      BY <2>1 DEF Waiting
    <2>3. /\ UNCHANGED <<step, hand, permit, moved, woken>> /\ pc[j] \in {"offer", "leave"}
          /\ pc' = [pc EXCEPT ![j] = IF @ = "offer" THEN "offers" ELSE "leaves"]
          /\ grants[j] = {}
      BY <1>27 DEF SelectForOthers, PumpInv, HandsOut
    <2>4. \A s \in Steps : JobOf[s] = j => step[s] # "ready" /\ place[s] = "none"
      BY <2>3 DEF RestInv, UnseenInv, Ended, Quiet, StepsOf
    <2>5. \A s \in Steps : (Handled(s) \/ s \in g) => Handled(s)'
      BY <2>1, <2>3 DEF TypeInv, TypeOK, Handled, HandsOut
    <2>6. \A i \in Jobs \ {j} : /\ pc[i] \in Working => pc'[i] \in Working
                                /\ Stirs(i) => Stirs(i)'
      BY <2>3 DEF TypeInv, TypeOK, Stirs
    <2>7. \A s \in Steps : place'[s] = IF s \in g THEN "running" ELSE place[s]
      BY <2>1
    <2>8. ASSUME NEW s \in StepsOf(j) PROVE Agree(j, s)'
      <3>1. place'[s] = "none" /\ step'[s] # "ready"
        BY <2>2, <2>3, <2>4, <2>7 DEF StepsOf
      <3> QED
        BY <3>1 DEF Agree
    <2>9. ASSUME NEW i \in Jobs \ {j}, NEW s \in StepsOf(i) PROVE Agree(i, s)'
      <3>1. s \in Steps /\ JobOf[s] # j /\ Agree(i, s)
        BY DEF StepsOf, QueueInv
      <3>2. Stirs(i) => Stirs(i)'
        BY <2>6
      <3>3. CASE s \in g
        <4>1. place[s] = "waiting" /\ place'[s] = "running" /\ step'[s] = step[s] /\ Handled(s)'
          BY <2>2, <2>3, <2>5, <2>7, <3>1, <3>3
        <4>2. step[s] = "ready" \/ Stirs(i)'
          BY <3>1, <3>2, <4>1 DEF Agree
        <4> QED
          BY <4>1, <4>2 DEF Agree
      <3>4. CASE s \notin g
        <4>1. place'[s] = place[s] /\ step'[s] = step[s]
          BY <2>3, <2>7, <3>1, <3>4
        <4> QED
          BY <2>5, <2>6, <3>1, <4>1, QueueKept
      <3> QED
        BY <3>3, <3>4
    <2> QED
      BY <2>8, <2>9 DEF QueueInv
  <1> QED
    BY <1>1, <1>2, <1>3, <1>4, <1>5, <1>6, <1>7, <1>8, <1>9, <1>10, <1>11,
       <1>12, <1>13, <1>14, <1>15, <1>16, <1>17, <1>18, <1>19, <1>20, <1>21,
       <1>22, <1>23, <1>24, <1>25, <1>26, <1>27 DEF Next, Clock, Driver,
       Phases, Loop, Pump, Ending, Node

\* More steps leave no more room.
LEMMA FullGrows ==
  ASSUME NEW s \in Steps, NEW B \in SUBSET Steps, NEW C \in SUBSET Steps, B \subseteq C, Full(s, B)
  PROVE  Full(s, C)
  <1> DEFINE t == TenantOf[JobOf[s]]
  <1>1. IsFiniteSet(C) /\ IsFiniteSet(OfTenant(t, C)) /\ OfTenant(t, B) \subseteq OfTenant(t, C)
    BY FS_Subset, PipelineAssumption DEF OfTenant
  <1>2. /\ Cardinality(B) \in Nat /\ Cardinality(C) \in Nat /\ Cardinality(B) <= Cardinality(C)
        /\ Cardinality(OfTenant(t, B)) \in Nat /\ Cardinality(OfTenant(t, C)) \in Nat
        /\ Cardinality(OfTenant(t, B)) <= Cardinality(OfTenant(t, C))
    BY <1>1, FS_Subset, FS_CardinalityType
  <1>3. Slots \in Int /\ Cap[t] \in Int
    BY PipelineAssumption, Owners
  <1> QED
    BY <1>2, <1>3 DEF Full

\* A move that leaves everybody on the way to a pump, and no less of the fleet
\* busy, leaves no capacity idle.
LEMMA RoomKept ==
  ASSUME RoomInv,
         \A i \in Jobs : Stirs(i) => Stirs(i)',
         \A s \in Steps : step[s] = "ready" /\ Settling(s) => step'[s] = "ready" /\ Settling(s)',
         \A s \in Steps : s \in Busy => StepHeld(step'[s]) \/ place'[s] = "running",
         \A s \in Steps : place'[s] = "waiting" => place[s] = "waiting"
  PROVE  RoomInv'
  <1>1. CASE \E i \in Jobs : Stirs(i)
    BY <1>1 DEF RoomInv
  <1>2. CASE \E s \in Steps : step[s] = "ready" /\ Settling(s)
    BY <1>2 DEF RoomInv
  <1>3. CASE \A s \in Steps : place[s] = "waiting" => Full(s, Busy)
    <2>1. Busy \in SUBSET Steps /\ Busy' \in SUBSET Steps /\ Busy \subseteq Busy'
      BY DEF Busy, StepHeld
    <2>2. \A s \in Steps : place'[s] = "waiting" => Full(s, Busy')
      BY <1>3, <2>1, FullGrows
    <2> QED
      BY <2>2 DEF RoomInv, Full
  <1> QED
    BY <1>1, <1>2, <1>3 DEF RoomInv

\* FairQueue::select leaves a step waiting only for want of room.
LEMMA SelectFills ==
  ASSUME NEW pl, NEW g \in SUBSET Steps, Selects(pl, g, {}),
         place' = [s \in Steps |-> IF s \in g THEN "running" ELSE pl[s]]
  PROVE  RoomInv'
  <1>1. \A s \in Waiting(pl) \ g : Full(s, InFlight(pl) \cup g)
    BY DEF Selects, Full
  <1>2. /\ InFlight(pl) \cup g \in SUBSET Steps /\ Busy' \in SUBSET Steps
        /\ InFlight(pl) \cup g \subseteq Busy'
    BY DEF InFlight, Busy
  <1>3. \A s \in Steps : place'[s] = "waiting" => s \in Waiting(pl) \ g
    BY DEF Waiting
  <1>4. \A s \in Steps : place'[s] = "waiting" => Full(s, Busy')
    BY <1>1, <1>2, <1>3, FullGrows
  <1> QED
    BY <1>4 DEF RoomInv, Full

\* Every step leaves no capacity idle that nobody is on the way to use.
LEMMA RoomStep ==
  ~FleetFills /\ Metered = {} /\ TypeInv /\ PhaseInv /\ ServiceInv /\
  RoomInv /\ [Next]_vars
    => RoomInv'
  <1> SUFFICES ASSUME ~FleetFills /\ Metered = {} /\ TypeInv /\ PhaseInv
                      /\ ServiceInv /\ RoomInv, [Next]_vars
               PROVE  RoomInv'
    OBVIOUS
  <1> USE DEF storeVars, clockVars, ctrlVars, queueVars, drvVars, pumpVars,
              nodeVars, ServiceInv
  <1>1. CASE UNCHANGED <<step, place, pc, hand, answer, permit, moved, woken>>
    BY <1>1 DEF RoomInv, Busy, Full, StepHeld, Settling, Stirs
  <1>2. CASE UNCHANGED vars
    BY <1>1, <1>2 DEF vars
  <1>3. ASSUME NEW s \in Steps,
              StepClockFires(s) \/ LeaseLapses(s) \/ RunStarts(s) \/
              MaterializeFails(s) \/ RunEnds(s) \/ ReportRefused(s)
        PROVE  RoomInv'
    BY <1>1, <1>3 DEF StepClockFires, LeaseLapses, RunStarts,
       MaterializeFails, RunEnds, ReportRefused
  <1>4. ASSUME NEW j \in Jobs,
              JobClockFires(j)
        PROVE  RoomInv'
    BY <1>1, <1>4 DEF JobClockFires
  <1>5. ASSUME NEW j \in Jobs, AssignFull(j) \/ SettleFull(j) PROVE RoomInv'
    BY <1>5 DEF AssignFull, SettleFull, AskInv
  <1>6. ASSUME NEW j \in Jobs, Begin(j) PROVE RoomInv'
    <2>1. \A i \in Jobs : Stirs(i) => Stirs(i)'
      BY <1>6 DEF Begin, TypeInv, TypeOK, HandsOut, Stirs, Working
    <2>2. \A s \in Steps : Settling(s) => Settling(s)'
      BY <1>6 DEF Begin, TypeInv, TypeOK, HandInv, HandsOut, Settling, Asking
    <2>3. UNCHANGED <<step, place>>
      BY <1>6 DEF Begin
    <2> QED
      BY <2>1, <2>2, <2>3, RoomKept DEF Busy
  <1>7. ASSUME NEW j \in Jobs, Fetched(j) PROVE RoomInv'
    <2>1. \A i \in Jobs : Stirs(i) => Stirs(i)'
      BY <1>7 DEF Fetched, TypeInv, TypeOK, HandsOut, Stirs, Working
    <2>2. \A s \in Steps : Settling(s) => Settling(s)'
      BY <1>7 DEF Fetched, TypeInv, TypeOK, HandInv, HandsOut, Settling, Asking
    <2>3. UNCHANGED <<step, place>>
      BY <1>7 DEF Fetched
    <2> QED
      BY <2>1, <2>2, <2>3, RoomKept DEF Busy
  <1>8. ASSUME NEW j \in Jobs, Planned(j) PROVE RoomInv'
    <2>1. \A i \in Jobs : Stirs(i) => Stirs(i)'
      BY <1>8 DEF Planned, TypeInv, TypeOK, HandsOut, Stirs, Working
    <2>2. \A s \in Steps : Settling(s) => Settling(s)'
      BY <1>8 DEF Planned, TypeInv, TypeOK, HandInv, HandsOut, Settling, Asking
    <2>3. UNCHANGED <<step, place>>
      BY <1>8 DEF Planned
    <2> QED
      BY <2>1, <2>2, <2>3, RoomKept DEF Busy
  <1>9. ASSUME NEW j \in Jobs, GivesUp(j) PROVE RoomInv'
    <2>1. \A i \in Jobs : Stirs(i) => Stirs(i)'
      BY <1>9 DEF GivesUp, TypeInv, TypeOK, HandsOut, Stirs, Working
    <2>2. \A s \in Steps : Settling(s) => Settling(s)'
      BY <1>9 DEF GivesUp, TypeInv, TypeOK, HandInv, HandsOut, Settling, Asking
    <2>3. UNCHANGED <<step, place>>
      BY <1>9 DEF GivesUp
    <2> QED
      BY <2>1, <2>2, <2>3, RoomKept DEF Busy
  <1>10. ASSUME NEW j \in Jobs, LookInFlight(j) PROVE RoomInv'
    <2>1. \A i \in Jobs : Stirs(i) => Stirs(i)'
      BY <1>10 DEF LookInFlight, TypeInv, TypeOK, HandsOut, Stirs, Working
    <2>2. \A s \in Steps : Settling(s) => Settling(s)'
      BY <1>10 DEF LookInFlight, TypeInv, TypeOK, HandInv, HandsOut, Settling,
         Asking
    <2>3. UNCHANGED <<step, place>>
      BY <1>10 DEF LookInFlight
    <2> QED
      BY <2>1, <2>2, <2>3, RoomKept DEF Busy
  <1>11. ASSUME NEW j \in Jobs, CancelStep(j) PROVE RoomInv'
    <2>1. \A i \in Jobs : Stirs(i) => Stirs(i)'
      BY <1>11 DEF CancelStep, TypeInv, TypeOK, HandsOut, Stirs, Working
    <2>2. \A s \in Steps : Settling(s) => Settling(s)'
      BY <1>11 DEF CancelStep, TypeInv, TypeOK, HandInv, HandsOut, Settling,
         Asking
    <2>3. UNCHANGED <<step, place>>
      BY <1>11 DEF CancelStep
    <2> QED
      BY <2>1, <2>2, <2>3, RoomKept DEF Busy
  <1>12. ASSUME NEW j \in Jobs, Cancelled(j) PROVE RoomInv'
    <2>1. \A i \in Jobs : Stirs(i) => Stirs(i)'
      BY <1>12 DEF Cancelled, TypeInv, TypeOK, HandsOut, Stirs, Working
    <2>2. \A s \in Steps : Settling(s) => Settling(s)'
      BY <1>12 DEF Cancelled, TypeInv, TypeOK, HandInv, HandsOut, Settling,
         Asking
    <2>3. UNCHANGED <<step, place>>
      BY <1>12 DEF Cancelled
    <2> QED
      BY <2>1, <2>2, <2>3, RoomKept DEF Busy
  <1>13. ASSUME NEW j \in Jobs, Notified(j) PROVE RoomInv'
    <2>1. \A i \in Jobs : Stirs(i) => Stirs(i)'
      BY <1>13 DEF Notified, TypeInv, TypeOK, HandsOut, Stirs, Working
    <2>2. \A s \in Steps : Settling(s) => Settling(s)'
      BY <1>13 DEF Notified, TypeInv, TypeOK, HandInv, HandsOut, Settling,
         Asking
    <2>3. UNCHANGED <<step, place>>
      BY <1>13 DEF Notified
    <2> QED
      BY <2>1, <2>2, <2>3, RoomKept DEF Busy
  <1>14. ASSUME NEW j \in Jobs, DeadlineWakes(j) PROVE RoomInv'
    <2>1. \A i \in Jobs : Stirs(i) => Stirs(i)'
      BY <1>14 DEF DeadlineWakes, TypeInv, TypeOK, HandsOut, Stirs, Working
    <2>2. \A s \in Steps : Settling(s) => Settling(s)'
      BY <1>14 DEF DeadlineWakes, TypeInv, TypeOK, HandInv, HandsOut, Settling,
         Asking
    <2>3. UNCHANGED <<step, place>>
      BY <1>14 DEF DeadlineWakes
    <2> QED
      BY <2>1, <2>2, <2>3, RoomKept DEF Busy
  <1>15. ASSUME NEW j \in Jobs, Claim(j) PROVE RoomInv'
    <2>1. \A i \in Jobs : Stirs(i) => Stirs(i)'
      BY <1>15 DEF Claim, TypeInv, TypeOK, HandsOut, Stirs, Working
    <2>2. \A s \in Steps : Settling(s) => Settling(s)'
      BY <1>15 DEF Claim, TypeInv, TypeOK, HandInv, HandsOut, Settling, Asking
    <2>3. UNCHANGED <<step, place>>
      BY <1>15 DEF Claim
    <2> QED
      BY <2>1, <2>2, <2>3, RoomKept DEF Busy
  <1>16. ASSUME NEW j \in Jobs, AssignLeased(j) PROVE RoomInv'
    <2>1. \A i \in Jobs : Stirs(i) => Stirs(i)'
      BY <1>16 DEF AssignLeased, TypeInv, TypeOK, HandsOut, Stirs, Working
    <2>2. \A s \in Steps : Settling(s) => Settling(s)'
      BY <1>16 DEF AssignLeased, TypeInv, TypeOK, HandInv, HandsOut, Settling,
         Asking
    <2>3. UNCHANGED <<step, place>>
      BY <1>16 DEF AssignLeased
    <2> QED
      BY <2>1, <2>2, <2>3, RoomKept DEF Busy
  <1>17. ASSUME NEW j \in Jobs, AssignRejected(j) PROVE RoomInv'
    <2>1. \A i \in Jobs : Stirs(i) => Stirs(i)'
      BY <1>17 DEF AssignRejected, TypeInv, TypeOK, HandsOut, Stirs, Working
    <2>2. \A s \in Steps : Settling(s) => Settling(s)'
      BY <1>17 DEF AssignRejected, TypeInv, TypeOK, HandInv, HandsOut,
         Settling, Asking
    <2>3. UNCHANGED <<step, place>>
      BY <1>17 DEF AssignRejected
    <2> QED
      BY <2>1, <2>2, <2>3, RoomKept DEF Busy
  <1>18. ASSUME NEW j \in Jobs, Finish(j) PROVE RoomInv'
    <2>1. \A i \in Jobs : Stirs(i) => Stirs(i)'
      BY <1>18 DEF Finish, TypeInv, TypeOK, HandsOut, Stirs, Working
    <2>2. \A s \in Steps : Settling(s) => Settling(s)'
      BY <1>18 DEF Finish, TypeInv, TypeOK, HandInv, HandsOut, Settling, Asking
    <2>3. UNCHANGED <<step, place>>
      BY <1>18 DEF Finish
    <2> QED
      BY <2>1, <2>2, <2>3, RoomKept DEF Busy
  <1>19. ASSUME NEW j \in Jobs, Reported(j) PROVE RoomInv'
    <2>1. \A i \in Jobs : Stirs(i) => Stirs(i)'
      BY <1>19 DEF Reported, TypeInv, TypeOK, HandsOut, Stirs, Working
    <2>2. \A s \in Steps : Settling(s) => Settling(s)'
      BY <1>19 DEF Reported, TypeInv, TypeOK, HandInv, HandsOut, Settling,
         Asking
    <2>3. UNCHANGED <<step, place>>
      BY <1>19 DEF Reported
    <2> QED
      BY <2>1, <2>2, <2>3, RoomKept DEF Busy
  <1>20. ASSUME NEW j \in Jobs, EndPump(j) PROVE RoomInv'
    <2>1. \A i \in Jobs : Stirs(i) => Stirs(i)'
      BY <1>20 DEF EndPump, TypeInv, TypeOK, HandsOut, Stirs, Working
    <2>2. \A s \in Steps : Settling(s) => Settling(s)'
      BY <1>20 DEF EndPump, TypeInv, TypeOK, HandInv, HandsOut, Settling,
         Asking
    <2>3. UNCHANGED <<step, place>>
      BY <1>20 DEF EndPump
    <2> QED
      BY <2>1, <2>2, <2>3, RoomKept DEF Busy
  <1>21. ASSUME NEW j \in Jobs, PushSteps(j) PROVE RoomInv'
    <2>1. Stirs(j)'
      BY <1>21 DEF PushSteps, TypeInv, TypeOK, Stirs, Working
    <2> QED
      BY <2>1 DEF RoomInv
  <1>22. ASSUME NEW j \in Jobs, FoldPass(j) PROVE RoomInv'
    <2>1. Stirs(j)'
      BY <1>22, FoldPassMoves DEF FoldPass, TypeInv, TypeOK, Stirs, Working
    <2> QED
      BY <2>1 DEF RoomInv
  <1>23. ASSUME NEW j \in Jobs, MarkSkipped(j) PROVE RoomInv'
    <2>1. Stirs(j)'
      BY <1>23 DEF MarkSkipped, TypeInv, TypeOK, Stirs, Working
    <2> QED
      BY <2>1 DEF RoomInv
  <1>24. ASSUME NEW j \in Jobs, Retire(j) PROVE RoomInv'
    <2>1. Stirs(j)'
      BY <1>24 DEF Retire, TypeInv, TypeOK, Stirs, Working
    <2> QED
      BY <2>1 DEF RoomInv
  <1>25. ASSUME NEW s \in Steps, ReportAccepted(s) PROVE RoomInv'
    <2>1. PICK i \in Jobs : i = JobOf[s]
      BY Owners
    <2>2. pc[i] \in InLoop \cup {"look", "cancel", "mark"}
      BY <1>25, <2>1, ReadyOwner DEF ReportAccepted, StepHeld, Quiet
    <2>3. Stirs(i)'
      BY <1>25, <2>1, <2>2 DEF ReportAccepted, Stirs, Working, InLoop
    <2> QED
      BY <2>3 DEF RoomInv
  <1>26. ASSUME NEW j \in Jobs, Select(j) PROVE RoomInv'
    <2>1. PICK g \in SUBSET Waiting(Reconciled(j)) :
            /\ Selects(Reconciled(j), g, {})
            /\ place' = [s \in Steps |-> IF s \in g THEN "running" ELSE Reconciled(j)[s]]
      BY <1>26 DEF Select, Granting
    <2>2. g \in SUBSET Steps
      BY <2>1 DEF Waiting
    <2> QED
      BY <2>1, <2>2, SelectFills
  <1>27. ASSUME NEW j \in Jobs, SelectForOthers(j) PROVE RoomInv'
    <2>1. PICK g \in SUBSET Waiting(place) :
            /\ Selects(place, g, {})
            /\ place' = [s \in Steps |-> IF s \in g THEN "running" ELSE place[s]]
      BY <1>27 DEF SelectForOthers, Granting
    <2>2. g \in SUBSET Steps
      BY <2>1 DEF Waiting
    <2> QED
      BY <2>1, <2>2, SelectFills
  <1>28. ASSUME NEW j \in Jobs, Settle(j) PROVE RoomInv'
    <2>0. PICK h \in Steps : h = hand[j]
      BY <1>28 DEF Settle, TypeInv, TypeOK, HandInv
    <2> DEFINE moves == StepEdge(step[h], IF answer[j] = "leased" THEN "leased" ELSE "errored")
    <2>1. CASE moves
      <3>1. PICK i \in Jobs : i = JobOf[h]
        BY Owners
      <3>2. Stirs(i)'
        BY <1>28, <2>0, <2>1, <3>1, SettleStirs
      <3> QED
        BY <3>2 DEF RoomInv
    <2>2. CASE ~moves
      <3>1. step[h] # "ready"
        BY <1>28, <2>0, <2>2 DEF Settle, StepEdge
      <3>2. UNCHANGED <<step, place, hand, pc, permit, moved, woken>>
        BY <1>28, <2>0, <2>2 DEF Settle, StepTransition, TypeInv, TypeOK
      <3>3. \A s \in Steps : step[s] = "ready" /\ Settling(s) => Settling(s)'
        BY <1>28, <2>0, <3>1, <3>2 DEF Settle, TypeInv, TypeOK, Settling
      <3>4. \A i \in Jobs : Stirs(i) => Stirs(i)'
        BY <3>2 DEF Stirs
      <3> QED
        BY <3>2, <3>3, <3>4, RoomKept DEF Busy
    <2> QED
      BY <2>1, <2>2
  <1>29. ASSUME NEW j \in Jobs, Drop(j) PROVE RoomInv'
    <2>0. PICK h \in Steps : h = hand[j]
      BY <1>29 DEF Drop, TypeInv, TypeOK, HandInv
    <2>1. /\ UNCHANGED <<step, pc, permit, moved, woken>>
          /\ place'[h] = "none" /\ \A s \in Steps \ {h} : place'[s] = place[s]
      BY <1>29, <2>0 DEF Drop, TypeInv, TypeOK
    <2>2. \A i \in Jobs : Stirs(i) => Stirs(i)'
      BY <2>1 DEF Stirs
    <2>3. \A s \in Steps : Settling(s) => Settling(s)'
      BY <1>29 DEF Drop, TypeInv, TypeOK, Settling, Asking
    <2>4. CASE StepHeld(step[h]) \/ place[h] # "running"
      <3>1. \A s \in Steps : s \in Busy => StepHeld(step'[s]) \/ place'[s] = "running"
        BY <2>1, <2>4 DEF Busy, StepHeld
      <3>2. \A s \in Steps : place'[s] = "waiting" => place[s] = "waiting"
        BY <2>1
      <3> QED
        BY <2>1, <2>2, <2>3, <3>1, <3>2, RoomKept
    <2>5. CASE ~StepHeld(step[h]) /\ place[h] = "running"
      <3>1. PICK i \in Jobs : h \in StepsOf(i)
        BY Owners DEF StepsOf
      <3>2. Stirs(i) \/ step[h] = "ready"
        BY <2>5, <3>1 DEF QueueInv, Agree
      <3>3. step[h] = "ready" => Settling(h)
        BY <1>29, <2>0 DEF Drop, AskInv
      <3> QED
        BY <2>1, <2>2, <2>3, <3>2, <3>3 DEF RoomInv
    <2> QED
      BY <2>4, <2>5
  <1> QED
    BY <1>1, <1>2, <1>3, <1>4, <1>5, <1>6, <1>7, <1>8, <1>9, <1>10, <1>11,
       <1>12, <1>13, <1>14, <1>15, <1>16, <1>17, <1>18, <1>19, <1>20, <1>21,
       <1>22, <1>23, <1>24, <1>25, <1>26, <1>27, <1>28, <1>29 DEF Next, Clock,
       Driver, Phases, Loop, Pump, Ending, Node

-----------------------------------------------------------------------------
\* The invariants hold in every behaviour.

LEMMA ServiceInvariant == ASSUME ~FleetFills PROVE Spec => []ServiceInv
  <1>1. Init => ServiceInv
    <2> SUFFICES ASSUME Init PROVE ServiceInv
      OBVIOUS
    <2>1. RestInv /\ PumpInv
      BY DEF Init, RestInv, PumpInv, InLoop, Ended
    <2>2. UnseenInv /\ AskInv
      BY NoneAssumption DEF Init, UnseenInv, Handled, HandsOut, AskInv
    <2>3. QueueInv
      BY DEF Init, QueueInv, Agree, StepsOf
    <2> QED
      BY <2>1, <2>2, <2>3 DEF ServiceInv
  <1>2. IInv /\ ServiceInv /\ [Next]_vars => ServiceInv'
    BY RestStep, PumpStep, UnseenStep, AskStep, QueueStep DEF IInv, ServiceInv
  <1> QED
    BY <1>1, <1>2, IInvariant, PTL DEF Spec

\* Unless the fleet may answer that it is full, whatever the drivers, pumps and
\* reports interleave, a ready step whose driver sleeps is in the queue or in
\* the hands of a pump (pump, settle_assignment, FairQueue::reconcile).
THEOREM ReadyStaysQueued == ASSUME ~FleetFills PROVE Spec => []ReadyIsQueued
  <1>1. QueueInv => ReadyIsQueued
    <2> SUFFICES ASSUME QueueInv, NEW s \in Steps,
                        step[s] = "ready", pc[JobOf[s]] = "sleep"
                 PROVE  place[s] = "waiting" \/ Handled(s)
      BY DEF ReadyIsQueued
    <2>1. Agree(JobOf[s], s)
      BY Owners DEF QueueInv, StepsOf
    <2> QED
      BY <2>1 DEF Agree, Working
  <1>2. ServiceInv => ReadyIsQueued
    BY <1>1 DEF ServiceInv
  <1> QED
    BY <1>2, ServiceInvariant, PTL

\* At rest nothing stirs, no pump has a step, and the queue counts what the store holds.
LEMMA RestFacts ==
  ASSUME IInv, ServiceInv, AtRest
  PROVE  /\ \A i \in Jobs : ~Stirs(i)
         /\ \A s \in Steps : ~Settling(s) /\ ~Handled(s)
         /\ \A s \in Steps : step[s] = "ready" => place[s] = "waiting"
         /\ Busy = {s \in Steps : StepHeld(step[s])}
  <1>1. \A k \in Jobs : /\ pc[k] \in {"sleep", "done"} /\ ~HandsOut(k) /\ k \notin permit
                        /\ woken[k] = {} /\ grants[k] = {} /\ answer[k] = "none"
    BY DEF AtRest, HandsOut, ServiceInv, PumpInv, IInv, TypeInv, HandInv
  <1>2. \A i \in Jobs : ~Stirs(i)
    BY <1>1 DEF Stirs, Working
  <1>3. \A s \in Steps : ~Settling(s) /\ ~Handled(s)
    BY <1>1 DEF Settling, Asking, Handled
  <1>4. \A s \in Steps : Agree(JobOf[s], s) /\ JobOf[s] \in Jobs
    BY Owners DEF ServiceInv, QueueInv, StepsOf
  <1>5. \A s \in Steps : step[s] = "ready" => place[s] = "waiting"
    BY <1>1, <1>3, <1>4 DEF Agree, Working
  <1>6. \A s \in Steps : place[s] = "running" => StepHeld(step[s])
    BY <1>2, <1>3, <1>4 DEF Agree
  <1> QED
    BY <1>2, <1>3, <1>5, <1>6 DEF Busy

\* Unless the fleet may be full or a tenant out of minutes, no step is forgotten
\* while something could run it: when every driver sleeps with nothing to wake
\* it, a step waits only because steps in flight take every slot, or its
\* tenant's whole cap (FairQueue::select, pump, retire).
THEOREM NoCapacityIsWasted ==
  ASSUME ~FleetFills, Metered = {} PROVE Spec => []ReadyIsServed
  <1>1. Init => RoomInv
    BY DEF Init, RoomInv
  <1>2. IInv /\ ServiceInv /\ RoomInv /\ [Next]_vars => RoomInv'
    BY RoomStep DEF IInv
  <1>3. IInv /\ ServiceInv /\ RoomInv => NoIdleCapacity
    <2> SUFFICES ASSUME IInv, ServiceInv, RoomInv, AtRest,
                        NEW s \in Steps, step[s] = "ready"
                 PROVE  Full(s, {r \in Steps : StepHeld(step[r])})
      BY DEF NoIdleCapacity, Full
    <2> QED
      BY RestFacts DEF RoomInv
  <1>4. Spec => []NoIdleCapacity
    BY <1>1, <1>2, <1>3, IInvariant, ServiceInvariant, PTL DEF Spec
  <1>5. Spec => []ReadyIsQueued
    BY ReadyStaysQueued
  <1> QED
    BY <1>4, <1>5, PTL DEF ReadyIsServed
=============================================================================
