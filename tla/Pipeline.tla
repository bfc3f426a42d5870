------------------------------ MODULE Pipeline ------------------------------
(***************************************************************************)
(* From an accepted job to its verdict: the drivers (drive, phase_fetch,   *)
(* phase_plan, phase_run, finish, retire) and the scheduler's pump of      *)
(* crates/hull-ci-control/src/control.rs, the accounting of FairQueue      *)
(* (fairshare.rs), the step clocks (timeouts.rs), the step claims          *)
(* (claims.rs, LocalClaims), and the one-node fleet that runs the steps    *)
(* (crates/hull-ci-server/src/node.rs, crates/hull-ci-node/src/agent.rs).  *)
(*                                                                         *)
(* Every driver runs pump, and pump hands out steps of every job, so a     *)
(* step is assigned by one driver while its own driver folds, cancels or   *)
(* pumps.  Each lock acquisition is a step of the model where another      *)
(* task could tell the difference.  Clocks are flags that may be raised at *)
(* any time; which waiting step the fair order prefers is left open, and   *)
(* so is the node-minute quota.  What happens to the verdict after finish  *)
(* is module Outbox.                                                       *)
(***************************************************************************)
EXTENDS StepGraph

CONSTANTS
  Jobs, Steps, Tenants,
  JobOf,        \* JobOf[s]: the job whose plan has step s
  TenantOf,     \* TenantOf[j]: the tenant half of the job's repo
  Needs,        \* Needs[s]: the names s waits for
  Tolerated,    \* the steps marked continue_on_error
  Memoized,     \* the steps whose key may be in the step memo
  LongSteps,    \* the steps that ask for more than Timeouts::step
  Refused,      \* the steps the fleet rejects (admission_check, mint_capability)
  Cap,          \* TenantPlan::max_running_steps
  Slots,        \* FairShare::fleet_slots, which is NodeConfig::slots_total
  Expiring,     \* the steps and jobs whose clocks may run out while we watch
  Metered,      \* the tenants that may use up their node-minutes
  FleetFills,   \* may NodeSink::assign answer NoCapacity?
  PhasesFail,   \* may fetching or planning fail?
  NodeFails     \* may a run error on the node's side?

ASSUME PipelineAssumption ==
  /\ JobOf \in [Steps -> Jobs] /\ TenantOf \in [Jobs -> Tenants]
  /\ DOMAIN Needs = Steps
  /\ Tolerated \subseteq Steps /\ Memoized \subseteq Steps
  /\ Expiring \subseteq Steps \cup Jobs
  /\ LongSteps \subseteq Steps /\ Refused \subseteq Steps
  /\ Cap \in [Tenants -> Nat] /\ Slots \in Nat
  /\ Metered \subseteq Tenants /\ IsFiniteSet(Steps)
  /\ FleetFills \in BOOLEAN /\ PhasesFail \in BOOLEAN /\ NodeFails \in BOOLEAN

None == "none"

ASSUME NoneAssumption == None \notin Steps

VARIABLES
  \* -- the job store: Job::state, and Step::state ("absent" until the plan is pushed) --
  job, step,
  \* -- clocks that have run out: the step's current one, its lease, the job's --
  due, lapsed, late,
  \* -- Control::trees, Control::leases, and the permits stored in Control::wakers --
  trees, leases, permit,
  \* -- LocalClaim::steps --
  claims,
  \* -- FairQueue: JobMeta present, and each step's Placement --
  admitted, place,
  \* -- drivers: where each is, what it folded to, what it has to cancel --
  pc, decision, cancel,
  \* -- a driver inside pump: the grants left, the one in hand, the fleet's answer --
  grants, hand, answer, moved, woken,
  \* -- the node: each step's run, what it came to, and NodeAgent::slots_free --
  run, outcome, slotsFree,
  \* -- history: how often each step was handed to a node --
  launches

storeVars == <<job, step>>
clockVars == <<due, lapsed, late>>
ctrlVars == <<trees, leases, permit>>
queueVars == <<admitted, place>>
drvVars == <<pc, decision, cancel>>
pumpVars == <<grants, hand, answer, moved, woken>>
nodeVars == <<run, outcome, slotsFree>>
vars == <<storeVars, clockVars, ctrlVars, claims, queueVars, drvVars, pumpVars,
          nodeVars, launches>>

-----------------------------------------------------------------------------
\* Types.

StepsOf(j) == {s \in Steps : JobOf[s] = j}

DriverPC == {"queued", "fetching", "planning", "memo", "fold", "look", "cancel",
             "mark", "finish", "pump", "grants", "sleep", "retire", "offer",
             "offers", "report", "leave", "leaves", "done"}

\* Where a driver inside pump is with the grant in hand.
Answers == {"none", "granted", "leased", "full", "rejected", "drop"}

RunStages == {"none", "materialize", "exec", "deliver", "over"}

TypeOK ==
  /\ job \in [Jobs -> JobStates]
  /\ step \in [Steps -> StepStates \cup {"absent"}]
  /\ due \subseteq Steps /\ lapsed \subseteq Steps /\ late \subseteq Jobs
  /\ trees \subseteq Jobs /\ leases \subseteq Jobs /\ permit \subseteq Jobs
  /\ claims \subseteq Steps /\ admitted \subseteq Jobs
  /\ place \in [Steps -> {"none", "waiting", "running"}]
  /\ pc \in [Jobs -> DriverPC]
  /\ decision \in [Jobs -> Statuses \cup {NoVerdict}]
  /\ cancel \in [Jobs -> SUBSET Steps]
  /\ grants \in [Jobs -> SUBSET Steps]
  /\ hand \in [Jobs -> Steps \cup {None}]
  /\ answer \in [Jobs -> Answers]
  /\ moved \subseteq Jobs
  /\ woken \in [Jobs -> SUBSET Jobs]
  /\ run \in [Steps -> RunStages]
  /\ outcome \in [Steps -> {"none", "passed", "failed", "errored"}]
  /\ slotsFree \in 0 .. Slots
  /\ launches \in [Steps -> Nat]

Init ==
  /\ job = [j \in Jobs |-> "queued"]
  /\ step = [s \in Steps |-> "absent"]
  /\ due = {} /\ lapsed = {} /\ late = {}
  /\ trees = {} /\ leases = Jobs /\ permit = {}
  /\ claims = {} /\ admitted = {}
  /\ place = [s \in Steps |-> "none"]
  /\ pc = [j \in Jobs |-> "queued"]
  /\ decision = [j \in Jobs |-> NoVerdict]
  /\ cancel = [j \in Jobs |-> {}]
  /\ grants = [j \in Jobs |-> {}]
  /\ hand = [j \in Jobs |-> None]
  /\ answer = [j \in Jobs |-> "none"]
  /\ moved = {}
  /\ woken = [j \in Jobs |-> {}]
  /\ run = [s \in Steps |-> "none"]
  /\ outcome = [s \in Steps |-> "none"]
  /\ slotsFree = Slots
  /\ launches = [s \in Steps |-> 0]

-----------------------------------------------------------------------------
\* Clocks.

\* The queue-wait clock of a ready step, or the step clock of a held one.
StepClockFires(s) ==
  /\ s \in Expiring \ due
  /\ step[s] \in {"ready", "leased", "running"}
  /\ due' = due \cup {s}
  /\ UNCHANGED <<storeVars, lapsed, late, ctrlVars, claims, queueVars, drvVars,
                 pumpVars, nodeVars, launches>>

\* The lease runs for Timeouts::step, the default clock; a step may have been
\* given a longer one, and nothing renews the lease.
LeaseLapses(s) ==
  /\ s \in Expiring \ lapsed /\ StepHeld(step[s])
  /\ s \in LongSteps \/ s \in due
  /\ lapsed' = lapsed \cup {s}
  /\ UNCHANGED <<storeVars, due, late, ctrlVars, claims, queueVars, drvVars,
                 pumpVars, nodeVars, launches>>

JobClockFires(j) ==
  /\ j \in Expiring \ late
  /\ pc[j] # "done"
  /\ late' = late \cup {j}
  /\ UNCHANGED <<storeVars, due, lapsed, ctrlVars, claims, queueVars, drvVars,
                 pumpVars, nodeVars, launches>>

Clock == \/ \E s \in Steps : StepClockFires(s) \/ LeaseLapses(s)
         \/ \E j \in Jobs : JobClockFires(j)

-----------------------------------------------------------------------------
\* drive: the phases before the steps exist.

\* phase_fetch, and then phase_plan, begin.
Begin(j) ==
  /\ pc[j] = "queued"
  /\ job' = [job EXCEPT ![j] = JobTransition(@, "fetching")]
  /\ pc' = [pc EXCEPT ![j] = "fetching"]
  /\ UNCHANGED <<step, clockVars, ctrlVars, claims, queueVars, decision, cancel,
                 pumpVars, nodeVars, launches>>

Fetched(j) ==
  /\ pc[j] = "fetching"
  /\ job' = [job EXCEPT ![j] = JobTransition(@, "planning")]
  /\ pc' = [pc EXCEPT ![j] = "planning"]
  /\ UNCHANGED <<step, clockVars, ctrlVars, claims, queueVars, decision, cancel,
                 pumpVars, nodeVars, launches>>

\* A plan: the tree is published for every pump to find.
Planned(j) ==
  /\ pc[j] = "planning" /\ StepsOf(j) # {}
  /\ trees' = trees \cup {j}
  /\ pc' = [pc EXCEPT ![j] = "memo"]
  /\ UNCHANGED <<storeVars, clockVars, leases, permit, claims, queueVars,
                 decision, cancel, pumpVars, nodeVars, launches>>

\* The fetch fails, times out or answers with another tree; the planner fails,
\* or finds nothing to run: errored, and straight to finish.
GivesUp(j) ==
  /\ pc[j] \in {"fetching", "planning"}
  /\ PhasesFail \/ (pc[j] = "planning" /\ StepsOf(j) = {})
  /\ decision' = [decision EXCEPT ![j] = "errored"]
  /\ pc' = [pc EXCEPT ![j] = "finish"]
  /\ UNCHANGED <<storeVars, clockVars, ctrlVars, claims, queueVars, cancel,
                 pumpVars, nodeVars, launches>>

\* phase_memo and the start of phase_run: the steps are pushed, a remembered
\* pass as cached and a remembered failure as failed.
PushSteps(j) ==
  /\ pc[j] = "memo"
  /\ \E hit \in SUBSET (StepsOf(j) \cap Memoized), bad \in SUBSET Memoized :
       /\ bad \subseteq hit
       /\ step' = [s \in Steps |-> CASE JobOf[s] # j -> step[s]
                                     [] s \in bad -> "failed"
                                     [] s \in hit \ bad -> "cached"
                                     [] OTHER -> "pending"]
  /\ job' = [job EXCEPT ![j] = JobTransition(@, "running")]
  /\ pc' = [pc EXCEPT ![j] = "fold"]
  /\ UNCHANGED <<clockVars, ctrlVars, claims, queueVars, decision, cancel,
                 pumpVars, nodeVars, launches>>

-----------------------------------------------------------------------------
\* The loop of phase_run.

\* The steps of job j under one lock: timeouts::sweep, then graph::advance.
Mine(j, st) == [s \in StepsOf(j) |-> st[s]]

\* Mutant: a step that ran out of time is failed.
SweptAsFailed(j) ==
  [s \in StepsOf(j) |->
     IF s \in due THEN StepTransition(step[s], "failed") ELSE step[s]]

Swept(j) ==
  [s \in StepsOf(j) |->
     IF s \in due THEN StepTransition(step[s], "errored") ELSE step[s]]

Folded(j) == Advance(Swept(j), Needs, Tolerated)

\* One pass.  A step that becomes ready starts a fresh clock.
FoldPass(j) ==
  LET st == Folded(j)
      v == Fold(st, Tolerated)
  IN  /\ pc[j] = "fold"
      /\ step' = [s \in Steps |-> IF JobOf[s] = j THEN st[s] ELSE step[s]]
      /\ due' = due \ {s \in StepsOf(j) : st[s] # step[s]}
      /\ \/ /\ j \in late
            /\ decision' = [decision EXCEPT ![j] = "errored"]
            /\ cancel' = cancel
            /\ pc' = [pc EXCEPT ![j] = "look"]
         \/ /\ j \notin late /\ v # NoVerdict
            /\ decision' = [decision EXCEPT ![j] = v]
            /\ cancel' = [cancel EXCEPT ![j] = ToCancel(st)]
            /\ pc' = [pc EXCEPT ![j] = "cancel"]
         \/ /\ j \notin late /\ v = NoVerdict
            /\ UNCHANGED <<decision, cancel>>
            /\ pc' = [pc EXCEPT ![j] = "pump"]
      /\ UNCHANGED <<job, lapsed, late, ctrlVars, claims, queueVars, pumpVars,
                     nodeVars, launches>>

\* JobTimeout: the steps in flight are read under a second lock.
LookInFlight(j) ==
  /\ pc[j] = "look"
  /\ cancel' = [cancel EXCEPT ![j] = ToCancel(Mine(j, step))]
  /\ pc' = [pc EXCEPT ![j] = "cancel"]
  /\ UNCHANGED <<storeVars, clockVars, ctrlVars, claims, queueVars, decision,
                 pumpVars, nodeVars, launches>>

\* cancel_steps, for one step: a held step's run is cancelled on the node ...
\* InProcessFleet::cancel aborts the task, which drops the sandbox and with it
\* the code that would have given the slot back.
CancelStep(j) ==
  /\ pc[j] = "cancel"
  /\ \E s \in cancel[j] :
       /\ hand' = [hand EXCEPT ![j] = s]
       /\ run' = IF StepHeld(step[s]) /\ run[s] # "none"
                 THEN [run EXCEPT ![s] = "over"] ELSE run
  /\ pc' = [pc EXCEPT ![j] = "mark"]
  /\ UNCHANGED <<storeVars, clockVars, ctrlVars, claims, queueVars, decision,
                 cancel, grants, answer, moved, woken, outcome, slotsFree, launches>>

\* ... and then, under the lock again, it becomes skipped.
MarkSkipped(j) ==
  LET s == hand[j]
  IN  /\ pc[j] = "mark"
      /\ step' = [step EXCEPT ![s] = StepTransition(@, "skipped")]
      /\ cancel' = [cancel EXCEPT ![j] = @ \ {s}]
      /\ hand' = [hand EXCEPT ![j] = None]
      /\ pc' = [pc EXCEPT ![j] = "cancel"]
      /\ UNCHANGED <<job, clockVars, ctrlVars, claims, queueVars, decision,
                     grants, answer, moved, woken, nodeVars, launches>>

Cancelled(j) ==
  /\ pc[j] = "cancel" /\ cancel[j] = {}
  /\ pc' = [pc EXCEPT ![j] = "finish"]
  /\ UNCHANGED <<storeVars, clockVars, ctrlVars, claims, queueVars, decision,
                 cancel, pumpVars, nodeVars, launches>>

\* finish records the one verdict ...
Finish(j) ==
  /\ pc[j] = "finish"
  /\ job' = [job EXCEPT ![j] = IF HasVerdict(@) THEN @
                               ELSE JobTransition(@, decision[j])]
  /\ pc' = [pc EXCEPT ![j] = "retire"]
  /\ UNCHANGED <<step, clockVars, ctrlVars, claims, queueVars, decision, cancel,
                 pumpVars, nodeVars, launches>>

\* Mutant: the retired job keeps its tenant's quota.
RetireHoldingQuota(j) ==
  /\ pc[j] = "retire"
  /\ trees' = trees \ {j}
  /\ leases' = leases \ {j}
  /\ pc' = [pc EXCEPT ![j] = "offer"]
  /\ UNCHANGED <<storeVars, clockVars, permit, claims, queueVars, decision,
                 cancel, pumpVars, nodeVars, launches>>

\* ... and retires the job: its tree, its drive lease and its place in the
\* queue go, and pump(None) offers what that freed to the other jobs.
Retire(j) ==
  /\ pc[j] = "retire"
  /\ trees' = trees \ {j}
  /\ leases' = leases \ {j}
  /\ place' = [s \in Steps |-> IF JobOf[s] = j THEN "none" ELSE place[s]]
  /\ admitted' = admitted \ {j}
  /\ pc' = [pc EXCEPT ![j] = "offer"]
  /\ UNCHANGED <<storeVars, clockVars, permit, claims, decision, cancel,
                 pumpVars, nodeVars, launches>>

\* report has run its course.  drive retires a job that got as far as
\* phase_run once more, which only offers capacity again.
Reported(j) ==
  /\ pc[j] = "report"
  /\ pc' = [pc EXCEPT ![j] = IF \E s \in StepsOf(j) : step[s] # "absent"
                             THEN "leave" ELSE "done"]
  /\ UNCHANGED <<storeVars, clockVars, ctrlVars, claims, queueVars, decision,
                 cancel, pumpVars, nodeVars, launches>>

-----------------------------------------------------------------------------
\* pump: reconcile and select, under the jobs and queue locks.

Placed(st, old) ==
  CASE st = "ready" -> "waiting"
    [] StepHeld(st) -> "running"
    [] st \in StepStates /\ StepTerminal(st) -> "none"
    [] OTHER -> old

\* Mutant: the queue is not told what became of the job's steps.
ReconciledNever(j) == place

\* FairQueue::reconcile for one job.
Reconciled(j) ==
  [s \in Steps |-> IF JobOf[s] = j THEN Placed(step[s], place[s]) ELSE place[s]]

InFlight(pl) == {s \in Steps : pl[s] = "running"}
OfTenant(t, S) == {s \in S : TenantOf[JobOf[s]] = t}
Waiting(pl) == {s \in Steps : pl[s] = "waiting"}

WithinCap(pl, g) ==
  \A t \in Tenants :
    OfTenant(t, g) # {} => Cardinality(OfTenant(t, InFlight(pl) \cup g)) <= Cap[t]

\* FairQueue::select grants g: as many of the waiting steps as the fleet's slots
\* and the tenants' caps leave room for.  A tenant in over has used up its
\* node-minutes.
Selects(pl, g, over) ==
  /\ g \subseteq Waiting(pl)
  /\ g # {} => Cardinality(InFlight(pl) \cup g) <= Slots
  /\ WithinCap(pl, g)
  /\ \A s \in g : TenantOf[JobOf[s]] \notin over
  /\ \A s \in Waiting(pl) \ g :
       \/ TenantOf[JobOf[s]] \in over
       \/ Cardinality(InFlight(pl) \cup g) >= Slots
       \/ Cardinality(OfTenant(TenantOf[JobOf[s]], InFlight(pl) \cup g))
            >= Cap[TenantOf[JobOf[s]]]

Granting(j, pl) ==
  \E g \in SUBSET Waiting(pl), over \in SUBSET Metered :
    /\ Selects(pl, g, over)
    /\ grants' = [grants EXCEPT ![j] = g]
    /\ place' = [s \in Steps |-> IF s \in g THEN "running" ELSE pl[s]]

\* pump(Some(j)), from the loop of phase_run.
Select(j) ==
  /\ pc[j] = "pump"
  /\ Granting(j, Reconciled(j))
  /\ admitted' = admitted \cup {j}
  /\ pc' = [pc EXCEPT ![j] = "grants"]
  /\ UNCHANGED <<storeVars, clockVars, ctrlVars, claims, decision, cancel, hand,
                 answer, moved, woken, nodeVars, launches>>

\* pump(None), from retire.
SelectForOthers(j) ==
  /\ pc[j] \in {"offer", "leave"}
  /\ Granting(j, place)
  /\ pc' = [pc EXCEPT ![j] = IF @ = "offer" THEN "offers" ELSE "leaves"]
  /\ UNCHANGED <<storeVars, clockVars, ctrlVars, claims, admitted, decision,
                 cancel, hand, answer, moved, woken, nodeVars, launches>>

-----------------------------------------------------------------------------
\* pump: what it does with each grant.

HandsOut(j) == pc[j] \in {"grants", "offers", "leaves"}

\* Mutant: a step that somebody already claimed is granted again.
StepClaimAlways(s) == TRUE

\* LocalClaims::claim_step is Granted.
StepClaim(s) == s \notin claims

\* assignment_for, the drive lease, and the step claim.  The state of the step
\* is not looked at again.
Claim(j) ==
  /\ HandsOut(j) /\ hand[j] = None
  /\ \E s \in grants[j] :
       LET may == JobOf[s] \in trees /\ JobOf[s] \in leases /\ StepClaim(s)
       IN  /\ hand' = [hand EXCEPT ![j] = s]
           /\ grants' = [grants EXCEPT ![j] = @ \ {s}]
           /\ answer' = [answer EXCEPT ![j] = IF may THEN "granted" ELSE "drop"]
           /\ claims' = IF may THEN claims \cup {s} ELSE claims
  /\ UNCHANGED <<storeVars, clockVars, ctrlVars, queueVars, drvVars, moved,
                 woken, nodeVars, launches>>

\* NodeSink::assign takes the step: InProcessFleet spawns its run.
AssignLeased(j) ==
  LET s == hand[j]
  IN  /\ HandsOut(j) /\ answer[j] = "granted" /\ s \notin Refused
      /\ run' = [run EXCEPT ![s] = "materialize"]
      /\ launches' = [launches EXCEPT ![s] = @ + 1]
      /\ answer' = [answer EXCEPT ![j] = "leased"]
      /\ UNCHANGED <<storeVars, clockVars, ctrlVars, claims, queueVars, drvVars,
                     grants, hand, moved, woken, outcome, slotsFree>>

\* It refuses the step for good ...
AssignRejected(j) ==
  /\ HandsOut(j) /\ answer[j] = "granted" /\ hand[j] \in Refused
  /\ answer' = [answer EXCEPT ![j] = "rejected"]
  /\ UNCHANGED <<storeVars, clockVars, ctrlVars, claims, queueVars, drvVars,
                 grants, hand, moved, woken, nodeVars, launches>>

\* ... or has no room for it, and the claim goes back.
AssignFull(j) ==
  /\ FleetFills
  /\ HandsOut(j) /\ answer[j] = "granted"
  /\ claims' = claims \ {hand[j]}
  /\ answer' = [answer EXCEPT ![j] = "full"]
  /\ UNCHANGED <<storeVars, clockVars, ctrlVars, queueVars, drvVars, grants,
                 hand, moved, woken, nodeVars, launches>>

\* settle_assignment, NoCapacity: FairQueue::requeue, which enqueues only for a
\* job it still knows.
SettleFull(j) ==
  LET s == hand[j]
  IN  /\ HandsOut(j) /\ answer[j] = "full"
      /\ place' = [place EXCEPT ![s] = IF JobOf[s] \in admitted THEN "waiting" ELSE "none"]
      /\ hand' = [hand EXCEPT ![j] = None]
      /\ answer' = [answer EXCEPT ![j] = "none"]
      /\ UNCHANGED <<storeVars, clockVars, ctrlVars, claims, admitted, drvVars,
                     grants, moved, woken, nodeVars, launches>>

\* settle_assignment, an answer: the step is leased and its clocks armed, or it
\* is errored; one that will not move was cancelled or timed out meanwhile.
Settle(j) ==
  LET s == hand[j]
      next == IF answer[j] = "leased" THEN "leased" ELSE "errored"
      moves == StepEdge(step[s], next)
      drop == ~moves \/ answer[j] = "rejected"
  IN  /\ HandsOut(j) /\ answer[j] \in {"leased", "rejected"}
      /\ step' = [step EXCEPT ![s] = StepTransition(@, next)]
      /\ due' = IF moves THEN due \ {s} ELSE due
      /\ moved' = IF moves /\ JobOf[s] = j THEN moved \cup {j} ELSE moved
      /\ woken' = IF moves /\ JobOf[s] # j
                  THEN [woken EXCEPT ![j] = @ \cup {JobOf[s]}] ELSE woken
      /\ answer' = [answer EXCEPT ![j] = IF drop THEN "drop" ELSE "none"]
      /\ hand' = [hand EXCEPT ![j] = IF drop THEN @ ELSE None]
      /\ UNCHANGED <<job, lapsed, late, ctrlVars, claims, queueVars, drvVars,
                     grants, nodeVars, launches>>

\* FairQueue::release of the step in hand.
Drop(j) ==
  /\ HandsOut(j) /\ answer[j] = "drop"
  /\ place' = [place EXCEPT ![hand[j]] = "none"]
  /\ hand' = [hand EXCEPT ![j] = None]
  /\ answer' = [answer EXCEPT ![j] = "none"]
  /\ UNCHANGED <<storeVars, clockVars, ctrlVars, claims, admitted, drvVars,
                 grants, moved, woken, nodeVars, launches>>

\* The end of pump: the drivers whose steps changed hands are woken, and this
\* one folds again if one of its own did.
EndPump(j) ==
  /\ HandsOut(j) /\ grants[j] = {} /\ hand[j] = None
  /\ permit' = permit \cup woken[j]
  /\ woken' = [woken EXCEPT ![j] = {}]
  /\ moved' = moved \ {j}
  /\ pc' = [pc EXCEPT ![j] = CASE @ = "offers" -> "report"
                               [] @ = "leaves" -> "done"
                               [] @ = "grants" -> IF j \in moved THEN "fold" ELSE "sleep"]
  /\ UNCHANGED <<storeVars, clockVars, trees, leases, claims, queueVars,
                 decision, cancel, grants, hand, answer, nodeVars, launches>>

\* The select! of phase_run: a stored permit, or the earliest deadline.
Notified(j) ==
  /\ pc[j] = "sleep" /\ j \in permit
  /\ permit' = permit \ {j}
  /\ pc' = [pc EXCEPT ![j] = "fold"]
  /\ UNCHANGED <<storeVars, clockVars, trees, leases, claims, queueVars,
                 decision, cancel, pumpVars, nodeVars, launches>>

\* Mutant: the driver sleeps until a step's deadline, whatever the job's is.
StepDeadlineWakes(j) ==
  /\ pc[j] = "sleep"
  /\ due \cap StepsOf(j) # {}
  /\ pc' = [pc EXCEPT ![j] = "fold"]
  /\ UNCHANGED <<storeVars, clockVars, ctrlVars, claims, queueVars, decision,
                 cancel, pumpVars, nodeVars, launches>>

DeadlineWakes(j) ==
  /\ pc[j] = "sleep"
  /\ j \in late \/ due \cap StepsOf(j) # {}
  /\ pc' = [pc EXCEPT ![j] = "fold"]
  /\ UNCHANGED <<storeVars, clockVars, ctrlVars, claims, queueVars, decision,
                 cancel, pumpVars, nodeVars, launches>>

Phases(j) == Begin(j) \/ Fetched(j) \/ Planned(j) \/ GivesUp(j) \/ PushSteps(j)
Loop(j) == \/ FoldPass(j) \/ LookInFlight(j) \/ CancelStep(j) \/ MarkSkipped(j)
           \/ Cancelled(j) \/ Notified(j) \/ DeadlineWakes(j)
Pump(j) == \/ Select(j) \/ SelectForOthers(j) \/ Claim(j) \/ AssignLeased(j)
           \/ AssignRejected(j) \/ AssignFull(j) \/ SettleFull(j) \/ Settle(j)
           \/ Drop(j) \/ EndPump(j)
Ending(j) == Finish(j) \/ Retire(j) \/ Reported(j)

Driver(j) == Phases(j) \/ Loop(j) \/ Pump(j) \/ Ending(j)

-----------------------------------------------------------------------------
\* The node: Run::execute.

\* Mutant: slots_free wraps below zero.
RunStartsUnchecked(s) ==
  /\ run[s] = "materialize"
  /\ run' = [run EXCEPT ![s] = "exec"]
  /\ slotsFree' = slotsFree - 1
  /\ UNCHANGED <<storeVars, clockVars, ctrlVars, claims, queueVars, drvVars,
                 pumpVars, outcome, launches>>

\* The workspace is built and run_assignment_with takes a slot.
RunStarts(s) ==
  /\ run[s] = "materialize"
  /\ run' = [run EXCEPT ![s] = "exec"]
  /\ slotsFree' = IF slotsFree = 0 THEN 0 ELSE slotsFree - 1
  /\ UNCHANGED <<storeVars, clockVars, ctrlVars, claims, queueVars, drvVars,
                 pumpVars, outcome, launches>>

\* The workspace cannot be built: infra_error.
MaterializeFails(s) ==
  /\ NodeFails /\ run[s] = "materialize"
  /\ run' = [run EXCEPT ![s] = "deliver"]
  /\ outcome' = [outcome EXCEPT ![s] = "errored"]
  /\ UNCHANGED <<storeVars, clockVars, ctrlVars, claims, queueVars, drvVars,
                 pumpVars, slotsFree, launches>>

\* run_inner returns, and run_assignment_with gives the slot back.
RunEnds(s) ==
  /\ run[s] = "exec"
  /\ \E o \in {"passed", "failed"} \cup IF NodeFails THEN {"errored"} ELSE {} :
       outcome' = [outcome EXCEPT ![s] = o]
  /\ run' = [run EXCEPT ![s] = "deliver"]
  /\ slotsFree' = IF slotsFree < Slots THEN slotsFree + 1 ELSE Slots
  /\ UNCHANGED <<storeVars, clockVars, ctrlVars, claims, queueVars, drvVars,
                 pumpVars, launches>>

\* deliver, record_step_report accepts.  The reporting node is the lease holder,
\* since the fleet has one node.
ReportAccepted(s) ==
  /\ run[s] = "deliver"
  /\ StepHeld(step[s]) /\ s \notin lapsed
  /\ step' = [step EXCEPT ![s] = StepTransition(@, outcome[s])]
  /\ due' = due \ {s}
  /\ permit' = permit \cup {JobOf[s]}
  /\ run' = [run EXCEPT ![s] = "over"]
  /\ UNCHANGED <<job, lapsed, late, trees, leases, claims, queueVars, drvVars,
                 pumpVars, outcome, slotsFree, launches>>

\* LeaseExpired, or NotInFlight for as long as deliver keeps trying.
ReportRefused(s) ==
  /\ run[s] = "deliver"
  /\ ~StepHeld(step[s]) \/ s \in lapsed
  /\ run' = [run EXCEPT ![s] = "over"]
  /\ UNCHANGED <<storeVars, clockVars, ctrlVars, claims, queueVars, drvVars,
                 pumpVars, outcome, slotsFree, launches>>

Node(s) == \/ RunStarts(s) \/ MaterializeFails(s) \/ RunEnds(s)
           \/ ReportAccepted(s) \/ ReportRefused(s)

Next == Clock \/ (\E j \in Jobs : Driver(j)) \/ (\E s \in Steps : Node(s))

\* Every spawned task is eventually run by the executor; a fetch or a plan
\* ends, and a run ends (the sandbox has a wall clock of its own).  The job
\* clock runs out.
Fairness ==
  /\ \A j \in Jobs : WF_vars(Driver(j)) /\ WF_vars(JobClockFires(j))
  /\ \A s \in Steps : WF_vars(Node(s))

Spec == Init /\ [][Next]_vars /\ Fairness

-----------------------------------------------------------------------------
\* Properties.

\* A green verdict is about every step of the plan: each one passed in a run on
\* the node, was cached, or failed there with continue_on_error.  fold counts a
\* skipped step as no obstacle to green; no interleaving of sweeps, cancels,
\* reports and assignments ever makes it one.
GreenIsEarned ==
  \A j \in Jobs : job[j] = "green" =>
    /\ StepsOf(j) # {}
    /\ \A s \in StepsOf(j) :
         \/ step[s] = "passed" /\ outcome[s] = "passed"
         \/ step[s] = "cached" /\ s \in Memoized
         \/ step[s] = "failed" /\ s \in Tolerated

\* A red verdict is about the code: some step the plan does not tolerate ran
\* and failed, or is remembered to have.  No clock, cancel or refusal is one.
RedIsEarned ==
  \A j \in Jobs : job[j] = "red" =>
    \E s \in StepsOf(j) \ Tolerated :
      step[s] = "failed" /\ (outcome[s] = "failed" \/ s \in Memoized)

\* GreenIsEarned and RedIsEarned: what Hull is told of the code was seen in a run.
VerdictIsEarned == GreenIsEarned /\ RedIsEarned

\* However many drivers were granted a step, it reaches a node once.
OneLaunch == \A s \in Steps : launches[s] <= 1

\* A step reaches a node only after everything it needs has let it.
LaunchedInOrder ==
  \A s \in Steps : launches[s] > 0 =>
    \A n \in Needs[s] :
      n \in StepsOf(JobOf[s]) /\ (step[n] \in {"passed", "cached"}
                                \/ (step[n] = "failed" /\ n \in Tolerated))

\* OneLaunch and LaunchedInOrder: the fleet runs the plan, each step of it once.
LaunchedByThePlan == OneLaunch /\ LaunchedInOrder

\* A ready step whose driver sleeps is queued, or in the hands of some pump:
\* nothing else would ever hand it out before its clock runs out.
Handled(s) == \E j \in Jobs : s \in grants[j] \/ (hand[j] = s /\ HandsOut(j))

ReadyIsQueued ==
  \A s \in Steps :
    step[s] = "ready" /\ pc[JobOf[s]] = "sleep" /\ JobOf[s] \notin permit =>
      place[s] = "waiting" \/ Handled(s)

\* When every driver sleeps with nothing to wake it, capacity is not left idle:
\* a step is ready only because steps in flight take every slot, or its tenant's
\* whole cap.  The queue's accounting, which pump keeps in several steps and from
\* several drivers, has caught up with the store by then.
AtRest == due = {} /\ \A j \in Jobs : pc[j] \in {"sleep", "done"} /\ j \notin permit

NoIdleCapacity ==
  LET held == {s \in Steps : StepHeld(step[s])}
  IN  AtRest => \A s \in Steps : step[s] = "ready" =>
        \/ Cardinality(held) >= Slots
        \/ Cardinality(OfTenant(TenantOf[JobOf[s]], held)) >= Cap[TenantOf[JobOf[s]]]

\* ReadyIsQueued and NoIdleCapacity: no step is forgotten while something could run it.
ReadyIsServed == ReadyIsQueued /\ NoIdleCapacity

\* The node runs no more steps at once than it has slots.
WithinSlots == Cardinality({s \in Steps : run[s] = "exec"}) <= Slots

\* When a job's driver has left, no sandbox of the job is left running.
NothingLeftRunning ==
  \A s \in Steps : pc[JobOf[s]] = "done" => run[s] \notin {"materialize", "exec"}

\* With no run in progress, every slot is free again.
SlotsComeBack == (\A s \in Steps : run[s] # "exec") => slotsFree = Slots

\* A run that ended within the step's clock is counted: the report of a step
\* that is still held, and whose clock has not fired, is not refused.
InTimeCounts ==
  \A s \in Steps :
    run[s] = "deliver" /\ StepHeld(step[s]) /\ s \notin due => s \notin lapsed

\* Every job gets a verdict.
EveryJobDecided == \A j \in Jobs : <>(job[j] \in Statuses)
=============================================================================
