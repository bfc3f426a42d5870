----------------------------- MODULE FairQueue -----------------------------
(***************************************************************************)
(* The fair-share scheduler (crates/hull-ci-control/src/fairshare.rs):     *)
(* virtual time, cost estimates, idle credit and plan caps, driven as      *)
(* Control::pump and Control::settle_assignment drive it, one pass at a    *)
(* time.  Pipeline has the passes of several drivers interleaved, without  *)
(* the clocks.                                                             *)
(*                                                                         *)
(* Time is counted in ticks and cost in units, Unit to a tick; weights     *)
(* divide Scale, and virtual time is in units over Scale.                  *)
(***************************************************************************)
EXTENDS Integers, FiniteSets, SequencesExt

CONSTANTS FqSteps,        \* a sequence of steps [job, tenant, class, id, name]; class is 1 or 2
          FqTenants,      \* the tenants in the order of their names
          Weights,        \* plan: weight
          MaxRunning,     \* plan: max_running_steps
          NodeTicks,      \* plan: node_minutes_per_hour
          Window, DefaultCost, MinCost, IdleCredit, FleetSlots, Samples, CostNames,
          Unit, Scale, StepClock,
          MaxFqNow        \* bound: the clock

VARIABLES fq,       \* the FairQueue
          fqNow,
          fqStep,   \* a step's state, and when it started
          used      \* history: [t] the node time of the steps t was granted, once they are over

fqVars == <<fq, fqNow, fqStep, used>>

Tenants == ToSet(FqTenants)
AllSteps == ToSet(FqSteps)
StepsOf(job) == SelectSeq(FqSteps, LAMBDA s : s.job = job)

\* TenantPlan::safe_weight.
SafeWeight(t) == IF Weights[t] > 0 THEN Weights[t] ELSE 1

\* FairQueue::new.
EmptyQueue ==
  [vnow |-> 0, vft |-> [t \in Tenants |-> 0], queues |-> [t \in Tenants |-> << <<>>, <<>> >>], running |-> {},
   ledger |-> [t \in Tenants |-> <<>>], placed |-> {}, jobs |-> {}, costs |-> [t \in Tenants |-> <<>>]]

Placement(q, s) == {p \in q.placed : p.step = s}
Waits(q, s) == \E p \in Placement(q, s) : p.since = {}
RunningOf(q, t) == {r \in q.running : r.step.tenant = t}

-----------------------------------------------------------------------------
\* What a step has cost.
Most(m, n) == IF m >= n THEN m ELSE n

CostsOf(q, t, name) == {i \in 1..Len(q.costs[t]) : q.costs[t][i].name = name}

\* estimate: the median of the samples, or the default.
Estimate(q, t, name) ==
  LET known == CostsOf(q, t, name)
      sorted == SortSeq(q.costs[t][CHOOSE i \in known : TRUE].samples, <)
  IN  Most(MinCost, IF known = {} THEN DefaultCost ELSE sorted[Len(sorted) \div 2 + 1])

Newest(seq, n) == SubSeq(seq, Most(1, Len(seq) - n + 1), Len(seq))

\* observe_cost: samples per name, and names per tenant, are bounded; the oldest go.
ObserveCost(q, t, name, cost) ==
  LET rows == IF CostsOf(q, t, name) # {} THEN q.costs[t]
              ELSE Newest(Append(q.costs[t], [name |-> name, samples |-> <<>>]), CostNames)
  IN  [q EXCEPT !.costs[t] =
         [i \in 1..Len(rows) |-> IF rows[i].name = name THEN [rows[i] EXCEPT !.samples = Newest(Append(@, cost), Samples)]
                                 ELSE rows[i]]]

-----------------------------------------------------------------------------
\* enqueue.
Enqueue(q, s) ==
  IF s.job \notin q.jobs \/ Placement(q, s) # {} THEN q
  ELSE [q EXCEPT !.placed = @ \cup {[step |-> s, since |-> {}, charged |-> {}]},
                 !.queues[s.tenant][s.class] = Append(@, [step |-> s, cost |-> Estimate(q, s.tenant, s.name)])]

\* Mutant: a step is charged what it was expected to cost.
TrueUpNever(q, p, cost) == 0

\* What a step took beyond the estimate it was charged, in the tenant's virtual time.
TrueUp(q, p, cost) ==
  IF p.charged = {} THEN 0 ELSE (cost - (CHOOSE c \in p.charged : TRUE)) * (Scale \div SafeWeight(p.step.tenant))

\* unplace: release and finish.  An entry of no time is left out of the ledger.
Unplace(q, s, at, learn) ==
  LET p == CHOOSE x \in Placement(q, s) : TRUE
      cost == Most(0, at - (CHOOSE n \in p.since : TRUE)) * Unit
      freed == [q EXCEPT !.placed = @ \ {p}, !.running = {r \in @ : r.step # s},
                         !.ledger[s.tenant] = IF cost = 0 THEN @ ELSE Append(@, [at |-> at, ran |-> cost]),
                         !.vft[s.tenant] = @ + TrueUp(q, p, cost)]
  IN  IF s.job \notin q.jobs \/ Placement(q, s) = {} THEN q
      ELSE IF p.since = {} THEN [q EXCEPT !.placed = @ \ {p}]
      ELSE IF learn THEN ObserveCost(freed, s.tenant, s.name, cost) ELSE freed

Release(q, s, at) == Unplace(q, s, at, FALSE)
Requeue(q, s, at) == Enqueue(Release(q, s, at), s)

\* forget_job.
RECURSIVE ReleaseAll(_, _, _)
ReleaseAll(q, steps, at) == IF steps = <<>> THEN q ELSE ReleaseAll(Release(q, Head(steps), at), Tail(steps), at)

ForgetJob(q, job, at) == [ReleaseAll(q, StepsOf(job), at) EXCEPT !.jobs = @ \ {job}]

\* adopt: in flight without a grant.
Adopt(q, s, since) ==
  [q EXCEPT !.placed = @ \cup {[step |-> s, since |-> {since}, charged |-> {}]},
            !.running = @ \cup {[step |-> s, since |-> since]}]

\* reconcile, for one step of the view.
ReconcileStep(q, s, view, now) ==
  LET held == Placement(q, s) # {}
      granted == held /\ ~Waits(q, s)
  IN  CASE view.state = "ready" /\ ~held -> Enqueue(q, s)
        [] view.state = "ready" /\ granted -> Requeue(q, s, now)
        [] view.state = "leased" /\ ~granted -> Adopt(Release(q, s, now), s, view.at)
        [] view.state \in {"passed", "failed"} /\ held -> Unplace(q, s, view.at, TRUE)
        [] view.state = "errored" /\ held -> Release(q, s, view.at)
        [] OTHER -> q

RECURSIVE ReconcileAll(_, _, _, _)
ReconcileAll(q, steps, views, now) ==
  IF steps = <<>> THEN q
  ELSE ReconcileAll(ReconcileStep(q, Head(steps), views[Head(steps)], now), Tail(steps), views, now)

\* reconcile; admit_job first.
Reconcile(q, job, views, now) == ReconcileAll([q EXCEPT !.jobs = @ \cup {job}], StepsOf(job), views, now)

-----------------------------------------------------------------------------
\* node_seconds, over_node_minutes, over_concurrency, admissible.
RECURSIVE Spent(_, _), Spending(_, _)
Spent(ledger, now) ==
  IF ledger = <<>> THEN 0
  ELSE (IF now - Head(ledger).at < Window THEN Head(ledger).ran ELSE 0) + Spent(Tail(ledger), now)
Spending(running, now) ==
  IF running = {} THEN 0
  ELSE LET r == CHOOSE x \in running : TRUE IN Most(0, now - r.since) * Unit + Spending(running \ {r}, now)

NodeTime(q, t, now) == Spent(q.ledger[t], now) + Spending(RunningOf(q, t), now)

OverNodeMinutes(q, t, now) == NodeTime(q, t, now) >= NodeTicks[t] * Unit
OverConcurrency(q, t) == Cardinality(RunningOf(q, t)) >= MaxRunning[t]
Admissible(q, t, now) == ~OverConcurrency(q, t) /\ ~OverNodeMinutes(q, t, now)

\* admission, with its blocked: both caps, evaluated.
Admission(q, t, now) == [over_concurrency |-> OverConcurrency(q, t), over_node_minutes |-> OverNodeMinutes(q, t, now)]
IsBlocked(a) == a.over_concurrency \/ a.over_node_minutes

\* depth: the entries of steps that still wait, and the steps that run.
Depth(q, t) ==
  LET waiting(c) == SelectSeq(q.queues[t][c], LAMBDA w : Waits(q, w.step))
  IN  [queued |-> Len(waiting(1)) + Len(waiting(2)), running |-> Cardinality(RunningOf(q, t))]

\* prune_ledgers: entries out of the window, from the front.
PruneLedgers(q, now) ==
  [q EXCEPT !.ledger = [t \in Tenants |->
    LET kept == {i \in 1..Len(@[t]) : now - @[t][i].at < Window}
    IN  IF kept = {} THEN <<>> ELSE SubSeq(@[t], CHOOSE i \in kept : \A j \in kept : i <= j, Len(@[t]))]]

\* drop_stale_heads.
DropStaleHeads(q) ==
  [q EXCEPT !.queues = [t \in Tenants |-> [c \in 1..2 |->
    LET live == {i \in 1..Len(@[t][c]) : Waits(q, @[t][c][i].step)}
    IN  IF live = {} THEN <<>> ELSE SubSeq(@[t][c], CHOOSE i \in live : \A j \in live : i <= j, Len(@[t][c]))]]]

\* head_class: interactive work first.
HeadClass(q, t) == IF q.queues[t][1] # <<>> THEN 1 ELSE 2
HasHead(q, t) == q.queues[t][1] # <<>> \/ q.queues[t][2] # <<>>

\* The start tag, with the idle credit clamped.
StartTag(q, t) == Most(q.vft[t], q.vnow - IdleCredit * Scale)

FinishTag(q, t) == StartTag(q, t) + Head(q.queues[t][HeadClass(q, t)]).cost * (Scale \div SafeWeight(t))

\* best: the admissible tenants whose head tags smallest, the first by name; none, or one.
Best(q, now) ==
  LET able == {i \in 1..Len(FqTenants) : HasHead(q, FqTenants[i]) /\ Admissible(q, FqTenants[i], now)}
      Tag(i) == FinishTag(q, FqTenants[i])
  IN  {FqTenants[i] : i \in {k \in able : \A j \in able : Tag(k) < Tag(j) \/ (Tag(k) = Tag(j) /\ k <= j)}}

\* The loop of select.
RECURSIVE Grants(_, _)
Grants(acc, now) ==
  LET q == DropStaleHeads(acc.q)
      best == Best(q, now)
      t == CHOOSE u \in best : TRUE
      c == HeadClass(q, t)
      s == Head(q.queues[t][c]).step
  IN  IF Cardinality(q.running) >= FleetSlots \/ best = {} THEN [acc EXCEPT !.q = q]
      ELSE Grants(
           [grants |-> Append(acc.grants, s),
            q |-> [q EXCEPT !.vft[t] = FinishTag(q, t), !.vnow = Most(@, StartTag(q, t)),
                            !.queues[t][c] = Tail(@),
                            !.running = @ \cup {[step |-> s, since |-> now]},
                            !.placed = (@ \ Placement(q, s)) \cup
                              {[step |-> s, since |-> {now},
                                charged |-> {(FinishTag(q, t) - StartTag(q, t)) \div (Scale \div SafeWeight(t))}]}]], now)

\* select.
Select(q, now) == Grants([q |-> PruneLedgers(q, now), grants |-> <<>>], now)

-----------------------------------------------------------------------------
FqInit ==
  /\ fq = EmptyQueue /\ fqNow = 0
  /\ fqStep = [s \in AllSteps |-> [state |-> "pending", at |-> 0]]
  /\ used = [t \in Tenants |-> 0]

\* The end of each grant: the fleet takes the step, has no room for it or rejects it, or
\* the claim says that another replica runs it.
RECURSIVE Settle(_, _, _)
Settle(q, grants, answer) ==
  IF grants = <<>> THEN q
  ELSE LET s == Head(grants)
           now == CASE answer[s] = "leased" -> q
                    [] answer[s] = "full" -> Requeue(q, s, fqNow)
                    [] answer[s] \in {"errored", "elsewhere"} -> Release(q, s, fqNow)
       IN  Settle(now, Tail(grants), answer)

\* The history after a pass: the granted steps that q does not hold as they were.
RECURSIVE TimeOf(_)
TimeOf(placements) ==
  IF placements = {} THEN 0
  ELSE LET p == CHOOSE x \in placements : TRUE
       IN  (fqNow - (CHOOSE n \in p.since : TRUE)) * Unit + TimeOf(placements \ {p})

Charged(q, t) == {p \in q.placed : p.step.tenant = t /\ p.charged # {}}

Meters(q) == used' = [t \in Tenants |-> used[t] + TimeOf(Charged(fq, t) \ Charged(q, t))]

\* What wakes a job's driver: nothing, its next step is unblocked, one ends, or one is
\* cancelled while it waits.
Moves(job) ==
  LET mine == {s \in AllSteps : s.job = job}
      next == {s \in mine : fqStep[s].state = "pending"}
      To(s, state) == [fqStep EXCEPT ![s] = [state |-> state, at |-> fqNow]]
  IN  {fqStep}
      \cup {To(s, "ready") : s \in {x \in next : \A y \in next : x.id <= y.id}}
      \cup {To(s, o) : s \in {x \in mine : fqStep[x].state = "leased"}, o \in {"passed", "errored"}}
      \cup {To(s, "errored") : s \in {x \in mine : fqStep[x].state = "ready"}}

\* What a later pass reads of a step: one that ended is not in the queue any more.
Known(state, at) ==
  IF state \in {"passed", "failed", "errored"} THEN [state |-> "over", at |-> 0]
  ELSE [state |-> state, at |-> IF state = "leased" THEN at ELSE 0]

\* The rest of pump, from a queue that is in line with views: select and settle_assignment.
Hands(q, views) ==
  \E picked \in {Select(q, fqNow)} :
  \E answer \in [ToSet(picked.grants) -> {"leased", "full", "errored", "elsewhere"}] :
  \E settled \in {Settle(picked.q, picked.grants, answer)} :
    /\ fq' = settled
    /\ fqStep' = [s \in AllSteps |->
                    IF s \in DOMAIN answer /\ answer[s] \in {"leased", "errored"} THEN Known(answer[s], fqNow)
                    ELSE Known(views[s].state, views[s].at)]
    /\ Meters(settled)
    /\ UNCHANGED fqNow

\* pump on behalf of a job.
Pumps(job) ==
  \E views \in Moves(job) : \E q \in {Reconcile(fq, job, views, fqNow)} : Hands(q, views)

\* retire: the job has its verdict, and what it held is offered to the others.
Forgets(job) ==
  /\ job \in fq.jobs
  /\ \A s \in AllSteps : s.job = job => fqStep[s].state = "over"
  /\ \E q \in {ForgetJob(fq, job, fqNow)} :
       Hands(q, [s \in AllSteps |-> IF s.job = job THEN [state |-> "gone", at |-> 0] ELSE fqStep[s]])

\* Time passes; the step clock lets no step run longer than StepClock.
FqTime ==
  /\ fqNow < MaxFqNow
  /\ \A s \in AllSteps : fqStep[s].state = "leased" => fqNow - fqStep[s].at < StepClock
  /\ fqNow' = fqNow + 1
  /\ UNCHANGED <<fq, fqStep, used>>

FqNext ==
  \/ FqTime
  \/ \E job \in {s.job : s \in AllSteps} : Pumps(job) \/ Forgets(job)

-----------------------------------------------------------------------------
RECURSIVE Charges(_)
Charges(placements) ==
  IF placements = {} THEN 0
  ELSE LET p == CHOOSE x \in placements : TRUE IN (CHOOSE c \in p.charged : TRUE) + Charges(placements \ {p})

\* A tenant pays its share's worth for what its granted steps took, and what its running
\* ones are expected to take: no less, whatever it cancels, is refused or names its steps,
\* and no more beyond what the queue has moved on.  No tenant is over its plan by more
\* than what its running steps still take, the fleet is never oversubscribed, and the
\* steps that count against both are the granted ones of the jobs that are there.  What a
\* tenant is told of its queue is so: each step that waits counts once, those that run are
\* the ones its jobs hold a lease for, and no turn goes to a tenant that is told it is blocked.
TurnsArePaid ==
  /\ \A t \in Tenants :
       LET share == (used[t] + Charges(Charged(fq, t))) * (Scale \div SafeWeight(t))
       IN  share <= fq.vft[t] /\ fq.vft[t] <= share + fq.vnow
  /\ Cardinality(fq.running) <= FleetSlots
  /\ \A t \in Tenants : /\ Cardinality(RunningOf(fq, t)) <= MaxRunning[t]
                        /\ NodeTime(fq, t, fqNow) < (NodeTicks[t] + MaxRunning[t] * StepClock) * Unit
                        /\ Len(fq.costs[t]) <= CostNames
  /\ \A t \in Tenants :
       /\ Depth(fq, t) = [queued |-> Cardinality({p \in fq.placed : p.step.tenant = t /\ p.since = {}}),
                          running |-> Cardinality({s \in AllSteps : s.tenant = t /\ fqStep[s].state = "leased"})]
       /\ IsBlocked(Admission(fq, t, fqNow)) => t \notin Best(DropStaleHeads(fq), fqNow)
  /\ {p.step.job : p \in fq.placed} \subseteq fq.jobs
  /\ fq.running = {[step |-> p.step, since |-> CHOOSE n \in p.since : TRUE] : p \in {x \in fq.placed : x.since # {}}}
=============================================================================
