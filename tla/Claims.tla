------------------------------- MODULE Claims -------------------------------
(***************************************************************************)
(* Several runner replicas over one Postgres claim store:                  *)
(*   PgClaims (crates/hull-ci-server/src/claims.rs), each statement one    *)
(*     atomic step that may fail before it commits or lose its reply, and  *)
(*   the callers in crates/hull-ci-control/src/control.rs: accept, pump,   *)
(*     heartbeat, finish, retire and report.                               *)
(*                                                                         *)
(* Time is counted in ticks and each replica reads its own clock, Skew[r]  *)
(* ahead.  A replica that is up runs its heartbeat when it is due; one     *)
(* that is stalled or down does not.  What the pipeline decides is one     *)
(* nondeterministic choice.  A Hull that cannot be reached, retention      *)
(* under the max_jobs cap and the interleavings inside one process are in  *)
(* module Outbox.                                                          *)
(***************************************************************************)
EXTENDS JobModel, Naturals, FiniteSets

CONSTANTS
  Replicas,
  Calls,        \* dispatches; a job is named after the call that won its claim
  Trees, Urls, TreeOf, UrlOf,
  ReplicaOf,    \* ReplicaOf[c]: the replica dispatch c arrives at
  Steps, StepsOf, \* StepsOf[j]: the steps of job j's plan
  Outcomes,     \* the verdicts a driver may come to
  Lease,        \* ControlConfig::claim_ttl, in ticks
  Every,        \* renew_every(claim_ttl)
  Retention,    \* ControlConfig::job_retention, in ticks
  JournalFails, \* may Journal::record return an error?
  Skew,         \* Skew[r]: how far r's clock is ahead
  MaxTime,
  MaxMishaps    \* bound on lost statements, stalls and crashes together

ASSUME ClaimsAssumption ==
  /\ TreeOf \in [Calls -> Trees] /\ UrlOf \in [Calls -> Urls] /\ ReplicaOf \in [Calls -> Replicas]
  /\ StepsOf \in [Calls -> SUBSET Steps]
  /\ Outcomes \subseteq Statuses
  /\ Lease \in Nat /\ Every \in Nat \ {0} /\ Retention \in Nat
  /\ Skew \in [Replicas -> Nat] /\ MaxTime \in Nat /\ MaxMishaps \in Nat
  /\ JournalFails \in BOOLEAN

\* A published verdict is kept for longer than two replicas' clocks are apart (an hour,
\* by default): otherwise a replica ahead ages out a verdict that is being delivered.
ASSUME ClocksAgree == \A r, s \in Replicas : Skew[r] < Skew[s] + Retention

NoJob == "nojob"
NoOwner == "noowner"

ASSUME ClaimsNames == NoJob \notin Calls /\ NoOwner \notin Replicas

VARIABLES
  now,                              \* time
  \* -- hull_ci_claim, one row per tree whose rowJob is not NoJob --
  rowJob, rowOwner, rowFence, rowExpires, rowUrls, rowVerdict, rowSettled,
  stepRows,                         \* hull_ci_step_claim: <<job, step, owner, fence>>
  \* -- replicas: up, stalled or down; leases[r]: Control::leases, <<job, fence>> --
  life, leases,
  \* -- job records of each replica, and the journal entry of each job --
  rec, recVerdict, recUrls, jnlUrls, jnlVerdict,
  \* -- accept calls: where each is, and what admit told it --
  pc, target, seen, fence, dropping,
  \* -- drivers: where each is; its steps; when its heartbeat is due --
  drv, step, beat, missed,
  \* -- callback senders, one per replica and job --
  snd, tried,
  \* -- history --
  told, robbed, inFlightWhenLost, lateRuns, strayClaims, excused, raced, mishaps

rowVars == <<rowJob, rowOwner, rowFence, rowExpires, rowUrls, rowVerdict, rowSettled>>
recVars == <<rec, recVerdict, recUrls>>
jnlVars == <<jnlUrls, jnlVerdict>>
callVars == <<pc, target, seen, fence, dropping>>
drvVars == <<drv, step, beat, missed>>
sndVars == <<snd, tried>>
histVars == <<told, robbed, inFlightWhenLost, lateRuns, strayClaims, excused, raced>>
vars == <<now, rowVars, stepRows, life, leases, recVars, jnlVars, callVars,
          drvVars, sndVars, histVars, mishaps>>

-----------------------------------------------------------------------------
Verdicts == Statuses \cup {NoVerdict}
Clock(r) == now + Skew[r]
Up(r) == life[r] = "up"
Present(r, j) == rec[r][j] # "absent"

\* mutant: the fence is not checked.
HoldsUnfenced(r, j, f) == TRUE

\* WHERE job_id = $1 AND owner = $4 AND fence = $5
Holds(r, j, f) == \E t \in Trees : rowJob[t] = j /\ rowOwner[t] = r /\ rowFence[t] = f

\* JobClaims::destinations.
Destinations(j) == UNION {rowUrls[t] : t \in {i \in Trees : rowJob[i] = j}}

Claimed(j) == \E t \in Trees : rowJob[t] = j
Leased(r, j) == \E l \in leases[r] : l[1] = j
FenceOf(r, j) == (CHOOSE l \in leases[r] : l[1] = j)[2]
\* The lease is there and the row is still under it.
StillHolds(r, j) == Leased(r, j) /\ Holds(r, j, FenceOf(r, j))
WithoutLease(r, j) == [leases EXCEPT ![r] = {l \in @ : l[1] # j}]

\* A statement that never reached the store or lost its reply, a stall, a crash.
Mishap == mishaps < MaxMishaps /\ mishaps' = mishaps + 1

RowTypes ==
  /\ rowJob \in [Trees -> Calls \cup {NoJob}]
  /\ rowOwner \in [Trees -> Replicas \cup {NoOwner}]
  /\ rowFence \in [Trees -> Nat]
  /\ rowExpires \in [Trees -> Nat]
  /\ rowUrls \in [Trees -> SUBSET Urls]
  /\ rowVerdict \in [Trees -> Verdicts]
  /\ rowSettled \in [Trees -> Nat]

RecTypes ==
  /\ rec \in [Replicas -> [Calls -> {"absent", "running", "decided", "reported"}]]
  /\ recVerdict \in [Replicas -> [Calls -> Verdicts]]
  /\ recUrls \in [Replicas -> [Calls -> SUBSET Urls]]
  /\ jnlUrls \in [Calls -> SUBSET Urls]
  /\ jnlVerdict \in [Calls -> Verdicts]

CallTypes ==
  /\ pc \in [Calls -> {"idle", "evicted", "won", "attached", "acked", "refused", "lost"}]
  /\ target \in [Calls -> Calls]
  /\ seen \in [Calls -> Verdicts]
  /\ fence \in [Calls -> Nat]
  /\ dropping \in [Calls -> SUBSET Calls]

DrvTypes ==
  /\ drv \in [Calls -> {"none", "drive", "settle", "journal", "done"}]
  /\ step \in [Calls -> [Steps -> {"ready", "claimed", "sent"}]]
  /\ beat \in [Calls -> Nat]
  /\ missed \in [Calls -> Nat]

SndTypes ==
  /\ snd \in [Replicas -> [Calls -> {"off", "pass", "end"}]]
  /\ tried \in [Replicas -> [Calls -> SUBSET Urls]]
  /\ told \subseteq Urls \X Calls \X Statuses

ProcTypes ==
  /\ now \in Nat /\ mishaps \in Nat
  /\ stepRows \subseteq Calls \X Steps \X Replicas \X Nat
  /\ life \in [Replicas -> {"up", "stalled", "down"}]
  /\ leases \in [Replicas -> SUBSET (Calls \X Nat)]

HistTypes ==
  /\ robbed \subseteq Calls /\ excused \subseteq Calls /\ raced \subseteq Calls
  /\ inFlightWhenLost \subseteq Calls \X Steps
  /\ lateRuns \subseteq Calls \X Steps /\ strayClaims \subseteq Calls \X Steps

TypeOK ==
  RowTypes /\ RecTypes /\ CallTypes /\ DrvTypes /\ SndTypes /\ ProcTypes /\ HistTypes

Init ==
  /\ now = 0
  /\ rowJob = [t \in Trees |-> NoJob] /\ rowOwner = [t \in Trees |-> NoOwner]
  /\ rowFence = [t \in Trees |-> 0] /\ rowExpires = [t \in Trees |-> 0]
  /\ rowUrls = [t \in Trees |-> {}] /\ rowVerdict = [t \in Trees |-> NoVerdict]
  /\ rowSettled = [t \in Trees |-> 0] /\ stepRows = {}
  /\ life = [r \in Replicas |-> "up"] /\ leases = [r \in Replicas |-> {}]
  /\ rec = [r \in Replicas |-> [j \in Calls |-> "absent"]]
  /\ recVerdict = [r \in Replicas |-> [j \in Calls |-> NoVerdict]]
  /\ recUrls = [r \in Replicas |-> [j \in Calls |-> {}]]
  /\ jnlUrls = [j \in Calls |-> {}] /\ jnlVerdict = [j \in Calls |-> NoVerdict]
  /\ pc = [c \in Calls |-> "idle"]
  /\ target = [c \in Calls |-> c] /\ seen = [c \in Calls |-> NoVerdict]
  /\ fence = [c \in Calls |-> 0]
  /\ dropping = [c \in Calls |-> {}]
  /\ drv = [j \in Calls |-> "none"]
  /\ step = [j \in Calls |-> [s \in Steps |-> "ready"]]
  /\ beat = [j \in Calls |-> 0] /\ missed = [j \in Calls |-> 0]
  /\ snd = [r \in Replicas |-> [j \in Calls |-> "off"]]
  /\ tried = [r \in Replicas |-> [j \in Calls |-> {}]]
  /\ told = {} /\ robbed = {} /\ inFlightWhenLost = {}
  /\ lateRuns = {} /\ strayClaims = {} /\ excused = {} /\ raced = {}
  /\ mishaps = 0

-----------------------------------------------------------------------------
\* The statements of PgClaims.

\* TAKEOVER: an unsettled claim whose lease has lapsed, or a settled one the
\* local job stores would have evicted.
AgedOut(r, t) == rowVerdict[t] # NoVerdict /\ rowSettled[t] + Retention <= Clock(r)
\* mutant: a lease is over at its last instant.
TakeoverEarly(r, t) ==
  \/ rowVerdict[t] = NoVerdict /\ rowExpires[t] <= Clock(r)
  \/ AgedOut(r, t)

Takeover(r, t) ==
  \/ rowVerdict[t] = NoVerdict /\ rowExpires[t] < Clock(r)
  \/ AgedOut(r, t)

\* mutant: the old verdict stays on a row that changes hands.
RowWonStale(r, c, t) ==
  /\ rowJob' = [rowJob EXCEPT ![t] = c]
  /\ rowOwner' = [rowOwner EXCEPT ![t] = r]
  /\ rowFence' = [rowFence EXCEPT ![t] = IF rowJob[t] = NoJob THEN 1 ELSE @ + 1]
  /\ rowExpires' = [rowExpires EXCEPT ![t] = Clock(r) + Lease]
  /\ UNCHANGED rowVerdict
  /\ rowSettled' = [rowSettled EXCEPT ![t] = 0]
  /\ rowUrls' = [rowUrls EXCEPT ![t] =
                   {UrlOf[c]} \cup IF rowJob[t] = NoJob \/ AgedOut(r, t) THEN {} ELSE @]

\* INSERT ... ON CONFLICT DO UPDATE, won: a fresh row, or one changing hands.
RowWon(r, c, t) ==
  /\ rowJob' = [rowJob EXCEPT ![t] = c]
  /\ rowOwner' = [rowOwner EXCEPT ![t] = r]
  /\ rowFence' = [rowFence EXCEPT ![t] = IF rowJob[t] = NoJob THEN 1 ELSE @ + 1]
  /\ rowExpires' = [rowExpires EXCEPT ![t] = Clock(r) + Lease]
  /\ rowVerdict' = [rowVerdict EXCEPT ![t] = NoVerdict]
  /\ rowSettled' = [rowSettled EXCEPT ![t] = 0]
  /\ rowUrls' = [rowUrls EXCEPT ![t] =
                   {UrlOf[c]} \cup IF rowJob[t] = NoJob \/ AgedOut(r, t) THEN {} ELSE @]

InFlight(jobs) == {k \in jobs \X Steps : step[k[1]][k[2]] = "claimed"}

\* The lost driver, if it was up, punctual and within what the lease allows for
\* lost renewals and skew, was robbed; what it had claimed is in flight.
Superseded(r, t) ==
  LET j == rowJob[t] IN
  /\ robbed' = robbed \cup
       {i \in {j} \cap Calls :
          /\ rowVerdict[t] = NoVerdict /\ rowOwner[t] \in Replicas
          /\ Up(rowOwner[t]) /\ Leased(rowOwner[t], i) /\ drv[i] = "drive"
          /\ (missed[i] + 1) * Every + Skew[r] <= Lease + Skew[rowOwner[t]]}
  /\ inFlightWhenLost' = inFlightWhenLost \cup InFlight({j} \cap Calls)

\* The sweep that follows a takeover: step claims of jobs no row names.
Swept(rows, jobs) == {k \in rows : \E t \in Trees : jobs[t] = k[1]}

\* DELETE ... WHERE job_id = $1 AND (verdict IS NOT NULL OR owner = $2), with
\* the step claims of the rows it deleted.
Forget(r, j) ==
  LET gone == {t \in Trees : rowJob[t] = j /\ (rowVerdict[t] # NoVerdict \/ rowOwner[t] = r)} IN
  /\ rowJob' = [t \in Trees |-> IF t \in gone THEN NoJob ELSE rowJob[t]]
  /\ rowOwner' = [t \in Trees |-> IF t \in gone THEN NoOwner ELSE rowOwner[t]]
  /\ rowFence' = [t \in Trees |-> IF t \in gone THEN 0 ELSE rowFence[t]]
  /\ rowExpires' = [t \in Trees |-> IF t \in gone THEN 0 ELSE rowExpires[t]]
  /\ rowUrls' = [t \in Trees |-> IF t \in gone THEN {} ELSE rowUrls[t]]
  /\ rowVerdict' = [t \in Trees |-> IF t \in gone THEN NoVerdict ELSE rowVerdict[t]]
  /\ rowSettled' = [t \in Trees |-> IF t \in gone THEN 0 ELSE rowSettled[t]]
  /\ stepRows' = IF gone = {} THEN stepRows ELSE {k \in stepRows : k[1] # j}
  /\ inFlightWhenLost' = inFlightWhenLost \cup IF gone = {} THEN {} ELSE InFlight({j})

-----------------------------------------------------------------------------
\* Control::accept.

\* Retention first: some paid jobs leave the store, to be forgotten one by one.  A job
\* may be reported, by the sender of a duplicate, before its driver has retired it.
Evict(c) ==
  LET r == ReplicaOf[c] IN
  /\ pc[c] = "idle" /\ Up(r)
  /\ \E old \in SUBSET {j \in Calls : rec[r][j] = "reported"} \ {{}} :
       /\ dropping' = [dropping EXCEPT ![c] = old]
       /\ rec' = [rec EXCEPT ![r] = [j \in Calls |-> IF j \in old THEN "absent" ELSE @[j]]]
       /\ recVerdict' = [recVerdict EXCEPT ![r] =
                           [j \in Calls |-> IF j \in old THEN NoVerdict ELSE @[j]]]
       /\ recUrls' = [recUrls EXCEPT ![r] = [j \in Calls |-> IF j \in old THEN {} ELSE @[j]]]
       /\ excused' = excused \cup
            {j \in old : snd[r][j] # "off" \/ (ReplicaOf[j] = r /\ drv[j] \in {"settle", "journal"})}
  /\ pc' = [pc EXCEPT ![c] = "evicted"]
  /\ UNCHANGED <<now, rowVars, stepRows, life, leases, jnlVars, target, seen, fence,
                 drvVars, sndVars, told, robbed, inFlightWhenLost, lateRuns, strayClaims,
                 mishaps, raced>>

\* forget of an evicted job; infallible by contract, so a failure is only logged.
ForgetEvicted(c) ==
  /\ pc[c] = "evicted" /\ Up(ReplicaOf[c])
  /\ \E j \in dropping[c] :
       /\ dropping' = [dropping EXCEPT ![c] = @ \ {j}]
       /\ \/ Forget(ReplicaOf[c], j) /\ UNCHANGED mishaps
          \/ Mishap /\ UNCHANGED <<rowVars, stepRows, inFlightWhenLost>>
  /\ UNCHANGED <<now, life, leases, recVars, jnlVars, pc, target, seen, fence,
                 drvVars, sndVars, told, robbed, lateRuns, strayClaims, excused, raced>>

Admitting(c) ==
  Up(ReplicaOf[c]) /\ (pc[c] = "idle" \/ (pc[c] = "evicted" /\ dropping[c] = {}))

\* admit wins the tree: a new row or a takeover.  The reply may be lost after
\* the commit, and then the dispatch is refused and nobody drives the job.
AdmitWon(c) ==
  LET r == ReplicaOf[c] t == TreeOf[c] IN
  /\ Admitting(c)
  /\ rowJob[t] = NoJob \/ Takeover(r, t)
  /\ RowWon(r, c, t) /\ Superseded(r, t)
  /\ fence' = [fence EXCEPT ![c] = rowFence'[t]]
  /\ \/ /\ pc' = [pc EXCEPT ![c] = "won"] /\ UNCHANGED mishaps
        /\ stepRows' = IF rowJob[t] = NoJob THEN stepRows ELSE Swept(stepRows, rowJob')
     \/ /\ rowJob[t] # NoJob \* the sweep alone fails, which is ignored
        /\ pc' = [pc EXCEPT ![c] = "won"] /\ Mishap /\ UNCHANGED stepRows
     \/ pc' = [pc EXCEPT ![c] = "refused"] /\ Mishap /\ UNCHANGED stepRows
  /\ UNCHANGED <<now, life, leases, recVars, jnlVars, target, seen, dropping,
                 drvVars, sndVars, told, lateRuns, strayClaims, excused, raced>>

\* mutant: an attach does not look whether there is a row.
AdmitAttachedToNone(c) ==
  LET r == ReplicaOf[c] t == TreeOf[c] IN
  /\ Admitting(c)
  /\ ~Takeover(r, t)
  /\ rowUrls' = [rowUrls EXCEPT ![t] = @ \cup {UrlOf[c]}]
  /\ target' = [target EXCEPT ![c] = rowJob[t]]
  /\ seen' = [seen EXCEPT ![c] = rowVerdict[t]]
  /\ \/ pc' = [pc EXCEPT ![c] = "attached"] /\ UNCHANGED mishaps
     \/ pc' = [pc EXCEPT ![c] = "refused"] /\ Mishap
  /\ UNCHANGED <<now, rowJob, rowOwner, rowFence, rowExpires, rowVerdict, rowSettled,
                 stepRows, life, leases, recVars, jnlVars, fence, dropping, drvVars, sndVars,
                 histVars>>

\* mutant: an attach leaves the row alone.
AdmitAttachedSilently(c) ==
  LET r == ReplicaOf[c] t == TreeOf[c] IN
  /\ Admitting(c)
  /\ rowJob[t] # NoJob /\ ~Takeover(r, t)
  /\ rowUrls' = [rowUrls EXCEPT ![t] = @]
  /\ target' = [target EXCEPT ![c] = rowJob[t]]
  /\ seen' = [seen EXCEPT ![c] = rowVerdict[t]]
  /\ \/ pc' = [pc EXCEPT ![c] = "attached"] /\ UNCHANGED mishaps
     \/ pc' = [pc EXCEPT ![c] = "refused"] /\ Mishap
  /\ UNCHANGED <<now, rowJob, rowOwner, rowFence, rowExpires, rowVerdict, rowSettled,
                 stepRows, life, leases, recVars, jnlVars, fence, dropping, drvVars, sndVars,
                 histVars>>

\* admit attaches: the url joins the row and the caller learns job and verdict.
AdmitAttached(c) ==
  LET r == ReplicaOf[c] t == TreeOf[c] IN
  /\ Admitting(c)
  /\ rowJob[t] # NoJob /\ ~Takeover(r, t)
  /\ rowUrls' = [rowUrls EXCEPT ![t] = @ \cup {UrlOf[c]}]
  /\ target' = [target EXCEPT ![c] = rowJob[t]]
  /\ seen' = [seen EXCEPT ![c] = rowVerdict[t]]
  /\ \/ pc' = [pc EXCEPT ![c] = "attached"] /\ UNCHANGED mishaps
     \/ pc' = [pc EXCEPT ![c] = "refused"] /\ Mishap
  /\ UNCHANGED <<now, rowJob, rowOwner, rowFence, rowExpires, rowVerdict, rowSettled,
                 stepRows, life, leases, recVars, jnlVars, fence, dropping, drvVars, sndVars,
                 histVars>>

\* admit never reached the store: NotClaimed.
AdmitFails(c) ==
  /\ Admitting(c) /\ Mishap
  /\ pc' = [pc EXCEPT ![c] = "refused"]
  /\ UNCHANGED <<now, rowVars, stepRows, life, leases, recVars, jnlVars, target, seen, fence,
                 dropping, drvVars, sndVars, histVars>>

\* Created: the lease, the record and the journal entry; then the ack and the
\* driver with its heartbeat.
Start(c) ==
  LET r == ReplicaOf[c] IN
  /\ pc[c] = "won" /\ Up(r)
  /\ pc' = [pc EXCEPT ![c] = "acked"]
  /\ leases' = [leases EXCEPT ![r] = @ \cup {<<c, fence[c]>>}]
  /\ rec' = [rec EXCEPT ![r][c] = "running"]
  /\ recUrls' = [recUrls EXCEPT ![r][c] = {UrlOf[c]}]
  /\ jnlUrls' = [jnlUrls EXCEPT ![c] = {UrlOf[c]}]
  /\ drv' = [drv EXCEPT ![c] = "drive"]
  /\ beat' = [beat EXCEPT ![c] = now + Every]
  /\ UNCHANGED <<now, rowVars, stepRows, life, recVerdict, jnlVerdict, target, seen, fence,
                 dropping, step, missed, sndVars, histVars, mishaps>>

\* NotDurable: the record, the lease and the claim are undone and the dispatch
\* is refused.
NotDurable(c) ==
  /\ pc[c] = "won" /\ Up(ReplicaOf[c]) /\ JournalFails
  /\ pc' = [pc EXCEPT ![c] = "refused"]
  /\ Forget(ReplicaOf[c], c)
  /\ excused' = excused \cup {c}
  /\ UNCHANGED <<now, life, leases, recVars, jnlVars, target, seen, fence, dropping, drvVars,
                 sndVars, told, robbed, lateRuns, strayClaims, mishaps, raced>>

\* Attached: to a job recorded here (its journal entry is rewritten), to a
\* verdict another replica published, or to a job held elsewhere.
Attach(c) ==
  LET r == ReplicaOf[c] j == target[c] IN
  /\ pc[c] = "attached" /\ Up(r)
  /\ pc' = [pc EXCEPT ![c] = "acked"]
  /\ target' = [target EXCEPT ![c] = c] /\ seen' = [seen EXCEPT ![c] = NoVerdict]
  /\ rec' = [rec EXCEPT ![r][j] = IF @ = "absent" /\ seen[c] # NoVerdict THEN "decided" ELSE @]
  /\ recVerdict' = [recVerdict EXCEPT ![r][j] = IF Present(r, j) THEN @ ELSE seen[c]]
  /\ recUrls' = [recUrls EXCEPT ![r][j] = IF rec'[r][j] = "absent" THEN @ ELSE @ \cup {UrlOf[c]}]
  /\ jnlUrls' = [jnlUrls EXCEPT ![j] =
                   IF rec[r][j] = "running" THEN recUrls[r][j] \cup {UrlOf[c]} ELSE @]
  /\ snd' = [snd EXCEPT ![r][j] =
               IF @ = "off" /\ rec'[r][j] \in {"decided", "reported"} THEN "pass" ELSE @]
  /\ excused' = IF snd[r][j] = "end" THEN excused \cup {j} ELSE excused
  /\ UNCHANGED <<now, rowVars, stepRows, life, leases, jnlVerdict, fence, dropping,
                 drvVars, tried, told, robbed, inFlightWhenLost, lateRuns,
                 strayClaims, mishaps, raced>>

-----------------------------------------------------------------------------
\* Control::pump for one granted step: the claim, then the fleet.

\* claim_step: granted; refused because the fence is stale, which drops the
\* lease; or granted with the reply lost, and then the step goes back to the
\* queue with its claim left behind.  Taken and a failure leave all as it was.
ClaimStep(r, j, s) ==
  /\ Up(r) /\ rec[r][j] = "running" /\ drv[j] = "drive" /\ Leased(r, j)
  /\ s \in StepsOf[j] /\ step[j][s] = "ready"
  /\ LET f == FenceOf(r, j) IN
     \/ /\ Holds(r, j, f) /\ ~\E k \in stepRows : k[1] = j /\ k[2] = s
        /\ stepRows' = stepRows \cup {<<j, s, r, f>>}
        /\ \/ step' = [step EXCEPT ![j][s] = "claimed"] /\ UNCHANGED <<mishaps, strayClaims>>
           \/ Mishap /\ strayClaims' = strayClaims \cup {<<j, s>>} /\ UNCHANGED step
        /\ UNCHANGED leases
     \/ /\ ~Holds(r, j, f) /\ ~\E k \in stepRows : k[1] = j /\ k[2] = s
        /\ leases' = WithoutLease(r, j)
        /\ UNCHANGED <<stepRows, step, mishaps, strayClaims>>
  /\ UNCHANGED <<now, rowVars, life, recVars, jnlVars, callVars, drv, beat, missed, sndVars,
                 told, robbed, inFlightWhenLost, lateRuns, excused, raced>>

\* assign took the step, or rejected it: the claim is kept for good.
Assign(r, j, s) ==
  /\ Up(r) /\ ReplicaOf[j] = r /\ step[j][s] = "claimed"
  /\ step' = [step EXCEPT ![j][s] = "sent"]
  /\ lateRuns' = IF Claimed(j) THEN lateRuns ELSE lateRuns \cup {<<j, s>>}
  /\ UNCHANGED <<now, rowVars, stepRows, life, leases, recVars, jnlVars, callVars,
                 drv, beat, missed, sndVars, told, robbed, inFlightWhenLost, strayClaims,
                 excused, mishaps, raced>>

\* mutant: the claim of a step the fleet had no room for is kept.
NoCapacityKeeping(r, j, s) ==
  /\ Up(r) /\ ReplicaOf[j] = r /\ step[j][s] = "claimed"
  /\ step' = [step EXCEPT ![j][s] = "ready"]
  /\ \/ /\ stepRows' = stepRows
        /\ UNCHANGED <<mishaps, strayClaims>>
     \/ Mishap /\ strayClaims' = strayClaims \cup {<<j, s>>} /\ UNCHANGED stepRows
  /\ UNCHANGED <<now, rowVars, life, leases, recVars, jnlVars, callVars, drv, beat, missed,
                 sndVars, told, robbed, inFlightWhenLost, lateRuns, excused, raced>>

\* NoCapacity: release_step gives the claim back and the step is requeued.
NoCapacity(r, j, s) ==
  /\ Up(r) /\ ReplicaOf[j] = r /\ step[j][s] = "claimed"
  /\ step' = [step EXCEPT ![j][s] = "ready"]
  /\ \/ /\ stepRows' = stepRows \ {<<j, s, r, fence[j]>>}
        /\ UNCHANGED <<mishaps, strayClaims>>
     \/ Mishap /\ strayClaims' = strayClaims \cup {<<j, s>>} /\ UNCHANGED stepRows
  /\ UNCHANGED <<now, rowVars, life, leases, recVars, jnlVars, callVars, drv, beat, missed,
                 sndVars, told, robbed, inFlightWhenLost, lateRuns, excused, raced>>

-----------------------------------------------------------------------------
\* heartbeat: renew while the lease is held; false drops it, an error waits for
\* the next beat.
Renew(r, j) ==
  /\ Up(r) /\ ReplicaOf[j] = r /\ Leased(r, j) /\ drv[j] # "none" /\ beat[j] <= now
  /\ beat' = [beat EXCEPT ![j] = now + Every]
  /\ LET f == FenceOf(r, j) IN
     \/ /\ Holds(r, j, f)
        /\ rowExpires' = [t \in Trees |-> IF rowJob[t] = j THEN Clock(r) + Lease ELSE rowExpires[t]]
        /\ missed' = [missed EXCEPT ![j] = 0] /\ UNCHANGED <<leases, mishaps>>
     \/ /\ ~Holds(r, j, f) /\ leases' = WithoutLease(r, j)
        /\ UNCHANGED <<rowExpires, missed, mishaps>>
     \/ Mishap /\ missed' = [missed EXCEPT ![j] = @ + 1] /\ UNCHANGED <<rowExpires, leases>>
  /\ UNCHANGED <<now, rowJob, rowOwner, rowFence, rowUrls, rowVerdict, rowSettled, stepRows,
                 life, recVars, jnlVars, callVars, drv, step, sndVars, histVars>>

\* The pipeline comes to a verdict and finish records it.
Decide(r, j) ==
  /\ Up(r) /\ ReplicaOf[j] = r /\ drv[j] = "drive" /\ rec[r][j] = "running"
  /\ \E v \in Outcomes : recVerdict' = [recVerdict EXCEPT ![r][j] = v]
  /\ rec' = [rec EXCEPT ![r][j] = "decided"]
  /\ drv' = [drv EXCEPT ![j] = "settle"]
  /\ UNCHANGED <<now, rowVars, stepRows, life, leases, recUrls, jnlVars, callVars, step, beat,
                 missed, sndVars, histVars, mishaps>>

\* settle, if the lease is still held; a fenced update matches no row.
Settle(r, j) ==
  /\ Up(r) /\ ReplicaOf[j] = r /\ drv[j] = "settle"
  /\ drv' = [drv EXCEPT ![j] = "journal"]
  /\ \/ /\ rowVerdict' = [t \in Trees |-> IF rowJob[t] = j /\ StillHolds(r, j)
                                          THEN recVerdict[r][j] ELSE rowVerdict[t]]
        /\ rowSettled' = [t \in Trees |-> IF rowVerdict'[t] # rowVerdict[t]
                                          THEN Clock(r) ELSE rowSettled[t]]
        /\ UNCHANGED <<mishaps, excused>>
     \/ Mishap /\ excused' = excused \cup {j} /\ UNCHANGED <<rowVerdict, rowSettled>>
  /\ UNCHANGED <<now, rowJob, rowOwner, rowFence, rowExpires, rowUrls, stepRows, life, leases,
                 recVars, jnlVars, callVars, step, beat, missed, sndVars,
                 told, robbed, inFlightWhenLost, lateRuns, strayClaims, raced>>

\* finish journals the verdict, retires the job (which drops the lease) and
\* starts the sender unless one is running.
Retire(r, j) ==
  /\ Up(r) /\ ReplicaOf[j] = r /\ drv[j] = "journal"
  /\ drv' = [drv EXCEPT ![j] = "done"]
  /\ jnlUrls' = [jnlUrls EXCEPT ![j] = recUrls[r][j]]
  /\ jnlVerdict' = [jnlVerdict EXCEPT ![j] = recVerdict[r][j]]
  /\ leases' = WithoutLease(r, j)
  /\ snd' = [snd EXCEPT ![r][j] = IF @ = "off" THEN "pass" ELSE @]
  /\ raced' = IF snd[r][j] = "end" THEN raced \cup {j} ELSE raced
  /\ UNCHANGED <<now, rowVars, stepRows, life, recVars, callVars, step, beat, missed, tried,
                 told,
                 robbed, inFlightWhenLost, lateRuns, strayClaims, excused, mishaps>>

-----------------------------------------------------------------------------
\* report.

\* mutant: only the destinations recorded here are posted to.
PassLocal(r, j) ==
  /\ Up(r) /\ snd[r][j] = "pass"
  /\ \/ /\ recUrls' = [recUrls EXCEPT ![r][j] = @ \cup
              {}]
        /\ UNCHANGED <<mishaps, excused>>
     \/ Mishap /\ excused' = excused \cup {j} /\ UNCHANGED recUrls
  /\ snd' = [snd EXCEPT ![r][j] = IF recUrls'[r][j] \subseteq tried[r][j] THEN "end" ELSE @]
  /\ tried' = [tried EXCEPT ![r][j] = recUrls'[r][j]]
  /\ told' = told \cup {<<u, j, recVerdict[r][j]>> : u \in recUrls'[r][j] \ tried[r][j]}
  /\ UNCHANGED <<now, rowVars, stepRows, life, leases, rec, recVerdict, jnlVars, callVars,
                 drvVars, robbed, inFlightWhenLost, lateRuns, strayClaims, raced>>

\* One pass: read the claim's destinations into the record and post to those not
\* tried yet; when there is none, the loop ends.
Pass(r, j) ==
  /\ Up(r) /\ snd[r][j] = "pass"
  /\ \/ /\ recUrls' = [recUrls EXCEPT ![r][j] = @ \cup
              IF Present(r, j) THEN Destinations(j) ELSE {}]
        /\ UNCHANGED <<mishaps, excused>>
     \/ Mishap /\ excused' = excused \cup {j} /\ UNCHANGED recUrls
  /\ snd' = [snd EXCEPT ![r][j] = IF recUrls'[r][j] \subseteq tried[r][j] THEN "end" ELSE @]
  /\ tried' = [tried EXCEPT ![r][j] = recUrls'[r][j]]
  /\ told' = told \cup {<<u, j, recVerdict[r][j]>> : u \in recUrls'[r][j] \ tried[r][j]}
  /\ UNCHANGED <<now, rowVars, stepRows, life, leases, rec, recVerdict, jnlVars, callVars,
                 drvVars, robbed, inFlightWhenLost, lateRuns, strayClaims, raced>>

\* The job is reported and its journal entry forgotten; a record evicted under
\* its sender leaves nothing to change.  The delivery claim goes last.
Reported(r, j) ==
  /\ Up(r) /\ snd[r][j] = "end"
  /\ snd' = [snd EXCEPT ![r][j] = "off"]
  /\ tried' = [tried EXCEPT ![r][j] = {}]
  /\ rec' = [rec EXCEPT ![r][j] = IF Present(r, j) /\ tried[r][j] # {} THEN "reported" ELSE @]
  /\ jnlUrls' = [jnlUrls EXCEPT ![j] = IF tried[r][j] # {} /\ ReplicaOf[j] = r THEN {} ELSE @]
  /\ UNCHANGED <<now, rowVars, stepRows, life, leases, recVerdict, recUrls, jnlVerdict,
                 callVars, drvVars, histVars, mishaps>>

-----------------------------------------------------------------------------
\* The environment.

\* Time passes once every replica that is up has run the heartbeats that are
\* due and is not in the middle of an accept, a dispatch of a step or a delivery.
Tick ==
  /\ now < MaxTime
  /\ \A r \in Replicas : Up(r) =>
       /\ \A l \in leases[r] : drv[l[1]] # "none" => beat[l[1]] > now
       /\ \A c \in Calls : ReplicaOf[c] = r => /\ pc[c] \notin {"evicted", "won", "attached"}
                                      /\ drv[c] \notin {"settle", "journal"}
                                      /\ \A s \in Steps : step[c][s] # "claimed"
       /\ \A j \in Calls : snd[r][j] = "off"
  /\ now' = now + 1
  /\ UNCHANGED <<rowVars, stepRows, life, leases, recVars, jnlVars, callVars, drvVars,
                 sndVars, histVars, mishaps>>

\* Jobs whose published verdict r has still to deliver: nobody else will.  The
\* journal does not help a destination another replica attached, nor a verdict
\* taken from a claim, which is never journaled.
Unsent(r) == {j \in Calls : snd[r][j] # "off" \/ (ReplicaOf[j] = r /\ drv[j] = "journal")}

\* A replica stops making progress, and wakes up believing what it believed.  Its
\* drivers are no longer punctual, however far ahead its clock is.
Stall(r) ==
  /\ Up(r) /\ Mishap
  /\ life' = [life EXCEPT ![r] = "stalled"]
  /\ missed' = [j \in Calls |-> IF ReplicaOf[j] = r THEN Lease + Skew[r] ELSE missed[j]]
  /\ excused' = excused \cup Unsent(r)
  /\ UNCHANGED <<now, rowVars, stepRows, leases, recVars, jnlVars, callVars, drv, step, beat,
                 sndVars,
                 told, robbed, inFlightWhenLost, lateRuns, strayClaims, raced>>

Wake(r) ==
  /\ life[r] = "stalled"
  /\ life' = [life EXCEPT ![r] = "up"]
  /\ UNCHANGED <<now, rowVars, stepRows, leases, recVars, jnlVars, callVars, drvVars,
                 sndVars, histVars, mishaps>>

\* A crash takes the records, the leases, the drivers and the senders with it.
Crash(r) ==
  LET mine(j) == ReplicaOf[j] = r IN
  /\ life[r] # "down" /\ Mishap
  /\ life' = [life EXCEPT ![r] = "down"]
  /\ leases' = [leases EXCEPT ![r] = {}]
  /\ rec' = [rec EXCEPT ![r] = [j \in Calls |-> "absent"]]
  /\ recVerdict' = [recVerdict EXCEPT ![r] = [j \in Calls |-> NoVerdict]]
  /\ recUrls' = [recUrls EXCEPT ![r] = [j \in Calls |-> {}]]
  /\ pc' = [c \in Calls |-> IF mine(c) /\ pc[c] \in {"evicted", "won", "attached"}
                           THEN "lost" ELSE pc[c]]
  /\ dropping' = [c \in Calls |-> IF mine(c) THEN {} ELSE dropping[c]]
  /\ drv' = [j \in Calls |-> IF mine(j) THEN "none" ELSE drv[j]]
  /\ step' = [j \in Calls |-> IF mine(j) THEN [s \in Steps |-> IF step[j][s] = "claimed"
                                                               THEN "sent" ELSE step[j][s]]
                              ELSE step[j]]
  /\ snd' = [snd EXCEPT ![r] = [j \in Calls |-> "off"]]
  /\ tried' = [tried EXCEPT ![r] = [j \in Calls |-> {}]]
  /\ excused' = excused \cup Unsent(r)
  /\ UNCHANGED <<now, rowVars, stepRows, jnlVars, target, seen, fence, beat, missed,
                 told, robbed, inFlightWhenLost, lateRuns, strayClaims, raced>>

\* The restart answers what its journal still owes: the verdict, or errored.
Restart(r) ==
  LET owed == {j \in Calls : ReplicaOf[j] = r /\ jnlUrls[j] # {}}
      says(j) == IF jnlVerdict[j] = NoVerdict THEN "errored" ELSE jnlVerdict[j]
  IN
  /\ life[r] = "down"
  /\ life' = [life EXCEPT ![r] = "up"]
  /\ told' = told \cup UNION {{<<u, j, says(j)>> : u \in jnlUrls[j]} : j \in owed}
  /\ jnlUrls' = [j \in Calls |-> IF j \in owed THEN {} ELSE jnlUrls[j]]
  /\ UNCHANGED <<now, rowVars, stepRows, leases, recVars, jnlVerdict, callVars, drvVars,
                 sndVars, robbed, inFlightWhenLost, lateRuns, strayClaims, excused, mishaps, raced>>

-----------------------------------------------------------------------------
Next ==
  \/ \E c \in Calls :
       \/ Evict(c) \/ ForgetEvicted(c) \/ AdmitWon(c) \/ AdmitAttached(c) \/ AdmitFails(c)
       \/ Start(c) \/ NotDurable(c) \/ Attach(c)
  \/ \E r \in Replicas, j \in Calls :
       \/ \E s \in Steps : ClaimStep(r, j, s) \/ Assign(r, j, s) \/ NoCapacity(r, j, s)
       \/ Renew(r, j) \/ Decide(r, j) \/ Settle(r, j) \/ Retire(r, j)
       \/ Pass(r, j) \/ Reported(r, j)
  \/ \E r \in Replicas : Stall(r) \/ Wake(r) \/ Crash(r) \/ Restart(r)
  \/ Tick

Spec == Init /\ [][Next]_vars

-----------------------------------------------------------------------------
\* Properties.

\* A driver that is alive and punctual keeps its tree: while it has lost no more
\* renewals in a row than the lease allows for at the clocks' skew, no other
\* replica's admit takes the claim over (heartbeat, renew_every, TAKEOVER).
LiveDriverKeepsItsTree == robbed = {}

\* Once its claim has been taken over a driver hands the fleet nothing but the
\* steps it had already claimed (claim_step's fence, held across assign).
FencedStopsDispatch == lateRuns \subseteq inFlightWhenLost

\* A step claim of a driving job belongs to a step that is with the fleet or on
\* its way there, unless the reply that granted or returned it was lost: a claim
\* nobody is using means the step never runs (pump's release_step).
ClaimIsUsed ==
  \A k \in stepRows :
    (\E r \in Replicas : Leased(r, k[1])) /\ drv[k[1]] = "drive" /\ step[k[1]][k[2]] = "ready"
      => <<k[1], k[2]>> \in strayClaims

\* FencedStopsDispatch and ClaimIsUsed: a step goes to the fleet under a claim, and a
\* claim belongs to a step that goes there.
DispatchIsClaimed == FencedStopsDispatch /\ ClaimIsUsed

\* Hull has been told of the tree at u.
Told(u, t) == \E v \in Statuses, j \in Calls : TreeOf[j] = t /\ <<u, j, v>> \in told

\* Where an acked dispatch can still be answered from: Hull has it; the claim of
\* its tree carries it to the driver, to a later dispatch or to a takeover; a
\* journal entry; or a record that has still to deliver.
Answerable(c) ==
  LET u == UrlOf[c] t == TreeOf[c] IN
  \/ u \in rowUrls[t] \/ Told(u, t)
  \/ \E j \in {i \in Calls : TreeOf[i] = t} :
       \/ u \in jnlUrls[j]
       \/ \E r \in Replicas :
            /\ u \in recUrls[r][j]
            /\ rec[r][j] # "absent" /\ (rec[r][j] = "reported" => snd[r][j] # "off")

\* An acked destination is not lost between replicas.  The exception is a tree one of
\* whose jobs was undone for want of a journal entry, could not publish its verdict or
\* read the destinations back, stopped between publishing and delivering, was evicted
\* while a sender or its driver was still to deliver, or got the destination when its
\* own sender had read them for the last time (which is module Outbox's subject).
NoAckIsForgotten ==
  \A c \in Calls : pc[c] = "acked" =>
    Answerable(c) \/ \E j \in excused \cup raced : TreeOf[j] = TreeOf[c]

Quiet(t) ==
  /\ drv[rowJob[t]] \notin {"settle", "journal"}
  /\ \A r \in Replicas, j \in Calls : TreeOf[j] = t => snd[r][j] = "off"
  /\ \A c \in Calls : pc[c] = "attached" => target[c] # rowJob[t]

\* A dispatch that was not acked may have put its destination on the claim: Hull asks
\* again.
Unacked(u, t) == \E d \in Calls : TreeOf[d] = t /\ UrlOf[d] = u /\ pc[d] \in {"refused", "lost"}

AllTold(t) ==
  \A c \in Calls : pc[c] = "acked" /\ TreeOf[c] = t /\ UrlOf[c] \in rowUrls[t] =>
    Told(UrlOf[c], t) \/ Unacked(UrlOf[c], t)

\* Once a verdict is published and nobody is delivering it, every destination on
\* its claim has been told, with the same exceptions (raced: the driver found a sender
\* at work that had already read the destinations for the last time) and one more: a
\* destination that a refused or lost dispatch put there.  Otherwise the driver's sender
\* reads them after settle, and whoever attaches later sees the verdict.
SettledIsDelivered ==
  \A t \in Trees : rowVerdict[t] # NoVerdict /\ Quiet(t) =>
    rowJob[t] \in excused \cup raced \/ AllTold(t)

\* The same without that exception, as finish states it: a sender that is already
\* at work when the driver wants to report "delivers exactly the same thing".
SenderAtWorkCarriesAll ==
  \A t \in Trees : rowVerdict[t] # NoVerdict /\ Quiet(t) => rowJob[t] \in excused \/ AllTold(t)

\* PgClaims keeps the promises of the JobClaims trait.
Seam == INSTANCE ClaimSeam WITH
  Jobs <- Calls, Answers <- Statuses, NoAnswer <- NoVerdict,
  holder <- rowJob, dests <- rowUrls, answer <- rowVerdict,
  minted <- {c \in Calls : fence[c] # 0}

KeepsTheSeam == Seam!Spec
=============================================================================
