# hull-ci in TLA+

hull-ci is a CI runner. Hull, the forge, dispatches a *tree* to it over HTTP with a callback url;
the runner acknowledges, fetches the tree, plans a pipeline of steps, runs the steps in sandboxes on
nodes, folds them to one verdict (`green`, `red` or `errored`) and posts the verdict to the callback.
The promise to Hull is short: every acknowledged dispatch is answered, once, with a verdict that says
what happened. The runner is a set of async tasks over a handful of mutexes, with a write-ahead
journal below it. What is hard about it is not any single function but what happens between them: between
two lock acquisitions of one task, another task does something. These modules put the tasks side by
side at the granularity of the locks and ask whether the promise survives.

Paths below are relative to `src/crates/`.

## Inventory

| Component | State it keeps | Operations | Talks to |
|---|---|---|---|
| Ingest and delivery: `hull-ci-control/src/control.rs`, `store.rs`, `ingest.rs`, `callback.rs` | `JobStore` (record, verdict, callback urls, `delivering`) | `accept`, `finish`, `report`, `drain_undelivered`, `evict` | claims, journal, Hull's callback |
| Journal: `hull-ci-server/src/journal.rs` | one file per job: urls, verdict | `record`, `forget`, `outstanding`, `recover` | file system; runs before the listener opens |
| Claims: `hull-ci-control/src/claims.rs` (one process), `hull-ci-server/src/claims.rs` (Postgres, replicas) | tree -> job, urls, verdict, step claims, owner, fence, lease | `admit`, `renew`, `claim_step`, `release_step`, `settle`, `forget` | every driver |
| Driver: `control.rs` (`drive`, `phase_*`, `finish`, `retire`) | job and step states, wakers | fetch, plan, memo, loop of sweep/advance/fold/pump/sleep, cancel | scheduler, fleet, fetcher, planner |
| Plan graph and aggregation: `graph.rs`, `aggregate.rs`, `model.rs` | none (pure) | `advance`, `fold` | driver |
| Clocks: `timeouts.rs` | queue-wait, step, job, lease deadlines | `sweep`, `earliest` | driver |
| Scheduler: `fairshare.rs` | placements, virtual time, cost estimates, node-minutes | `reconcile`, `select`, `release`, `requeue`, `forget_job` | `pump`, from every driver |
| Fleet and node agent: `hull-ci-server/src/node.rs`, `hull-ci-node/src/agent.rs` | running tasks, `slots_free` | `assign`, `cancel`, `execute`, `deliver` | control (`record_step_report`) |
| Warm pool, sandboxes, capture: `hull-ci-node/src/{pool,container,sandbox,local,process,capture,env}.rs` | warm members, containers, mounts, output buffers | claim, refill, spawn, run, kill, drop, reap | node agent, docker |
| Workspaces: `hull-ci-server/src/workspace.rs` | a private copy of a tree per step | materialize, remove | fleet, content store |
| Step memo: `hull-ci-control/src/memo.rs` | key -> result, per tenant and class of author | lookup, store, evict | driver |
| Fetch broker, content store: `hull-ci-fetch/src/{lib,store}.rs` | trees, blobs (hard links), staging, use stamps, pins, cooldown | `ensure_tree`, `open`, `commit`, `reclaim` | driver, workspace; file system |
| Extraction, digests: `hull-ci-fetch/src/{extract,digest,verify}.rs` | none | extract, verify, select, digest | fetch broker, memo |
| Secrets: `hull-ci-secrets` | capabilities, sealed values, data keys, cached key ids | mint, redeem, revoke, put, rotate, shred | node agent, fleet, key service |
| Package proxy: `hull-ci-proxy`, `hull-ci-server/src/proxy.rs` | grants, token buckets, credential slots, audit log | authorize, forward, redirect, release | sandboxes, upstreams, secret broker |
| Planner: `hull-ci-plan`, `hull-ci-server/src/pipeline.rs` | none (a child process) | read, measure, evaluate, record, validate | driver |
| HTTP surface and panel: `ingest.rs`, `auth.rs`, `snapshot.rs`, `hull-ci-server/src/admin.rs` | none of its own | dispatch, views | Hull, operators |
| Composition root, configuration: `hull-ci-server/src/{lib,config,membership,secrets}.rs` | none of its own | `from_env`, `assemble`, `run` | all |

What makes each of them correct, and what is hard about it:

* **Ingest and delivery.** An ack is durable; an acknowledged dispatch is answered or parked; Hull
  hears one verdict per job; at most one sender delivers a job. Hard: `accept`, the job's driver,
  duplicate dispatches and senders all touch one record under a lock that each of them drops between
  steps, and the process may die between any two.
* **Claims.** A punctual driver keeps its tree, a superseded one starts nothing new, and no destination is
  lost between replicas. Hard: leases are compared on clocks that differ, and a statement may commit
  without its caller hearing of it.
* **Driver, scheduler, fleet.** Green means every step earned it; red means the code failed; a step
  runs once and after what it needs; nobody waits for nothing; a tenant pays for what it uses. Hard: `pump`
  is run by *every* driver and hands out steps of *every* job, so the assignment of a step races its own
  driver's sweep, fail-fast and job clock, and reports race all of those.
* **Node.** No container serves two steps, a step finds its own files and nothing else, nothing docker was
  asked for is forgotten, a report is about the command, and what is claimed of a sandbox is in force.
  Hard: every docker command may fail or succeed unheard, and a run is a future that may be dropped
  at any await.
* **Content store and trees.** A tree somebody was given stays until it is let go of; a visible tree has
  every file, with the verified bytes and mode; a sweep clears what is unused and nothing else; two trees
  with one address are one tree. Hard: fetches and sweeps walk the same directories with no lock but the pin
  table's, files are shared inodes whose link count decides what is garbage, and a SIGKILL or a refused link
  may come between any two system calls.
* **Secrets and proxy.** A capability is spent once, a shredded value stays shredded, a stored one stays
  readable through a rotation, a credential goes only where it belongs. Hard: callers race for one
  capability, rotation walks rows that others write, and a redirect may leave the host that was allowed.
* **Memo.** What is served was earned by this tenant on these files. Hard: a key covers the keys of the steps
  before it, and some of those have none.
* **Planner.** What runs is what the author wrote, or nothing. Hard: the evaluation may be stopped anywhere.

## Modules

| Module | Models | Composes |
|---|---|---|
| `JobModel` | the states of a job and a step and the edges between them (`model.rs`) | |
| `Outbox` | `accept`, `finish`, `report`, `drain_undelivered`, eviction, `LocalClaims`, the journal, crash and recovery | `JobModel` |
| `ClaimSeam` | what the trait `JobClaims` promises, abstractly | |
| `Claims` | `PgClaims` under `accept`, `pump`, `heartbeat`, `finish`, `report` of several replicas | `JobModel`; implements `ClaimSeam` |
| `StepGraph` | `graph::advance` (as the loop, and as a definition) and `aggregate::fold` | `JobModel` |
| `PlanDrive` | one job's steps from plan to verdict: the loop of `phase_run` around both | `StepGraph` |
| `Pipeline` | drivers, `pump`, queue placement, clocks, step claims, one-node fleet and agent | `StepGraph` |
| `NodeRuns` | `run_inner`, containers, the warm pool, grants of a run, restart of a node | |
| `TreeStore` | fetch broker and content store of one tenant: open, commit with dedup, sweeps, crash | |
| `OutboxProofs`, `ClaimsProofs`, `PipelineProofs`, `NodeRunsProofs`, `TreeStoreProofs` | theorems | their subjects |
| `ServiceProofs` | theorems about what `Pipeline` gives a ready step | `PipelineProofs` |
| `SecretsProofs` | theorems about the broker and the package proxy | `PackageProxy`, which composes `Secrets` |
| `RulesProofs` | theorems about the small machines and rules | `PlanDrive`, `PlanChild`, `OutputCapture`, `KmsClient`, `Bindings` |

The modules below keep no state that another of them shares. `MCRules` puts them side by side: a behaviour
of it belongs to one part, which is a small machine or one call of a function over all of its inputs.

| Module | Models |
|---|---|
| `SandboxPolicy` | the network probe, what a node claims and what a container really enforces, command lines, pool keys |
| `StepPlacement` | from a dispatch to the spec of a sandbox: job, tree, plan, assignment, capability, heartbeat (over `SandboxPolicy`, `PlanValues`, `Startup`) |
| `OutputCapture` | the ring of a step's output, its trimming and counters, the masking of its tail |
| `StepReport` | a run on the local backend, the report of a run, what the control plane keeps of it, verdict and summary |
| `Planner`, `PlanValues`, `PlanChild` | the recorder behind the builtins and the guard on shape; names, timeouts, shards, messages, clocks, detection; the child process with its clock and its allocator |
| `WireNames` | repo names and tenants, path segments, log keys, summaries |
| `Door` | authentication and ingest, the attempts of a callback, snapshot and panel (over `StepPlacement`) |
| `Secrets`, `Bindings`, `KmsClient` | the broker with capabilities, sealed rows and key versions, by concurrent callers; what is bound and signed; the client of the key service from two replicas |
| `PackageProxy`, `Allowlist`, `ProxyRoutes` | requests, redirects, credential slots, buckets and audit; the screen on paths; configuration, urls and log |
| `StepMemo` | keys, lookups, writes, expiry, eviction (over `TreeDigest`) |
| `TreeDigest`, `Extract`, `Workspace` | globs and addresses; archives entry by entry; the copy a step runs on |
| `FairQueue` | virtual time, estimates, true-up, caps, the ledger, depth and admission |
| `Startup` | every kind of variable and its default, trusted tenants, development secrets, the secret plane, the order of start-up with its refusals |

Optional values are sets of at most one member; a parser answers with the set of what it read. A string is
a sequence of symbols, one for each class of characters that the code tells apart, and only where a property
is about the string. Ciphers, signatures and hashes are injective; docker, the key service, Postgres, the
Starlark interpreter and Hull are external and modelled by how the code uses them. Operators named after a
definition with a suffix and a comment that begins `Mutant` are what a bug there would look like; the
properties are shown to notice it.

**Outbox.** A job is named after the call of `accept` that won its claim. Every action is one critical
section of the code: `Arrive` is `evict` under the jobs lock, `ForgetEvicted` the loop of
`claims.forget` after it, `AdmitCreated`/`AdmitAttached` the two answers of `LocalClaims::admit`,
`Insert`, `AttachHere`, `AttachElsewhere` and `RecordForeign` what `accept` does with them,
`Snapshot`/`WriteIntent` the two halves of `journal_record` (the entry is built under the lock and
written after it), `RefuseNotDurable`, `UndoRecord` and `UndoClaim` the rollback, `Start`, `ReReport`,
`Scan`, `Redeliver` and `Ack` the rest. `Decide`, `Settle`, `SnapshotVerdict`, `WriteVerdict`, `Send`
are `finish`; `Merge`, `Read`, `Post`, `SettleReport`, `ForgetEntry`, `Release` are `report`. `Post` is
one destination with all its retries: Hull heard and we know, Hull heard and we do not, or nothing
arrived. `Crash` keeps `entries` and nothing else; `Recover` and `Serve` are the next start. The
pipeline between `accept` and `finish` is one choice of verdict, which `Pipeline` opens up.

**Pipeline.** One driver per job. `Begin` ... `PushSteps` are the phases; `FoldPass` is one pass of the
loop of `phase_run` under its lock (`sweep`, `advance`, `fold`); `Select` is `reconcile` and `select`;
`Claim`, `AssignLeased`/`AssignRejected`/`AssignFull`, `Settle`/`SettleFull`, `Drop`, `EndPump` are
`pump` for one grant at a time; `Notified` and `DeadlineWakes` are the `select!` the driver sleeps in;
`LookInFlight`, `CancelStep`, `MarkSkipped` are `cancel_steps`; `Finish`, `Retire`, `SelectForOthers`,
`Reported` are the end. `RunStarts` ... `ReportRefused` are one run on the node. Abstracted: durations
(a clock is a flag that may be raised at any time), the weighted-fair order and the node-minute ledger
(any grant within slots and caps that leaves nothing admissible waiting; `FairQueue` has both), and what
happens inside a sandbox (one outcome; `NodeRuns` has it).

**TreeStore.** Files are names of inodes: `entry` (in trees), `blob`, `staged`, `link` (the scratch name of
`link_blob_over`), `grave` and `tomb` (what a sweep has renamed away); `Nlink` counts them as `st_nlink`
does. An inode is named after the extraction that made it, and `Is` says it has the bytes and mode a tree
entry asks for. One action is one system call another task can notice. `Open`, `OpenHit`, `OpenMiss`,
`StampHit` are `open`; `Commit` ... `StampPublished` are `commit` with `share_one`
(`ShareCreates`/`ShareExists`/`ShareRefused`), `share_with_existing_blob` and `link_blob_over`
(`LinkBlob`, `Swap`, `LinkGone`, `Retry`); `Grown` is `reclaim_after_commit`. A sweep is `SweepBegins`;
`ReadStamp`, `Condemn` and `CloseGrave` (`reclaim_trees`: `Condemn` is the one step that holds the pin
lock); `CheckStamp`, `RemoveStamp`; `ListBlobs`, `StatBlob`, `TakeBlob`, `RestatBlob`, `RestoreBlob`,
`UnlinkTomb` (`sweep_blobs`, `reclaim_one_blob`); `SweepEnds`. A directory listing returns what was there
when it was opened and may return what came later. With `IoFails` any write, link, rename or directory
creation may be refused. One tenant is enough: every path, the pin table and the cooldown are keyed by
the tenant. Left out: symbolic links and directories of a tree (never shared), `reclaim.enabled = false`,
and a `stat` that fails for another reason than absence. Download, extraction and verification are one
outcome here: a staged tree is the verified one (`Extract` and `TreeDigest`).

**Claims.** A statement of `PgClaims` is one atomic step that may fail before it commits or lose its reply.
Each replica reads its own clock. `Evict`, `ForgetEvicted`, `AdmitWon`, `AdmitAttached`, `AdmitFails`,
`Start`, `NotDurable`, `Attach` are `accept`; `ClaimStep`, `Assign`, `NoCapacity` are `pump`; `Renew` is one
beat of `heartbeat`; `Decide`, `Settle`, `Retire` are `finish` and `retire`; `Pass` and `Reported` are
`report`. `Stall` and `Wake` stop and resume a replica's heartbeat, `Crash` and `Restart` the replica.
`KeepsTheSeam` is the refinement: the row of a tree is ClaimSeam's `holder`, `dests` and `answer`.

**NodeRuns.** A step ends at an await of the docker CLI. A run claims a warm member (`Claim`, adopting the
workspace entry by entry) or is created cold; a command fails, or does its work unheard; the future is
dropped at any await, whose destructor's task removes the container later or not; the pool is refilled, makes room,
and discards; the process dies and the reaper removes what carries its label. `Exit` is a command that came to
its end. `Unattached` is one the CLI was taken off: killed at the timeout, when the kill of the container may
fail, or its pipes or its wait failed; the container then runs on until `Destroy` or the reaper. What clears up
may fail in its turn: an inspection that goes unheard discards a live member (`DiscardDead`), and that removal, or
the one after a failed adoption (`AdoptFails`), may leave the container to the reaper (`RemovedOrLeft`); a CLI that
cannot be spawned makes the step `errored` (`Launch`).

**StepGraph.** `AdvanceLoop` is the code: passes against a snapshot until nothing changes, then break
cycles. `Advance` says what that should come to: exactly the smallest set closed under "needs something
blocked" is skipped. `Pipeline` uses `Advance`; that the loop computes it is a theorem (`LoopIsAdvance`), and a
part of the run `rules`. `PlanDrive` runs the loop on every plan, those the planner would refuse included.

**OutputCapture.** `Push` is `push` with a chunk of up to `MaxChunk` bytes, `Trimmed` is `trim` with the counts it
keeps, `Finish` is `finish` and `redact_with`. `Masked` is the loop of `replace_all` (`ReplaceFrom`) and `Mask` the one
of `mask_bytes` over the values, longest first. What a value is replaced with is one symbol that no output has:
the code's `***` is shorter than the shortest value it masks (3 bytes against 6), so it never makes the output longer
either, but a secret that has `***` in it could come about around a mask, which the model leaves out.

## Runs

All but `outbox_lost_destination` pass.

| Run | Question | Bounds |
|---|---|---|
| `outbox_crash` | Does an acknowledged dispatch survive crashes, and does Hull hear one verdict? | two calls on two trees with two urls, a store of one job so that eviction presses, two crashes (the second may hit the recovery of the first) |
| `outbox_duplicates` | One sender per job, and is every owed verdict on disk? | three calls on one tree, the smallest number with a creator and two racing duplicates; the journal may refuse |
| `outbox_retention` | Is a verdict ever made up when records and claims age out? | three calls on one tree, eviction at any arrival |
| `outbox_liveness` | Is every acknowledged dispatch answered or parked? | two calls, weak fairness |
| `outbox_lost_destination` VIOLATION | the same, when the duplicate brings its own url | |
| `claims_core` | Who owns a tree, who may start a step, who answers, and is the seam kept? | two replicas whose clocks differ by a tick, three dispatches of one tree to two urls, a lease of three beats, one lost statement, reply, replica or heartbeat, a journal that may refuse |
| `node_core` | Is a sandbox one step's own, is a report earned, is everything cleaned up? | three steps of two jobs and two pool keys, a pool of one, two mishaps (refusal, failure, unheard answer, timeout, drop or crash): the second may hit the clean-up of the first; the names of pool members are interchangeable (symmetry) |
| `pipeline_core` | Are verdicts earned, steps launched once and in order, ready steps queued and capacity used? | two jobs of two tenants, three steps with a dependency, one slot, a tolerated memoized step, a step clock and a job clock, node errors |
| `pipeline_liveness` | Does every job get a verdict? | two jobs with a step each, a fleet that may always be full, a refused step, exhausted tenants, failing phases |
| `tree_store_core` | Are held trees there and visible trees whole, and is a sweep thorough? | two fetches of one tree, a third of a tree with the same bytes under the same and another mode, one sweep, one SIGKILL: the sweep may come after it; the two fetches of one tree are interchangeable (symmetry) |
| `tree_store_faults` | the same with refusals and crashes, and does every way out give its pin back? | two fetches of one tree with one file, two sweeps, two SIGKILLs, any write, link or rename refused; fetches and sweeps are interchangeable (symmetry) |
| `rules` | Does each of the parts in the second table do what it says, on all of its inputs? | below |

Two actors are enough for every race in the lists below: each needs one task that holds something
between two locks and one that looks at it meanwhile; a third call is there where a creator and two
duplicates can meet. TLC's deadlock check is off because a runner with nothing to do stops.

`outbox_crash` gives each tree one call. With two calls on one tree the code does have the traces of
the next section; the runs say where it is right and the violation where it is not. In the same way
`claims_core` names the jobs its properties leave out (`excused`, `raced`) and the comment on each property
says which they are.

The properties of `rules`, each a conjunction whose parts are stated in the module they are about:

| Property | What it shows, of all inputs within the bounds |
|---|---|
| `GreenIsComplete`, `EveryPlanIsDecided` | the loop of `advance` computes its definition, on every plan over three steps, cyclic and dangling ones too; green covers every step, and no pass leaves the driver waiting for nothing |
| `CaptureIsSound` | however output is chunked, the reported tail is the end of what was printed, within its caps, counted, and shows no delivered secret |
| `PlanIsTheAuthors` | a recorded plan is acyclic and complete or is nothing; timeouts, shards, names and limits mean what was written, at the edges of their ranges too; what a plan asks for and the runner does not do is warned about |
| `EvaluationIsContained` | the parent believes only a whole answer, wherever clock or allocator stops the child |
| `RunsUnderItsClaims` | a clause a node claims is in force in the cold and in the warm container of every job it does not refuse, whatever of the daemon's answers arrived; a step is placed with its own tenant's name, secrets and limits; configuration means what it says and start-up is whole or refused |
| `NamesStayHome` | a tenant has one name; a log key stays under its job; what is shown is one inert line; the door, a callback's attempts and the panel do no more than they may: a view does not depend on what it must not show; a verdict and its text say how the step ended |
| `SpentOnce` | a capability hands its values over once, whoever races for it, and not after its revocation |
| `KeysGovernValues` | a row can be read in the middle of a rotation and not after a shred; two replicas' calls on one key end as they are reported to; nothing bound to one context opens in another |
| `ProxySpendsWithCare` | a credential follows no redirect away from its host, a job's end stops its requests, each is audited once, the bucket holds whatever the clock does, no path climbs out of its base |
| `TreesAreTheirAddress` | an archive is extracted as the tree it lists or refused; a digest tells apart what its glob selects and nothing else; a workspace is a copy that no job's write leads out of |
| `HitIsEarned` | a memo hit was run before, for this tenant and class, on these files after these steps, recently enough |
| `TurnsArePaid` | virtual time is what a tenant used over its weight; caps, the ledger and the fleet hold; what a tenant is told of its queue is so |

Bounds of `rules`: every constant that is a size (caps, limits, lengths, clocks) is as small as lets it be
missed, met and passed; strings are a few symbols long, enough for a separator with something on each side of it
and one symbol too many; two callers, requests or jobs race where something is shared, and they are
interchangeable (`Symmetry`). The broker starts with the proxy's capability of a job minted (`BrokerInit` counts
that call); a node's for the same job may follow, and an outsider's job asks for one. Three further broker calls let
a rotation meet a shred, a provision and a put, and three calls of the key service's client with one lost message let
a retry meet another replica. The clock of the queue stops after the tick in which a true-up follows a grant.

**Fairness.** `Outbox`: every spawned task keeps being polled and an HTTP attempt ends (it has a
timeout); dispatches need not arrive and nothing forces a crash. `Pipeline`: drivers and runs are
tasks and get polled, a fetch, a plan and a sandbox end (each has a wall clock), and the job clock runs
out. Weak fairness per task is all that is used, since a task is only ever disabled by its own step or by
waiting for a permit that stays stored. The other specifications state safety only.

## What the violation shows

`outbox_lost_destination`. `report` reads the destinations for the last time, finds nothing new, and
gives the delivery claim back several steps later. A duplicate that attaches a new url in between
finds the claim held and starts no sender. It is acknowledged and never answered.

TLC finds these too, with the properties as they stand in the modules and other constants or without an
exception a property names; they have no run of their own:

* `OneAnswer`, two calls on one tree and a crash: `finish` makes the verdict visible before it journals
  it; a duplicate re-reports it at once, and a crash before the journal write makes recovery say `errored`.
* `PaidIsForgotten`, two calls on one tree: a duplicate journals a snapshot it took before the verdict
  after the delivered entry was forgotten; the next start answers `errored` for a paid job.
* `NothingLostAtRest` with `JournalFails`: a duplicate attaches, journals and is acknowledged while the
  creator is rolling the job back.
* `AckIsDurable`, two calls on one tree and a crash: a duplicate between the creator's `admit` and its
  `insert` takes the "held elsewhere" branch, which journals nothing.
* `OneSender` with `Evicts`, three calls: eviction drops a record whose delivery is running, and
  `record_foreign_verdict` inserts one that carries no delivery claim.
* `SenderAtWorkCarriesAll` (`control.rs:1500-1504`): the driver finds a sender at work that has already read
  the destinations for the last time. Also in `Claims`: the urls of a settled claim are lost when the
  driver's replica crashes before it delivers; a foreign verdict that is re-reported is not journaled;
  `NotDurable`'s `forget` takes other replicas' urls with it; a lost reply to `claim_step` or `release_step`
  strands the step; a step claimed before a takeover is still assigned after it (`claims.rs:76-79`), and a
  superseded driver's `finish` still reports.
* `InTimeCounts`, a step with a longer clock of its own (in `LongSteps`): a lease lasts for the default step clock
  and nothing in production calls `renew_lease`, so a report within the step's own clock is refused.
* `ReadyIsQueued` with `FleetFills`: `reconcile` requeues a step that another pump was granted and is still
  placing. If that pump gets `NoCapacity` and requeues, and the second, which found the claim taken,
  releases, the step is in no queue and its driver sleeps until the queue-wait clock (`fairshare.rs:507`).
* `SeedsDevOnly` in `Startup`: development secrets are seeded into a kms broker too (`lib.rs:207-211`);
  the comment on `Config::dev_secrets` says they are for the dev broker.
* `NothingLeftRunning`: `cancel_steps` cancels what is leased or running. A step being handed out by
  another driver is neither: it becomes skipped and its sandbox runs on (`control.rs:1390`).
* `WithinSlots` with an expiring step: `sweep` errors a leased step and tells the node nothing.
* `SlotsComeBack` with a cancelled run: `InProcessFleet::cancel` aborts the task before it returns the slot.
* `UsedIsKept` in `TreeStore`: `reclaim_trees` reads the stamp before it takes the pin lock; a tree that is
  opened, stamped and let go of in between is removed though it was just used. It costs a download.
* `RunKeepsItsGrant`: a job's step that ends revokes the grants of the job's other steps (`agent.rs:61` against
  `packages.rs:28`). `UnstartedIsErrored`: `docker exec` refusing with an exit code reads as the command's
  (`container.rs:1692-1694`). `SplitIsErrored`: a workspace split by a failing rename is run on
  (`pool.rs:815-817`). `PoolIsCapped`: the caps are checked before the await that creates (`pool.rs:526`);
  mount directories of members nobody remembers are not reaped.
* A `*` that begins a name is not matched by `*` (`digest.rs:364`); a glob that selects only an empty
  directory counts as having selected something (`digest.rs:241-243`).
* Implied parent directories can collide under normalisation (`extract.rs:324-335`), and `max_entries` does
  not count them.
* The true-up refunds what `fairshare.rs:470-476` says a refused tenant keeps paying.
* `rotate` can lose a concurrent `put`, resurrect a deleted row and re-create keys for a shredded tenant;
  with the key service, whose versions start again at one after a shred (against `keys.rs:36-40`), a rotation
  that a shred overtook wraps an old data key under the new key. A `shred` through a stale cached id gets a 404
  and reports success while the current key survives; a stale id makes `decrypt` fail until the next lookup;
  `wrap_dek` may record an older version than it used (`infisical.rs:497-504`).
* A client that hangs up while it is being forwarded leaves no audit record; `release` revokes grants and
  leaves the credential slot; `assemble` keeps an endpoint that no job can reach when the network is unset.
* With `SecretsMode::Infisical` and no usable service `assemble_infisical` gives up quietly and start-up goes on,
  where `config.rs` says it refuses.
* A cancelled step's copy goes on after the removal and leaves its files (`server/src/node.rs:274-281`).
* `record_step_report` (`control.rs:751-753`) tells every errored step as `infra`, whatever reason the node
  gave (`proto/src/lib.rs:913-921`).
* On the local backend a background process that holds the pipes turns a finished step into a timeout and
  survives the kill (`process.rs:58-63`).
* Step names `a//b` and `/a` are legal and have no log key (`validate.rs:8-12`); a control character before a
  slash defeats the elision of paths in messages (`error.rs:128-147`); `test:::=` reads as a make target.
* `Planner`: code after a raw string's prefix can be missed by the guard on shape; a failed thread start in
  `sandbox.rs` leaves the child unreaped.

By reading only: the posture caveat says containers can talk to each other when the probe's peer failed to
start (`container.rs:246-253`); a tenant's secret may be named like one of the proxy's variables; the panel
never shows `delivering` (`admin.rs:432-462`), which the snapshot keeps for it; the doc of `Config::journal` says off and the
code says on; the rename that publishes a journal entry is not followed by an fsync of the directory.

## Theorems

`OutboxProofs`, for any calls, trees, urls, number of crashes, journal and HTTP outcomes:

* `TypeCorrect`: `TypeOK`. Inductive as `TypeInv`, which adds that a sender that posts and a call that
  answers from a claim do hold a verdict: without it `Post` could tell Hull the absence of one.
* `NeverFabricated`: `NoFabricatedVerdict`, with eviction, refusals and crashes. `TruthInv` follows the
  verdict through every copy (record, claim, journal entry, a call's `seen`, a sender's `carried`) and
  needs that a job's driver decides at most once (`DriverInv`).
* `OneSenderAtATime` and `JournaledWhileOwed`: `OneSender` and `OwedIsJournaled` while retention takes
  nothing. `QuietInv` says what each call may rely on at each of its steps, that a record is decided
  exactly when its driver is past its decision, and that a running sender holds the delivery claim; the
  hypothesis cannot go, see above.
* `AcksAreDurable` and `PaidAreForgotten`: `AckIsDurable` and `PaidIsForgotten` while no two calls meet on one tree
  (`OneCallATree`), with eviction, crashes and a journal that refuses. A job is then its call's alone: `DurableInv` says
  at each step of the call, the driver and the sender what of the job is on disk and whether its url is on the entry
  that is there or about to be, `PaidInv` who is still to forget an entry.
* `OneAnswerAJob`: `OneAnswer` with the same hypothesis and no refused write. `AnswerInv`: of a job
  whose entry has no verdict yet Hull has heard nothing but `errored`, of one whose entry has it, or whose driver
  runs, nothing but what was decided; and before a sender posts the verdict is in the entry that recovery reads.
* `NothingIsLost`: `NothingLostAtRest` while nothing is evicted, refused or killed and a tree has one url (`Undisturbed`),
  with any number of duplicates. `RestInv` says for each place a call can be in who will see that it is answered:
  the driver that has not ended, a sender at work, or the parked verdict.

These hypotheses cannot go: each is the absence of a trace of the previous section.

`ClaimsProofs`, for any replicas, dispatches, trees, plans, lease, heartbeat period, retention, clocks and number of
mishaps:

* `ClaimsTypeCorrect`: `TypeOK`.
* `DriversKeepTheirTrees` and `DispatchesAreClaimed`: `LiveDriverKeepsItsTree` and `DispatchIsClaimed`. Fencing:
  rows, leases and step claims all carry the fence their job won (`RowInv`, `LeaseInv`, `StepRowInv`), so
  what holds a row is what won it last, and a statement of a superseded driver finds nothing. `BeatInv`
  bounds, for a driver that has not stalled, the expiry of its row from below by its next beat, the lease and
  the renewals it has lost in a row: a takeover needs the expiry to be past, and it is not.
* `AcksAreKept` and `SettledAreDelivered`: `NoAckIsForgotten` and `SettledIsDelivered`. Neither is inductive: a row that
  goes away takes the destinations on it along, so what must be invariant is a statement about everybody who
  could still be served. `CountedInv`: an acknowledged destination was told, or is carried by a sender
  with a pass to come, or is on a row that is unsettled or pending. `DueInv`: a settled row has told its destinations
  or will, but for those that came late. `EndInv`, `DropInv` and `TimeInv` say that everybody on a row is
  served before it may go: once a sender is through, once the job was evicted, once retention has passed.
* `ClaimsKeepTheSeam`: `KeepsTheSeam`, the refinement. `RowInv` makes every action's effect on the row
  one step of `ClaimSeam` or none; `FenceInv` says that a job's claim is won once.

`PipelineProofs`, for any jobs, plans (cyclic and dangling ones too), tenants, caps and slots, and any
answers of fetcher, planner, fleet, node and clocks:

* `TypeCorrect`: `TypeOK`. `HandInv` adds that a driver has a grant in hand exactly while the grant has
  an answer.
* `PlanIsFollowed`: `LaunchedByThePlan`, from `LaunchedOnce` and `LaunchesFollowTheGraph`. `ClaimInv` makes
  the step claim a token: at most one pump holds a granted step, the claim of a launched step is never given
  back, and the node has a run only for a launched one. `pump` never looks at a step's state again after
  `select` granted it, so `OrderInv` follows "its needs are met" through every place that remembers the
  step: store, queue, grants, hand, node. It rests on `ForwardStep`: nothing moves a step that has ended.
* `VerdictsEarned`: `VerdictIsEarned`, from `GreenEarned` and `RedEarned`. `fold` lets a skipped step pass, so
  green is safe only because, until the job is decided, a step is skipped only with one in the job that spoils
  it (`SkipInv`). That in turn is what the least fixed point in `advance` gives (`AdvanceFacts`): with nothing
  blocked and nothing dangling the empty set is closed and nothing is skipped. `RunInv` ties a failed step
  to the one run that failed, or to the memo.

`ServiceProofs` goes on from there, for a fleet that never answers that it is full:

* `ReadyStaysQueued`: `ReadyIsQueued`. Store, queue, claims and pumps learn of a step at different times.
  `QueueInv` says for each step which of their differences may be: a pump has the step, or the step's driver
  stirs (it works, or a permit, its own pump or another one is about to wake it). A pump drops a ready step
  only because the claim was taken, and then the pump that took it still has the fleet's answer to record
  (`AskInv`); what was never ready, or belongs to a retired job, is in no queue (`UnseenInv`); no driver leaves
  a step in flight behind (`RestInv`).
* `NoCapacityIsWasted`: `ReadyIsServed`, when no tenant runs out of minutes. `RoomInv`: a step waits with
  room for it in the fleet and in its tenant's cap only while somebody is on the way to a pump. A
  reconcile or a release that lets go of a slot is always the work of, or witnessed by, one who is. At
  rest the queue's count is the store's (`RestFacts`). It is false for a tenant out of minutes, whose
  steps wait on a free fleet by design, and `FleetFills` breaks `ReadyIsQueued`, see above.

`NodeRunsProofs`, for any runs, jobs, pool keys, names, entries of a workspace, pool sizes and number of mishaps:

* `NodeTypeCorrect`: `TypeOK`.
* `SandboxesAreOwn`: `SandboxIsItsOwn`. `HoldInv` and `ExclusiveInv` give every container one pair of hands (a
  run's, the pool's or a destructor's task's); `UsedInv` makes the name of a new pool member one that
  nobody had, so a late removal by name cannot hit it. With both, a sandbox on its way to a run has run
  nothing and was made for its key (`FreshInv`), and `FilesInv` follows the workspace through adoption.
  Taking a member out of the middle of the pool is a lemma of its own (`WithoutFacts`).
* `ContainersAreAccounted`: `Accounted`, with `SpentInv`: what a run is done with is gone or left to the reaper.
* `ReportsAreEarned` and `GrantsDieWithJobs`: `ReportIsEarned` (`UnreportedInv`: a run reports at its end)
  and `GrantDiesWithJob`.

`TreeStoreProofs`, for any trees, files, contents, fetches, sweeps and crashes, with or without refusals:

* `TypeCorrect`: `TypeOK`, with `CandInv`: what a sweep has in hand is a tree or a key by its phase, and a
  fetch that works on a file has one.
* `TreesStaySafe`: `TreesAreSafe`, from `HeldStays` and `VisibleIsWhole`. `PinInv`: from before it looks until
  it lets go, a fetch is in the pin table, and `Condemn` reads that table in the step that renames. Publishing
  is one rename, so a tree is as good as its staging directory, and staged files are replaced by blobs that
  others made and sweeps move about. `ShareInv` says of every name on that way (staged file, scratch link,
  blob, a blob in a sweep's hand) that its inode has the bytes and mode of its key.
* `NoPinIsLeaked`: `PinsAreReleased`. A pin in the table is that of a fetch which still needs it (`ReleaseInv`).
* `SweepsAreThorough`: `SweepIsThorough`. For a sweep that nobody disturbs `Tidy` says by phases what it has done
  of its trees, stamps and blobs: what it has seen is dealt with, what is left is on its listing. It keeps a blob
  only when that has a second link, and `LinkedElsewhere` turns the count of links into a name that uses it.

`SecretsProofs`, for any secrets, capabilities, signing keys, callers and bounds, on either key service:

* `CapabilitiesAreSpentOnce`: `SpentOnce`. A capability is minted once, and its record comes into the registry in one step
  (`MintInv`, `CapInv`); from then on a record is only worn down: burnt, revoked, swept. Hence a second redemption
  finds none that is usable (`RedeemInv`, `ToldInv`). `revoke_tenant` takes its two locks one after the other:
  `SweepInv` says what the first half has done of what a finished one promises (`CutInv`). Most actions touch
  none of this, which is one lemma about steps (`StepCases`).
* `KeysGovernSealedValues`: `ShredIsFinal` and `StoredIsReadable`, which the runs check as part of `KeysGovernValues`.
  Every step but a shred leaves keys alone or adds to them (`Grows`). `Bound` says of a sealed value wherever it is
  (a row, a caller's hand, a rotation's list) that if its key is there, it is of this epoch or was raced by
  a shred on the kms; `Movable` says it of a data key in the clear: dev has no race because it never uses a
  version number twice, so the version a rotation holds is gone for good.
* `ProxySpendsCredentialsWithCare`: `CredentialStaysHome` and `AuditedOnce` of `PackageProxy`, parts of `ProxySpendsWithCare`,
  while broker and proxy interleave. `ReqInv` says of a request what it holds where: in the places before `send` no
  credential, afterwards its own upstream's; and that one which is late for a revocation finds the capability in `cut`,
  so that `reassert` refuses it (`CutInv` of the broker, which is why the two are proved together). `SlotInv` is about
  the slots that requests share.
* `RatesAreKept`: `RateIsKept`, for any number of requests at any times. `MeterInv`: what was taken and what is left is
  at most the burst and what was earned up to the last refill, which a clock that goes back does not move.

The first three start from capabilities of insiders only, as `mint` makes no others; the second names the two key
services.

`RulesProofs`, about the parts that `rules` puts side by side. The library's induction theorems take a predicate, which
the provers cannot be given; `SetInduction` is induction over a set of naturals, from the least member any set
of them has (`LeastElement`, from the well-foundedness of `<`). From it come `Iteration` (a loop that repeats a step
is well defined), `DownInduction` (a loop from the end of a text) and `FlattenLoop` (a join of sequences).

* `LoopIsAdvance`: for any finite set of steps and any needs, `AdvanceLoop` is `Advance`. `Underway` says what some passes
  have made of a plan: what moved was pending, is errored only if it dangles and skipped only if it is in the least
  closed set. Each pass that changes anything leaves fewer pending, so as many passes as there are steps reach
  a fixed point, and what a fixed point skips is closed.
* `GreenJobsAreComplete` and `PlansAreDecided`: `GreenIsComplete` and `EveryPlanIsDecided`, for any finite set of steps,
  cyclic and dangling plans included. `DriveInv`: a skipped step comes with one that spoils the job.
* `EvaluationsAreContained`: `EvaluationIsContained`, for any budget and sizes. `EvalInv`: what the allocator has counted,
  by what the child is doing, and what the parent has made of it.
* `CapturesAreSound`: `CaptureIsSound`, for output of any length in chunks of any size, any caps, and secrets of any
  length. `TrimFacts` is what one trim leaves (within the caps, from a line's start unless a line was giant), and
  `NewlinesFacts` that lines before and after a cut add up; `CaptureInv` puts them together. For the mask, what a
  pass leaves between two masks is a copy of a stretch of what it was given (`PlainIsCopied`), so a value that is not
  there after its own pass does not come back in a later one.
* `KmsStaysHonest`: `KmsIsHonest`, part of `KeysGovernValues`, for any threads and replicas. `KeyMoves` lists what may become
  of the service's key in a step, and `KmsCallInv` what a call that is under way knows of it, or was told (`met`).
* `SignaturesAreForOneRequest`: `SignedIsAsSent` for the requests of nodes and proxies with any texts in their fields.
  A length says where the next frame begins, so one text is the frames of one sequence of fields (`FramesAreFaithful`).
* `SealedValuesAreBound`: `SealedIsBound`, part of `KeysGovernValues`, for any two secrets on either key service. Its one
  hypothesis is that their data keys differ, as `Vault::seal` draws a fresh one for each. An envelope parses to exactly the
  fields and the key it was made of (`TakeOne`, `EnvelopeIsBound`), so a wrapped key comes out for one tenant, version
  and context (`WrapIsBound`), and contexts of different secrets differ (`ContextsAreFaithful`). Records put together from
  two others then open only if their parts were sealed together (`PartsOpen`).

Assumptions are those the modules name (`OutboxAssumption`, `NoJobAssumption`, `ClaimsAssumption`, `ClaimsNames`,
`PipelineAssumption`, `NoneAssumption`, `NodeRunsAssumption`, `NodeRunsNames`, `StoreAssumption`,
`BrokerAssumption`, `ProxyAssumption`, `PlanDriveAssumption`, `PlanChildAssumption`, `OutputCaptureAssumption`): the
constants have their types and the sentinel is not a member; the proxy's capability is one of the proxy family. One says more. `ClocksAgree`: a published verdict is retained (an hour
by default) for longer than two replicas' clocks are apart. Without it `NoAckIsForgotten` is false: a replica whose
clock is ahead ages out a verdict that the driver's replica has just published and not delivered yet.

Looking for inductive invariants corrected `Claims` in three places and `TreeStore` in one. A stalled replica counts as having missed the
whole lease and its skew, since its clock may be ahead. An evicted job that a duplicate's sender has reported
before its driver retired it is one of the exceptions of `NoAckIsForgotten`. So is, for `SettledIsDelivered`, a
destination that only a refused or lost dispatch put on the claim. In `TreeStore`, `SweepIsThorough` is about a
retention above zero: with zero, which the configuration accepts as "reclaim every tree the moment nothing holds
it", a tree whose stamp is missing is stamped by the sweep that finds it and goes with the next one.

Making definitions provable replaced two that TLC reads in one way and the language in several: the overlapping `CASE` of
`PlanChild`'s verdict is now one decision after the other, as in the code, and the order of the mask's values among
those of one length is any.

Only model-checked, and why:

* Liveness (`AckLeadsToAnswer`, `EveryJobDecided`): the prover does no fairness.
* `AckIsDurable`, `OneAnswer`, `PaidIsForgotten` and `NothingLostAtRest` outside the hypotheses of their theorems, where
  they are false or hold only on the instance a run names.
* All that is stated over a `RECURSIVE` operator: `StepMemo`, `FairQueue`, `TreeDigest`, hence `HitIsEarned`, `TurnsArePaid` and
  the part of `TreesAreTheirAddress` about digests.
* What the remaining parts of `rules` compute for all inputs: `PlanIsTheAuthors`, `RunsUnderItsClaims`, `NamesStayHome`, the
  rest of `TreesAreTheirAddress`, tokens, key names and configuration in `Bindings`, the screens and urls in
  `ProxySpendsWithCare`.

## Not modelled

The parts with status `partly` in `PROJECT.json` say what they leave out: the docker daemon, Postgres, the key
service, the Starlark interpreter and the file system below one system call; the login of the key service's
client; header lists, markup, error texts and log lines; serde's derivations but for the flags a peer leaves
out; a `stat` that fails for another reason than absence; the 16 MiB cap on the planning child's answer
(`MAX_RESPONSE_BYTES`): an answer cut there does not parse and is an internal error, an outcome `PlanChild` has; a
power failure that loses an unsynced directory
entry. Tests, test doubles, benches and build files are not modelled.

## Plan

1. `Pipeline` over `FairQueue`: the order among waiting steps that `Selects` leaves open.
2. An abstract "a tree somebody holds can be read" that `TreeStore` implements, with `Workspace` as its user.
3. Proofs: the virtual time of `FairQueue` and the keys of `StepMemo`, once their recursion is over a function.
