------------------------------ MODULE NodeRuns ------------------------------
(***************************************************************************)
(* One node executing steps in containers:                                 *)
(*   NodeAgent::run_inner (crates/hull-ci-node/src/agent.rs),              *)
(*   ContainerBackend and ContainerInstance (container.rs),                *)
(*   SandboxPool (pool.rs), the single-use guard (sandbox.rs), and         *)
(*   the package grants of a run (crates/hull-ci-server/src/proxy.rs over  *)
(*   crates/hull-ci-proxy/src/grant.rs).                                   *)
(*                                                                         *)
(* A step of the model ends at an await of the docker CLI.  A command may  *)
(* fail, or do its work without our hearing of it; a run's future may be   *)
(* dropped at any await; the process may die and start again.  The daemon  *)
(* is modelled by which containers it has and what runs in them.           *)
(***************************************************************************)
EXTENDS Naturals, FiniteSets, Sequences

CONSTANTS
  Runs, JobOf,      \* assignments on this node, and the job each is a step of
  Keys, KeyOf,      \* PoolKey::for_job of each run
  Names,            \* names of warm members that will ever be created
  Depth, Total,     \* PoolConfig
  Entries,          \* top-level entries of a workspace
  MaxMishaps        \* bound on refusals, failures, timeouts, drops and crashes together

ASSUME NodeRunsAssumption ==
  /\ JobOf \in [Runs -> STRING] /\ KeyOf \in [Runs -> Keys]
  /\ Names \cap Runs = {} /\ Depth \in Nat /\ Total \in Nat /\ MaxMishaps \in Nat

Nobody == "nobody"
ASSUME NodeRunsNames == Nobody \notin Names \cup Runs

VARIABLES
  pc,         \* where each run is
  hold,       \* the container a run has in hand: a member, or its own cold one
  idle,       \* SandboxPool::idle, oldest first: <<key, name>>
  ctr,        \* the daemon: none, created, idle (its argv is a sleep) or job
  made,       \* made[n]: the key container n was created with
  files,      \* where the workspace entries are: files[r] in the run's own
              \* directory, files[n] in a member's mount directory
  dropTasks,  \* containers whose removal a destructor spawned
  grants,     \* GrantRegistry: the runs whose token is on record
  report,     \* the StepOutcome of each run
  up,         \* is the node process alive?
  used,       \* names ever given to a container
  \* -- history --
  ranIn,      \* ranIn[n]: the runs whose command was started in container n
  saw,        \* saw[r]: what the command of r found in its workdir
  fate,       \* what became of r's command
  split,      \* runs whose workspace was left in two directories
  stray,      \* containers an unheard or failed command, or a drop, left behind
  mishaps

daemonVars == <<ctr, made>>
histVars == <<ranIn, saw, fate, split>>
vars == <<pc, hold, idle, ctr, made, files, dropTasks, grants, report, up, used,
          ranIn, saw, fate, split, stray, mishaps>>

Containers == Runs \cup Names
Own(r) == {r} \X Entries
Warm(r) == hold[r] \in Names
Mishap == mishaps < MaxMishaps /\ mishaps' = mishaps + 1
IdleOf(k) == {i \in 1..Len(idle) : idle[i][1] = k}
IdleNotOf(k) == {i \in 1..Len(idle) : idle[i][1] # k}
Oldest(places) == {i \in places : \A j \in places : i <= j}
Without(i) == [j \in 1..Len(idle) - 1 |-> IF j < i THEN idle[j] ELSE idle[j + 1]]

Stages == {"start", "claim", "inspect", "cold", "ready", "run", "destroy", "refill", "warm",
           "push", "end", "done", "dropped", "lost"}

RunTypes ==
  /\ pc \in [Runs -> Stages] /\ hold \in [Runs -> Containers \cup {Nobody}]
  /\ report \in [Runs -> {"none", "passed", "failed", "errored"}]
  /\ saw \in [Runs -> SUBSET (Runs \X Entries)]
  /\ fate \in [Runs -> {"unstarted", "refused", "running", "exit0", "exit1", "timeout"}]
DaemonTypes ==
  /\ ctr \in [Containers -> {"none", "created", "idle", "job"}]
  /\ made \in [Containers -> Keys \cup {Nobody}]
  /\ files \in [Containers -> SUBSET (Runs \X Entries)]
  /\ ranIn \in [Containers -> SUBSET Runs]
NodeTypes ==
  /\ idle \in Seq(Keys \X Names) /\ used \subseteq Names
  /\ dropTasks \subseteq Containers /\ stray \subseteq Containers
  /\ grants \subseteq Runs /\ split \subseteq Runs /\ mishaps \in Nat

\* What a run, the daemon and the node hold is of its type.
TypeOK == RunTypes /\ DaemonTypes /\ NodeTypes /\ up \in BOOLEAN

Init ==
  /\ pc = [r \in Runs |-> "start"] /\ hold = [r \in Runs |-> Nobody]
  /\ idle = <<>>
  /\ ctr = [n \in Containers |-> "none"] /\ made = [n \in Containers |-> Nobody]
  /\ files = [n \in Containers |-> IF n \in Runs THEN Own(n) ELSE {}]
  /\ dropTasks = {} /\ grants = {} /\ used = {}
  /\ report = [r \in Runs |-> "none"] /\ up = TRUE /\ mishaps = 0
  /\ ranIn = [n \in Containers |-> {}] /\ saw = [r \in Runs |-> {}]
  /\ fate = [r \in Runs |-> "unstarted"] /\ split = {} /\ stray = {}

Goto(r, l) == pc' = [pc EXCEPT ![r] = l]

\* rm --force --volumes of container n, and its mount directory; a failure is
\* logged and the container waits for the next start.
Removed(n) ==
  \/ ctr' = [ctr EXCEPT ![n] = "none"] /\ UNCHANGED <<stray, mishaps>>
  \/ Mishap /\ stray' = stray \cup {n} /\ UNCHANGED ctr

\* The same after a mishap, which may have been the daemon's and stop the rm too.
RemovedOrLeft(n) ==
  \/ ctr' = [ctr EXCEPT ![n] = "none"] /\ UNCHANGED stray
  \/ stray' = stray \cup {n} /\ UNCHANGED ctr

-----------------------------------------------------------------------------
\* run_inner up to spawn: admission, detection of the command and redemption of
\* the capability may refuse the step; then the grant is minted.
Begin(r) ==
  /\ up /\ pc[r] = "start"
  /\ \/ /\ Goto(r, "claim") /\ grants' = grants \cup {r} /\ UNCHANGED <<report, mishaps>>
     \/ /\ Goto(r, "done") /\ Mishap /\ report' = [report EXCEPT ![r] = "errored"] /\ UNCHANGED grants
  /\ UNCHANGED <<hold, idle, daemonVars, files, dropTasks, up, used, histVars, stray>>

\* mutant: any idle member will do.
TakeMatchingAny(r) ==
  /\ up /\ pc[r] = "claim"
  /\ IF idle = <<>>
     THEN Goto(r, "cold") /\ UNCHANGED <<hold, idle>>
     ELSE /\ hold' = [hold EXCEPT ![r] = idle[1][2]]
          /\ idle' = Tail(idle)
          /\ Goto(r, "inspect")
  /\ UNCHANGED <<daemonVars, files, dropTasks, grants, report, up, used, histVars, stray, mishaps>>

\* claim: the first idle member under an equal key leaves the pool for good; with
\* none the step goes the cold way.
TakeMatching(r) ==
  /\ up /\ pc[r] = "claim"
  /\ \/ IdleOf(KeyOf[r]) = {} /\ Goto(r, "cold") /\ UNCHANGED <<hold, idle>>
     \/ \E i \in Oldest(IdleOf(KeyOf[r])) :
          /\ hold' = [hold EXCEPT ![r] = idle[i][2]]
          /\ idle' = Without(i)
          /\ Goto(r, "inspect")
  /\ UNCHANGED <<daemonVars, files, dropTasks, grants, report, up, used, histVars, stray, mishaps>>

\* still_running said no, or could not be asked of a member that is: either way it
\* is discarded and the claim tries the next one.
DiscardDead(r) ==
  /\ up /\ pc[r] = "inspect"
  /\ \/ ctr[hold[r]] = "none" /\ Removed(hold[r])
     \/ ctr[hold[r]] = "idle" /\ Mishap /\ RemovedOrLeft(hold[r])
  /\ Goto(r, "claim") /\ hold' = [hold EXCEPT ![r] = Nobody]
  /\ UNCHANGED <<idle, made, files, dropTasks, grants, report, up, used, histVars>>

\* mutant: the loop over the workspace stops at its first entry.
AdoptFirst(r) ==
  /\ up /\ pc[r] = "inspect" /\ ctr[hold[r]] = "idle"
  /\ files[hold[r]] = {}
  /\ \E f \in files[r] : files' = [files EXCEPT ![hold[r]] = {f}, ![r] = @ \ {f}]
  /\ Goto(r, "ready")
  /\ UNCHANGED <<hold, idle, daemonVars, dropTasks, grants, report, up, used, histVars, stray,
                 mishaps>>

\* adopt_workspace moves every entry and the member is the run's sandbox.
Adopt(r) ==
  /\ up /\ pc[r] = "inspect" /\ ctr[hold[r]] = "idle"
  /\ files[hold[r]] = {}
  /\ files' = [files EXCEPT ![hold[r]] = files[r], ![r] = {}]
  /\ Goto(r, "ready")
  /\ UNCHANGED <<hold, idle, daemonVars, dropTasks, grants, report, up, used, histVars, stray,
                 mishaps>>

\* adopt_workspace fails: before anything moved or with everything moved back, or
\* (a listing or a move back fails too) with some entries left in the member.
\* Either way the member is discarded with its directory, which removes its container
\* or leaves it to the reaper, and the step goes on the cold way.
AdoptFails(r) ==
  /\ up /\ pc[r] = "inspect" /\ ctr[hold[r]] = "idle" /\ Mishap
  /\ \E moved \in SUBSET files[r] :
       /\ files' = [files EXCEPT ![r] = @ \ moved]
       /\ split' = IF moved = {} THEN split ELSE split \cup {r}
  /\ RemovedOrLeft(hold[r])
  /\ hold' = [hold EXCEPT ![r] = Nobody]
  /\ Goto(r, "cold")
  /\ UNCHANGED <<idle, made, dropTasks, grants, report, up, used, ranIn, saw, fate>>

-----------------------------------------------------------------------------
\* ContainerInstance::exec.

\* Cold: create under the run's own name.  created is set first, so a create the
\* daemon finished without our hearing of it is still removed by destroy.
Create(r) ==
  /\ up /\ pc[r] = "cold"
  /\ hold' = [hold EXCEPT ![r] = r]
  /\ \/ /\ ctr' = [ctr EXCEPT ![r] = "created"] /\ made' = [made EXCEPT ![r] = KeyOf[r]]
        /\ Goto(r, "ready") /\ UNCHANGED <<mishaps, report>>
     \/ /\ Mishap /\ Goto(r, "destroy")
        /\ report' = [report EXCEPT ![r] = "errored"]
        /\ \/ UNCHANGED daemonVars
           \/ ctr' = [ctr EXCEPT ![r] = "created"] /\ made' = [made EXCEPT ![r] = KeyOf[r]]
  /\ UNCHANGED <<idle, files, dropTasks, grants, up, used, histVars, stray>>

\* begin_exec, then `start --attach` or `exec`.  When the daemon refuses (a member
\* that died since it was inspected, an entrypoint the image does not have) the CLI
\* exits 1, which is taken for the command's exit.  A CLI that cannot be spawned is an
\* infra error.
Launch(r) ==
  /\ up /\ pc[r] = "ready"
  /\ \/ /\ Mishap /\ report' = [report EXCEPT ![r] = "errored"] /\ Goto(r, "destroy")
        /\ UNCHANGED <<ctr, ranIn, saw, fate>>
     \/ /\ IF ctr[hold[r]] = "none" THEN UNCHANGED mishaps ELSE ~Warm(r) /\ Mishap
        /\ report' = [report EXCEPT ![r] = "failed"] /\ Goto(r, "destroy")
        /\ fate' = [fate EXCEPT ![r] = "refused"]
        /\ UNCHANGED <<ctr, ranIn, saw>>
     \/ /\ ctr[hold[r]] # "none"
        /\ ctr' = [ctr EXCEPT ![hold[r]] = "job"]
        /\ ranIn' = [ranIn EXCEPT ![hold[r]] = @ \cup {r}]
        /\ saw' = [saw EXCEPT ![r] = files[hold[r]]]
        /\ fate' = [fate EXCEPT ![r] = "running"]
        /\ Goto(r, "run") /\ UNCHANGED <<report, mishaps>>
  /\ UNCHANGED <<hold, idle, made, files, dropTasks, grants, up, used, split, stray>>

\* The command is over.  A cold container goes away with its command (--rm); a member
\* falls back to its sleep.
Exit(r) ==
  /\ up /\ pc[r] = "run" /\ Goto(r, "destroy")
  /\ \E end \in {<<"exit0", "passed">>, <<"exit1", "failed">>} :
       fate' = [fate EXCEPT ![r] = end[1]] /\ report' = [report EXCEPT ![r] = end[2]]
  /\ ctr' = [ctr EXCEPT ![hold[r]] = IF @ = "none" \/ ~Warm(r) THEN "none" ELSE "idle"]
  /\ UNCHANGED <<hold, idle, made, files, dropTasks, grants, up, used, ranIn, saw, split, stray,
                 mishaps>>

\* The CLI we attached with is killed at the timeout, or its pipes or its wait fail: the
\* container runs on.  A timeout kills it too, which may fail; otherwise destroy finds it.
Unattached(r) ==
  /\ up /\ pc[r] = "run" /\ Mishap /\ Goto(r, "destroy")
  /\ report' = [report EXCEPT ![r] = "errored"]
  /\ \/ fate' = [fate EXCEPT ![r] = "timeout"] /\ ctr' = [ctr EXCEPT ![hold[r]] = "none"]
     \/ fate' \in {fate, [fate EXCEPT ![r] = "timeout"]} /\ UNCHANGED ctr
  /\ UNCHANGED <<hold, idle, made, files, dropTasks, grants, up, used, ranIn, saw, split, stray>>

\* mutant: what exec itself says about the command it could not start is taken
\* for the command's own exit.
NeverStartedAsExit(r) ==
  /\ up /\ pc[r] = "run" /\ Warm(r) /\ Mishap
  /\ fate' = [fate EXCEPT ![r] = "unstarted"]
  /\ report' = [report EXCEPT ![r] = "failed"]
  /\ ctr' = [ctr EXCEPT ![hold[r]] = IF @ = "none" THEN @ ELSE "idle"]
  /\ Goto(r, "destroy")
  /\ UNCHANGED <<hold, idle, made, files, dropTasks, grants, up, used, ranIn, saw, split, stray>>

\* exec_never_started: the runtime's own exit 126 or 127 is an infra error.
NeverStarted(r) ==
  /\ up /\ pc[r] = "run" /\ Warm(r) /\ Mishap
  /\ fate' = [fate EXCEPT ![r] = "unstarted"]
  /\ report' = [report EXCEPT ![r] = "errored"]
  /\ ctr' = [ctr EXCEPT ![hold[r]] = IF @ = "none" THEN @ ELSE "idle"]
  /\ Goto(r, "destroy")
  /\ UNCHANGED <<hold, idle, made, files, dropTasks, grants, up, used, ranIn, saw, split, stray>>

\* mutant: destroy leaves the container to the daemon.
DestroyNothing(r) ==
  /\ up /\ pc[r] = "destroy" /\ Goto(r, "refill")
  /\ UNCHANGED <<ctr, stray, mishaps>>
  /\ files' = [files EXCEPT ![hold[r]] = IF Warm(r) THEN {} ELSE @]
  /\ UNCHANGED <<hold, idle, made, dropTasks, grants, report, up, used, histVars>>

\* collect, mask, destroy: the container and, for a member, its mount directory.
Destroy(r) ==
  /\ up /\ pc[r] = "destroy" /\ Goto(r, "refill")
  /\ Removed(hold[r])
  /\ files' = [files EXCEPT ![hold[r]] = IF Warm(r) THEN {} ELSE @]
  /\ UNCHANGED <<hold, idle, made, dropTasks, grants, report, up, used, histVars>>

-----------------------------------------------------------------------------
\* SandboxPool::refill, called from destroy.

Full == Len(idle) >= Total

\* Enough members of this key, or no room and nothing of another key to evict.
RefillNot(r) ==
  /\ up /\ pc[r] = "refill" /\ Goto(r, "end")
  /\ Cardinality(IdleOf(KeyOf[r])) >= Depth \/ (Full /\ IdleNotOf(KeyOf[r]) = {})
  /\ UNCHANGED <<hold, idle, daemonVars, files, dropTasks, grants, report, up, used, histVars,
                 stray, mishaps>>

\* mutant: the sandbox that was just used goes to the pool.
MakeRoomReturns(r) ==
  /\ up /\ pc[r] = "refill" /\ Goto(r, "push")
  /\ Cardinality(IdleOf(KeyOf[r])) < Depth
  /\ UNCHANGED <<idle, ctr, stray, mishaps>>
  /\ UNCHANGED <<hold, made, files, dropTasks, grants, report, up, used, histVars>>

\* make_room: the oldest member of another key is discarded.
MakeRoom(r) ==
  /\ up /\ pc[r] = "refill" /\ Goto(r, "warm")
  /\ Cardinality(IdleOf(KeyOf[r])) < Depth
  /\ \/ ~Full /\ UNCHANGED <<idle, ctr, stray, mishaps>>
     \/ Full /\ \E i \in Oldest(IdleNotOf(KeyOf[r])) : idle' = Without(i) /\ Removed(idle[i][2])
  /\ UNCHANGED <<hold, made, files, dropTasks, grants, report, up, used, histVars>>

\* warm_one: create and start under a new name, from the key alone.  It may fail
\* cleanly, or leave behind a container nobody heard of.
WarmOne(r) ==
  /\ up /\ pc[r] = "warm"
  /\ \/ \E n \in Names \ used :
          /\ used' = used \cup {n}
          /\ made' = [made EXCEPT ![n] = KeyOf[r]]
          /\ ctr' = [ctr EXCEPT ![n] = "idle"]
          /\ \/ Goto(r, "push") /\ hold' = [hold EXCEPT ![r] = n] /\ UNCHANGED <<stray, mishaps>>
             \/ Mishap /\ stray' = stray \cup {n} /\ Goto(r, "end") /\ UNCHANGED hold
     \/ /\ IF Names = used THEN UNCHANGED mishaps ELSE Mishap
        /\ Goto(r, "end") /\ UNCHANGED <<hold, daemonVars, used, stray>>
  /\ UNCHANGED <<idle, files, dropTasks, grants, report, up, histVars>>

\* The member joins the pool, whatever happened to its size meanwhile.
Push(r) ==
  /\ up /\ pc[r] = "push" /\ Goto(r, "end")
  /\ idle' = Append(idle, <<KeyOf[r], hold[r]>>)
  /\ hold' = [hold EXCEPT ![r] = Nobody]
  /\ UNCHANGED <<daemonVars, files, dropTasks, grants, report, up, used, histVars, stray, mishaps>>

\* mutant: a grant goes only when its own step ends well.
ReleasedOnSuccess(r) == IF report[r] = "passed" THEN {g \in grants : JobOf[g] # JobOf[r]} ELSE grants

\* GrantGuard: the grants of the whole job go with this step.
Released(r) == {g \in grants : JobOf[g] # JobOf[r]}

\* run_inner returns its report.
End(r) ==
  /\ up /\ pc[r] = "end" /\ Goto(r, "done")
  /\ grants' = Released(r)
  /\ hold' = [hold EXCEPT ![r] = Nobody]
  /\ UNCHANGED <<idle, daemonVars, files, dropTasks, report, up, used, histVars, stray, mishaps>>

-----------------------------------------------------------------------------
\* The run's future is dropped.  Its instance's destructor spawns a removal; a
\* member in hand that is not yet, or no longer to be, an instance is forgotten.
Cancel(r) ==
  LET instance == pc[r] \in {"ready", "run", "destroy", "refill", "warm"} IN
  /\ up /\ Mishap
  /\ pc[r] \in {"inspect", "cold", "ready", "run", "destroy", "refill", "warm", "push"}
  /\ Goto(r, "dropped")
  /\ grants' = Released(r)
  /\ dropTasks' = IF instance /\ hold[r] # Nobody THEN dropTasks \cup {hold[r]} ELSE dropTasks
  /\ stray' = IF pc[r] \in {"inspect", "push"} THEN stray \cup {hold[r]} ELSE stray
  /\ hold' = [hold EXCEPT ![r] = Nobody]
  /\ UNCHANGED <<idle, daemonVars, files, report, up, used, histVars>>

DropTask(n) ==
  /\ up /\ n \in dropTasks
  /\ dropTasks' = dropTasks \ {n}
  /\ Removed(n)
  /\ files' = [files EXCEPT ![n] = IF n \in Names THEN {} ELSE @]
  /\ UNCHANGED <<pc, hold, idle, made, grants, report, up, used, histVars>>

\* A member's sleep dies and the daemon removes it.
IdleDies(n) ==
  /\ Mishap /\ n \in Names /\ ctr[n] = "idle"
  /\ ctr' = [ctr EXCEPT ![n] = "none"]
  /\ UNCHANGED <<pc, hold, idle, made, files, dropTasks, grants, report, up, used, histVars, stray>>

Crash ==
  /\ up /\ Mishap /\ up' = FALSE
  /\ pc' = [r \in Runs |-> IF pc[r] \in {"start", "done", "dropped"} THEN pc[r] ELSE "lost"]
  /\ hold' = [r \in Runs |-> Nobody]
  /\ idle' = <<>> /\ dropTasks' = {} /\ grants' = {}
  /\ UNCHANGED <<daemonVars, files, report, used, histVars, stray>>

\* reap_orphans: every container with this runner's label, and members carry it.
Reap == [n \in Containers |-> "none"]

\* detect: reap, then serve.  A reap that fails is logged.
Restart ==
  /\ ~up /\ up' = TRUE
  /\ \/ ctr' = Reap /\ stray' = {} /\ UNCHANGED mishaps
     \/ Mishap /\ stray' = Containers /\ UNCHANGED ctr
  /\ UNCHANGED <<pc, hold, idle, made, files, dropTasks, grants, report, used, histVars>>

Next ==
  \/ \E r \in Runs :
       \/ Begin(r) \/ TakeMatching(r) \/ DiscardDead(r) \/ Adopt(r) \/ AdoptFails(r)
       \/ Create(r) \/ Launch(r) \/ Exit(r) \/ Unattached(r) \/ NeverStarted(r) \/ Destroy(r)
       \/ RefillNot(r) \/ MakeRoom(r) \/ WarmOne(r) \/ Push(r) \/ End(r) \/ Cancel(r)
  \/ \E n \in Containers : DropTask(n) \/ IdleDies(n)
  \/ Crash \/ Restart

Spec == Init /\ [][Next]_vars

-----------------------------------------------------------------------------
\* A sandbox is never reused: no container ever runs the commands of two steps,
\* and none runs a step that was created for another key (network, image, limits,
\* user), whatever the pool handed out, evicted or refilled meanwhile.
NeverReused ==
  \A n \in Containers : Cardinality(ranIn[n]) <= 1 /\ \A r \in ranIn[n] : made[n] = KeyOf[r]

Started(r) == \E n \in Containers : r \in ranIn[n]

\* A command finds its own workspace and nothing else in its workdir, wherever
\* that was moved to; the exception is a workspace a failing filesystem split.
OwnWorkspace ==
  \A r \in Runs : Started(r) => saw[r] = Own(r) \/ r \in split

\* NeverReused and OwnWorkspace: a step has a sandbox of its own, with its own files.
SandboxIsItsOwn == NeverReused /\ OwnWorkspace

\* adopt_workspace leaves a workspace it split to its caller, which "turns it into
\* an errored verdict": no command runs without all of its files.
SplitIsErrored == \A r \in Runs : Started(r) => saw[r] = Own(r)

\* Every container the daemon has belongs to someone who will remove it: the pool,
\* a run, a destructor's task, or, when nobody heard of it or rm failed, the reaper
\* of the next start.
Accounted ==
  \A n \in Containers : ctr[n] # "none" =>
    \/ ~up \/ n \in stray \/ n \in dropTasks
    \/ \E i \in 1..Len(idle) : idle[i][2] = n
    \/ \E r \in Runs : hold[r] = n

\* Red and green are about the code: passed and failed are reported only for a
\* command that ran to that exit, or that the daemon refused to start with an exit
\* the CLI does not tell from the command's own (run_inner, exec_never_started).
ReportIsEarned ==
  \A r \in Runs : /\ report[r] = "passed" => fate[r] = "exit0"
                  /\ report[r] = "failed" => fate[r] \in {"exit1", "refused"}

\* The same without that exception: a command that was never started "can only be
\* errored".
UnstartedIsErrored == \A r \in Runs : report[r] = "failed" => fate[r] = "exit1"

\* A package grant dies with its job: no token is on record for a job none of
\* whose steps is running here, after a return, a cancellation or a crash.
GrantDiesWithJob ==
  \A g \in grants : \E r \in Runs : JobOf[r] = JobOf[g] /\ pc[r] \notin {"start", "done", "dropped", "lost"}

\* A step that is running has the grant it was given.
RunKeepsItsGrant == \A r \in Runs : pc[r] \in {"claim", "cold", "inspect", "ready", "run"} => r \in grants

\* PoolConfig::depth caps the members of a key and PoolConfig::total all of them.
PoolIsCapped ==
  Len(idle) <= Total /\ \A k \in Keys : Cardinality(IdleOf(k)) <= Depth
=============================================================================
