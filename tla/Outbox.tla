------------------------------- MODULE Outbox -------------------------------
(***************************************************************************)
(* How one runner process accepts dispatches and answers Hull:             *)
(*   Control::accept, finish, report and drain_undelivered                 *)
(*     (crates/hull-ci-control/src/control.rs),                            *)
(*   the process-local claim store LocalClaims (claims.rs),                *)
(*   retention in the job store (store.rs), and                            *)
(*   the write-ahead journal with its recovery pass                        *)
(*     (crates/hull-ci-server/src/journal.rs).                             *)
(*                                                                         *)
(* Each lock acquisition of the code is one step here, so calls of accept, *)
(* drivers and callback senders interleave exactly where the code lets     *)
(* them.  The pipeline between accept and finish is one nondeterministic   *)
(* decision (module Pipeline opens it up), and the state "running" stands  *)
(* for the four states a job has before its verdict.  Clock readings       *)
(* (retention, redelivery cooldown) are nondeterministic choices.          *)
(***************************************************************************)
EXTENDS JobModel, Naturals, FiniteSets

CONSTANTS
  Calls,         \* invocations of accept; a job is named after the call that won its claim
  Trees,         \* the (repo, tree_id) keys
  Urls,          \* callback urls
  TreeOf,        \* TreeOf[c]: the tree call c asks about
  UrlOf,         \* UrlOf[c]: the callback_url call c carries
  Outcomes,      \* the verdicts the pipeline may come to
  JournalFails,  \* may Journal::record return an error?
  Evicts,        \* does job_retention elapse, or max_jobs press, while we watch?
  MaxJobs,       \* ControlConfig::max_jobs
  RedeliverMax,  \* ControlConfig::redeliver_max_per_accept
  MaxCrashes     \* bound on the number of crashes

ASSUME OutboxAssumption ==
  /\ TreeOf \in [Calls -> Trees]
  /\ UrlOf \in [Calls -> Urls]
  /\ Outcomes \subseteq Statuses
  /\ JournalFails \in BOOLEAN /\ Evicts \in BOOLEAN
  /\ MaxJobs \in Nat /\ RedeliverMax \in Nat /\ MaxCrashes \in Nat

NoJob == "no job"

ASSUME NoJobAssumption == NoJob \notin Calls

VARIABLES
  \* -- what the outside world has seen, and history --
  told,        \* callbacks Hull has received: <<url, job, verdict>>
  decided,     \* history: the verdict each job's driver came to
  crashes,     \* number of crashes so far
  \* -- FileJournal, which survives a crash: one JobIntent per job in entries --
  entries, entryUrls, entryVerdict,
  \* -- the process: the entries its recovery pass has still to answer --
  phase, recovering,
  \* -- JobStore::by_id: one Job per job whose state is not "absent" --
  state, verdict, urls, delivering,
  \* -- LocalClaims: one LocalClaim per job in claimed, and by_key --
  claimed, claimUrls, claimVerdict, byKey,
  \* -- calls of accept: where each is, and its local variables --
  pc, target, seen, todo, intent,
  \* -- drivers (finish): where each is, and the urls it is about to journal --
  drv, drvIntent,
  \* -- callback senders (report): where each is, and its local variables --
  at, attempted, queue, carried, landed

outVars == <<told, decided, crashes>>
entryVars == <<entries, entryUrls, entryVerdict>>
procVars == <<phase, recovering>>
jobVars == <<state, verdict, urls, delivering>>
claimVars == <<claimed, claimUrls, claimVerdict, byKey>>
callVars == <<pc, target, seen, todo, intent>>
drvVars == <<drv, drvIntent>>
sndVars == <<at, attempted, queue, carried, landed>>
vars == <<outVars, entryVars, procVars, jobVars, claimVars, callVars, drvVars, sndVars>>

-----------------------------------------------------------------------------
\* Types.

Verdicts == Statuses \cup {NoVerdict}

RecordStates == JobStates \cup {"absent"}

\* A sender is named by the call that spawned it and the job it reports; the
\* driver of job j spawns <<j, j>>, which no call does.
Tasks == Calls \X Calls

PC == {"idle", "evicted", "insert", "attach", "foreign", "snap", "write",
       "undo", "unclaim", "start", "rereport", "scan", "drain",
       "acked", "refused", "lost"}

DriverPC == {"none", "drive", "settle", "snap", "write", "send", "done"}

SenderPC == {"off", "merge", "read", "post", "settle", "forget", "release"}

Here(j) == state[j] # "absent"
Active(t) == at[t] # "off"
Acked == {c \in Calls : pc[c] = "acked"}
Over == {"idle", "acked", "refused", "lost"}

TypeOK ==
  /\ told \subseteq Urls \X Calls \X Statuses
  /\ decided \in [Calls -> Verdicts]
  /\ crashes \in Nat
  /\ entries \subseteq Calls
  /\ entryUrls \in [Calls -> SUBSET Urls]
  /\ entryVerdict \in [Calls -> Verdicts]
  /\ phase \in {"recovering", "serving"}
  /\ recovering \subseteq Calls
  /\ state \in [Calls -> RecordStates]
  /\ verdict \in [Calls -> Verdicts]
  /\ urls \in [Calls -> SUBSET Urls]
  /\ delivering \subseteq Calls
  /\ claimed \subseteq Calls
  /\ claimUrls \in [Calls -> SUBSET Urls]
  /\ claimVerdict \in [Calls -> Verdicts]
  /\ byKey \in [Trees -> Calls \cup {NoJob}]
  /\ pc \in [Calls -> PC]
  /\ target \in [Calls -> Calls]
  /\ seen \in [Calls -> Verdicts]
  /\ todo \in [Calls -> SUBSET Calls]
  /\ intent \in [Calls -> SUBSET Urls]
  /\ drv \in [Calls -> DriverPC]
  /\ drvIntent \in [Calls -> SUBSET Urls]
  /\ at \in [Tasks -> SenderPC]
  /\ attempted \in [Tasks -> SUBSET Urls]
  /\ queue \in [Tasks -> SUBSET Urls]
  /\ carried \in [Tasks -> Verdicts]
  /\ landed \subseteq Tasks

Init ==
  /\ told = {} /\ crashes = 0 /\ entries = {} /\ phase = "serving" /\ recovering = {}
  /\ decided = [j \in Calls |-> NoVerdict]
  /\ entryUrls = [j \in Calls |-> {}]
  /\ entryVerdict = [j \in Calls |-> NoVerdict]
  /\ state = [j \in Calls |-> "absent"]
  /\ verdict = [j \in Calls |-> NoVerdict]
  /\ urls = [j \in Calls |-> {}]
  /\ delivering = {} /\ claimed = {}
  /\ claimUrls = [j \in Calls |-> {}]
  /\ claimVerdict = [j \in Calls |-> NoVerdict]
  /\ byKey = [t \in Trees |-> NoJob]
  /\ pc = [c \in Calls |-> "idle"]
  /\ target = [c \in Calls |-> c]
  /\ seen = [c \in Calls |-> NoVerdict]
  /\ todo = [c \in Calls |-> {}]
  /\ intent = [c \in Calls |-> {}]
  /\ drv = [j \in Calls |-> "none"]
  /\ drvIntent = [j \in Calls |-> {}]
  /\ at = [t \in Tasks |-> "off"]
  /\ attempted = [t \in Tasks |-> {}]
  /\ queue = [t \in Tasks |-> {}]
  /\ carried = [t \in Tasks |-> NoVerdict]
  /\ landed = {}

-----------------------------------------------------------------------------
\* Helpers on the store, the claims and the journal.

\* JobStore::remove, for a set of jobs.
RemoveRecords(gone) ==
  /\ state' = [j \in Calls |-> IF j \in gone THEN "absent" ELSE state[j]]
  /\ verdict' = [j \in Calls |-> IF j \in gone THEN NoVerdict ELSE verdict[j]]
  /\ urls' = [j \in Calls |-> IF j \in gone THEN {} ELSE urls[j]]
  /\ delivering' = delivering \ gone

\* LocalClaims::forget.
ForgetClaim(j) ==
  /\ claimed' = claimed \ {j}
  /\ claimUrls' = [claimUrls EXCEPT ![j] = {}]
  /\ claimVerdict' = [claimVerdict EXCEPT ![j] = NoVerdict]
  /\ byKey' = [t \in Trees |-> IF byKey[t] = j THEN NoJob ELSE byKey[t]]

\* FileJournal::record: tmp file, fsync and rename, so the entry is replaced
\* whole or not at all.
RecordEntry(j, us, v) ==
  /\ entries' = entries \cup {j}
  /\ entryUrls' = [entryUrls EXCEPT ![j] = us]
  /\ entryVerdict' = [entryVerdict EXCEPT ![j] = v]

\* FileJournal::forget.
ForgetEntryOf(j) ==
  /\ entries' = entries \ {j}
  /\ entryUrls' = [entryUrls EXCEPT ![j] = {}]
  /\ entryVerdict' = [entryVerdict EXCEPT ![j] = NoVerdict]

\* Mutant: the delivery claim is taken without looking whether it is held.
MayDeliverUnchecked(j) == Here(j)

\* Control::claim_delivery: may a new sender start on job j?
MayDeliver(j) == Here(j) /\ j \notin delivering

\* Job::awaits_redelivery, but for the cooldown.
Parked(j) == state[j] = "report_failed" /\ j \notin delivering

\* Claiming the delivery of j and spawning the sender t.
StartSender(t, j) ==
  /\ delivering' = delivering \cup {j}
  /\ at' = [at EXCEPT ![t] = "merge"]

\* JobStore::evict.  The retention clock takes any of the delivered jobs.  A
\* settled job that is still owed goes only if the store is over its cap, or
\* if so many have gone already that `by_id.len() - evicted.len()` wraps.
Evictable(gone) ==
  LET here == {j \in Calls : Here(j)}
      owed == {j \in gone : OwesAVerdict(state[j])}
  IN  /\ gone \subseteq {j \in here : HasVerdict(state[j])}
      /\ gone # {} => Evicts
      /\ owed # {} => \/ Cardinality(here) > MaxJobs
                      \/ 2 * Cardinality(gone \ owed) > Cardinality(here)

-----------------------------------------------------------------------------
\* Control::accept.

\* A dispatch arrives, and eviction runs under the jobs lock.
Arrive(c) ==
  /\ phase = "serving" /\ pc[c] = "idle"
  /\ \E gone \in SUBSET Calls :
       /\ Evictable(gone)
       /\ RemoveRecords(gone)
       /\ todo' = [todo EXCEPT ![c] = gone]
  /\ pc' = [pc EXCEPT ![c] = "evicted"]
  /\ UNCHANGED <<outVars, entryVars, procVars, claimVars, target, seen, intent,
                 drvVars, sndVars>>

\* claims.forget for one evicted job.
ForgetEvicted(c) ==
  /\ pc[c] = "evicted"
  /\ \E j \in todo[c] :
       /\ ForgetClaim(j)
       /\ todo' = [todo EXCEPT ![c] = @ \ {j}]
  /\ UNCHANGED <<outVars, entryVars, procVars, jobVars, pc, target, seen,
                 intent, drvVars, sndVars>>

\* LocalClaims::admit, Created: no claim for the tree, or only a settled one
\* that retention lets go of.
AdmitCreated(c) ==
  LET t == TreeOf[c]
      old == byKey[t]
  IN  /\ pc[c] = "evicted" /\ todo[c] = {}
      /\ old # NoJob => Evicts /\ claimVerdict[old] # NoVerdict
      /\ claimed' = (claimed \ {old}) \cup {c}
      /\ claimUrls' = [j \in Calls |-> IF j = c THEN {UrlOf[c]}
                                       ELSE IF j = old THEN {} ELSE claimUrls[j]]
      /\ claimVerdict' = [j \in Calls |-> IF j = old THEN NoVerdict ELSE claimVerdict[j]]
      /\ byKey' = [byKey EXCEPT ![t] = c]
      /\ target' = [target EXCEPT ![c] = c]
      /\ pc' = [pc EXCEPT ![c] = "insert"]
      /\ UNCHANGED <<outVars, entryVars, procVars, jobVars, seen, todo, intent,
                     drvVars, sndVars>>

\* LocalClaims::admit, Attached: the url goes on the claim, and the claim's
\* verdict comes back.
AdmitAttached(c) ==
  LET j == byKey[TreeOf[c]]
  IN  /\ pc[c] = "evicted" /\ todo[c] = {}
      /\ j # NoJob
      /\ claimUrls' = [claimUrls EXCEPT ![j] = @ \cup {UrlOf[c]}]
      /\ target' = [target EXCEPT ![c] = j]
      /\ seen' = [seen EXCEPT ![c] = claimVerdict[j]]
      /\ pc' = [pc EXCEPT ![c] = "attach"]
      /\ UNCHANGED <<outVars, entryVars, procVars, jobVars, claimed,
                     claimVerdict, byKey, todo, intent, drvVars, sndVars>>

\* Created: JobStore::insert of Job::new.
Insert(c) ==
  /\ pc[c] = "insert"
  /\ state' = [state EXCEPT ![c] = "running"]
  /\ verdict' = [verdict EXCEPT ![c] = NoVerdict]
  /\ urls' = [urls EXCEPT ![c] = {UrlOf[c]}]
  /\ delivering' = delivering \ {c}
  /\ pc' = [pc EXCEPT ![c] = "snap"]
  /\ UNCHANGED <<outVars, entryVars, procVars, claimVars, target, seen, todo,
                 intent, drvVars, sndVars>>

\* Attached, with a record here: the url goes on the record; a decided job is
\* re-reported and a live one is journaled again.
AttachHere(c) ==
  LET j == target[c]
      decidedHere == HasVerdict(state[j]) /\ verdict[j] # NoVerdict
  IN  /\ pc[c] = "attach" /\ Here(j)
      /\ urls' = [urls EXCEPT ![j] = @ \cup {UrlOf[c]}]
      /\ pc' = [pc EXCEPT ![c] = IF decidedHere THEN "rereport" ELSE "snap"]
      /\ UNCHANGED <<outVars, entryVars, procVars, state, verdict, delivering,
                     claimVars, target, seen, todo, intent, drvVars, sndVars>>

\* Attached, with no record here: answer from the claim's verdict if it has
\* one, otherwise leave the job to whoever holds it.
AttachElsewhere(c) ==
  /\ pc[c] = "attach" /\ ~Here(target[c])
  /\ pc' = [pc EXCEPT ![c] = IF seen[c] # NoVerdict THEN "foreign" ELSE "scan"]
  /\ UNCHANGED <<outVars, entryVars, procVars, jobVars, claimVars, target, seen,
                 todo, intent, drvVars, sndVars>>

\* Mutant: the foreign record is marked green whatever the claim says.
RecordForeignGreen(c) ==
  LET j == target[c]
  IN  /\ pc[c] = "foreign"
      /\ state' = [state EXCEPT ![j] = "green"]
      /\ verdict' = [verdict EXCEPT ![j] = "green"]
      /\ urls' = [urls EXCEPT ![j] = IF Here(j) THEN @ ELSE {UrlOf[c]}]
      /\ pc' = [pc EXCEPT ![c] = "rereport"]
      /\ UNCHANGED <<outVars, entryVars, procVars, delivering, claimVars, target,
                     seen, todo, intent, drvVars, sndVars>>

\* Control::record_foreign_verdict; insert keeps a record that is already there.
RecordForeign(c) ==
  LET j == target[c]
  IN  /\ pc[c] = "foreign"
      /\ state' = [state EXCEPT ![j] = seen[c]]
      /\ verdict' = [verdict EXCEPT ![j] = seen[c]]
      /\ urls' = [urls EXCEPT ![j] = IF Here(j) THEN @ ELSE {UrlOf[c]}]
      /\ pc' = [pc EXCEPT ![c] = "rereport"]
      /\ UNCHANGED <<outVars, entryVars, procVars, delivering, claimVars, target,
                     seen, todo, intent, drvVars, sndVars>>

\* Mutant: the dispatch is acknowledged without being journaled.
SnapshotSkipped(c) ==
  /\ pc[c] = "snap"
  /\ pc' = [pc EXCEPT ![c] = "start"]
  /\ UNCHANGED <<outVars, entryVars, procVars, jobVars, claimVars, target, seen,
                 todo, intent, drvVars, sndVars>>

\* Control::journal_record, first half: the snapshot under the jobs lock.  A
\* record that is gone counts as success.
Snapshot(c) ==
  /\ pc[c] = "snap"
  /\ intent' = [intent EXCEPT ![c] = urls[target[c]]]
  /\ pc' = [pc EXCEPT ![c] = IF Here(target[c]) THEN "write" ELSE "start"]
  /\ UNCHANGED <<outVars, entryVars, procVars, jobVars, claimVars, target, seen,
                 todo, drvVars, sndVars>>

\* The second half: Journal::record.
WriteIntent(c) ==
  /\ pc[c] = "write"
  /\ RecordEntry(target[c], intent[c], NoVerdict)
  /\ intent' = [intent EXCEPT ![c] = {}]
  /\ pc' = [pc EXCEPT ![c] = "start"]
  /\ UNCHANGED <<outVars, procVars, jobVars, claimVars, target, seen, todo,
                 drvVars, sndVars>>

\* The journal refuses: no ack.  A job this call created is undone; an attach
\* is left as it is.
RefuseNotDurable(c) ==
  /\ JournalFails /\ pc[c] = "write"
  /\ intent' = [intent EXCEPT ![c] = {}]
  /\ pc' = [pc EXCEPT ![c] = IF target[c] = c THEN "undo" ELSE "refused"]
  /\ UNCHANGED <<outVars, entryVars, procVars, jobVars, claimVars, target, seen,
                 todo, drvVars, sndVars>>

\* The undo: JobStore::remove, then JobClaims::forget.
UndoRecord(c) ==
  /\ pc[c] = "undo"
  /\ RemoveRecords({c})
  /\ pc' = [pc EXCEPT ![c] = "unclaim"]
  /\ UNCHANGED <<outVars, entryVars, procVars, claimVars, target, seen, todo,
                 intent, drvVars, sndVars>>

UndoClaim(c) ==
  /\ pc[c] = "unclaim"
  /\ ForgetClaim(c)
  /\ pc' = [pc EXCEPT ![c] = "refused"]
  /\ UNCHANGED <<outVars, entryVars, procVars, jobVars, target, seen, todo,
                 intent, drvVars, sndVars>>

\* Drive spawns the driver; an attach to a live job starts nothing.
Start(c) ==
  /\ pc[c] = "start"
  /\ drv' = [drv EXCEPT ![c] = IF target[c] = c THEN "drive" ELSE @]
  /\ pc' = [pc EXCEPT ![c] = "scan"]
  /\ UNCHANGED <<outVars, entryVars, procVars, jobVars, claimVars, target, seen,
                 todo, intent, drvIntent, sndVars>>

\* Mutant: the delivery is claimed and the sender never spawned.
ReReportUnspawned(c) ==
  /\ pc[c] = "rereport"
  /\ delivering' = delivering \cup {target[c]}
  /\ pc' = [pc EXCEPT ![c] = "scan"]
  /\ UNCHANGED <<outVars, entryVars, procVars, state, verdict, urls, claimVars,
                 target, seen, todo, intent, drvVars, sndVars>>

\* ReReport: start a sender unless one is running.
ReReport(c) ==
  /\ pc[c] = "rereport"
  /\ IF MayDeliver(target[c])
     THEN StartSender(<<c, target[c]>>, target[c])
     ELSE UNCHANGED <<delivering, at>>
  /\ pc' = [pc EXCEPT ![c] = "scan"]
  /\ UNCHANGED <<outVars, entryVars, procVars, state, verdict, urls, claimVars,
                 target, seen, todo, intent, drvVars, attempted, queue, carried,
                 landed>>

\* Control::drain_undelivered, the scan: up to RedeliverMax parked jobs whose
\* cooldown has passed, other than the one this dispatch is about.
Scan(c) ==
  /\ pc[c] = "scan"
  /\ \E due \in SUBSET {j \in Calls \ {target[c]} : Parked(j)} :
       /\ Cardinality(due) <= RedeliverMax
       /\ todo' = [todo EXCEPT ![c] = due]
  /\ seen' = [seen EXCEPT ![c] = NoVerdict]
  /\ pc' = [pc EXCEPT ![c] = "drain"]
  /\ UNCHANGED <<outVars, entryVars, procVars, jobVars, claimVars, target,
                 intent, drvVars, sndVars>>

\* Control::claim_delivery_if_parked re-decides under the lock.
Redeliver(c) ==
  /\ pc[c] = "drain"
  /\ \E j \in todo[c] :
       /\ todo' = [todo EXCEPT ![c] = @ \ {j}]
       /\ \/ Parked(j) /\ StartSender(<<c, j>>, j)
          \/ UNCHANGED <<delivering, at>>
  /\ UNCHANGED <<outVars, entryVars, procVars, state, verdict, urls, claimVars,
                 pc, target, seen, intent, drvVars, attempted, queue, carried,
                 landed>>

\* Ok(Accepted): the handler answers 2xx.
Ack(c) ==
  /\ pc[c] = "drain" /\ todo[c] = {}
  /\ pc' = [pc EXCEPT ![c] = "acked"]
  /\ UNCHANGED <<outVars, entryVars, procVars, jobVars, claimVars, target, seen,
                 todo, intent, drvVars, sndVars>>

Accept(c) ==
  \/ Arrive(c) \/ ForgetEvicted(c) \/ AdmitCreated(c) \/ AdmitAttached(c)
  \/ Insert(c) \/ AttachHere(c) \/ AttachElsewhere(c) \/ RecordForeign(c)
  \/ Snapshot(c) \/ WriteIntent(c) \/ RefuseNotDurable(c) \/ UndoRecord(c)
  \/ UndoClaim(c) \/ Start(c) \/ ReReport(c) \/ Scan(c) \/ Redeliver(c) \/ Ack(c)

-----------------------------------------------------------------------------
\* Control::finish, run by the driver of job j.

\* The one verdict, recorded under the jobs lock unless there is one already.
Decide(j) ==
  /\ drv[j] = "drive"
  /\ Here(j) /\ ~HasVerdict(state[j])
  /\ \E v \in Outcomes :
       /\ state' = [state EXCEPT ![j] = JobTransition(@, v)]
       /\ verdict' = [verdict EXCEPT ![j] = v]
       /\ decided' = [decided EXCEPT ![j] = v]
  /\ drv' = [drv EXCEPT ![j] = "settle"]
  /\ UNCHANGED <<told, crashes, entryVars, procVars, urls, delivering, claimVars,
                 callVars, drvIntent, sndVars>>

\* LocalClaims::settle publishes the recorded verdict on the claim.
Settle(j) ==
  /\ drv[j] = "settle"
  /\ claimVerdict' = [claimVerdict EXCEPT ![j] =
                        IF j \in claimed /\ Here(j) THEN verdict[j] ELSE @]
  /\ drv' = [drv EXCEPT ![j] = "snap"]
  /\ UNCHANGED <<outVars, entryVars, procVars, jobVars, claimed, claimUrls, byKey,
                 callVars, drvIntent, sndVars>>

\* Mutant: the verdict is delivered without being journaled first.
SnapshotVerdictSkipped(j) ==
  /\ drv[j] = "snap"
  /\ drv' = [drv EXCEPT ![j] = "send"]
  /\ UNCHANGED <<outVars, entryVars, procVars, jobVars, claimVars, callVars,
                 drvIntent, sndVars>>

\* journal_record with the verdict: snapshot, then write.  A failed write is
\* logged and delivery goes on.
SnapshotVerdict(j) ==
  /\ drv[j] = "snap"
  /\ drvIntent' = [drvIntent EXCEPT ![j] = urls[j]]
  /\ drv' = [drv EXCEPT ![j] = IF Here(j) THEN "write" ELSE "send"]
  /\ UNCHANGED <<outVars, entryVars, procVars, jobVars, claimVars, callVars, sndVars>>

WriteVerdict(j) ==
  /\ drv[j] = "write"
  /\ \/ RecordEntry(j, drvIntent[j], decided[j])
     \/ JournalFails /\ UNCHANGED entryVars
  /\ drvIntent' = [drvIntent EXCEPT ![j] = {}]
  /\ drv' = [drv EXCEPT ![j] = "send"]
  /\ UNCHANGED <<outVars, procVars, jobVars, claimVars, callVars, sndVars>>

\* The driver delivers, unless a duplicate dispatch is delivering already.
Send(j) ==
  /\ drv[j] = "send"
  /\ IF MayDeliver(j) THEN StartSender(<<j, j>>, j) ELSE UNCHANGED <<delivering, at>>
  /\ drv' = [drv EXCEPT ![j] = "done"]
  /\ UNCHANGED <<outVars, entryVars, procVars, state, verdict, urls, claimVars,
                 callVars, drvIntent, attempted, queue, carried, landed>>

Drive(j) == Decide(j) \/ Settle(j) \/ SnapshotVerdict(j) \/ WriteVerdict(j) \/ Send(j)

-----------------------------------------------------------------------------
\* Control::report, run by sender t = <<spawner, job>>.

\* The destinations on the claim are merged into the record.
Merge(t) ==
  LET j == t[2]
  IN  /\ at[t] = "merge"
      /\ urls' = [urls EXCEPT ![j] = IF Here(j) THEN @ \cup claimUrls[j] ELSE @]
      /\ at' = [at EXCEPT ![t] = "read"]
      /\ UNCHANGED <<outVars, entryVars, procVars, state, verdict, delivering,
                     claimVars, callVars, drvVars, attempted, queue, carried,
                     landed>>

\* Read the destinations not attempted yet; none left, or no record, ends the
\* loop, and a run that attempted nothing goes straight to the release.
Read(t) ==
  LET j == t[2]
      left == IF verdict[j] # NoVerdict THEN urls[j] \ attempted[t] ELSE {}
      end == IF attempted[t] = {} THEN "release" ELSE "settle"
  IN  /\ at[t] = "read"
      /\ queue' = [queue EXCEPT ![t] = left]
      /\ carried' = [carried EXCEPT ![t] = verdict[j]]
      /\ at' = [at EXCEPT ![t] = IF left = {} THEN end ELSE "post"]
      /\ UNCHANGED <<outVars, entryVars, procVars, jobVars, claimVars, callVars,
                     drvVars, attempted, landed>>

\* Mutant: a destination that refused is not remembered as attempted.
PostUnremembered(t) ==
  /\ at[t] = "post"
  /\ \E u \in queue[t], ok \in BOOLEAN :
       /\ told' = IF ok THEN told \cup {<<u, t[2], carried[t]>>} ELSE told
       /\ landed' = IF ok THEN landed \cup {t} ELSE landed
       /\ attempted' = [attempted EXCEPT ![t] = IF ok THEN @ \cup {u} ELSE @]
       /\ queue' = [queue EXCEPT ![t] = @ \ {u}]
       /\ at' = [at EXCEPT ![t] = IF queue[t] = {u} THEN "merge" ELSE "post"]
  /\ UNCHANGED <<decided, crashes, entryVars, procVars, jobVars, claimVars,
                 callVars, drvVars, carried>>

\* callback::deliver_reporting for one destination, every retry included: Hull
\* has the verdict and we know it; Hull has it and the answer was lost; or
\* nothing got through.
Post(t) ==
  /\ at[t] = "post"
  /\ \E u \in queue[t], hears \in BOOLEAN, ok \in BOOLEAN :
       /\ ok => hears
       /\ told' = IF hears THEN told \cup {<<u, t[2], carried[t]>>} ELSE told
       /\ landed' = IF ok THEN landed \cup {t} ELSE landed
       /\ attempted' = [attempted EXCEPT ![t] = @ \cup {u}]
       /\ queue' = [queue EXCEPT ![t] = @ \ {u}]
       /\ at' = [at EXCEPT ![t] = IF queue[t] = {u} THEN "merge" ELSE "post"]
  /\ UNCHANGED <<decided, crashes, entryVars, procVars, jobVars, claimVars,
                 callVars, drvVars, carried>>

\* Mutants: the entry is dropped on both outcomes; the entry is never dropped.
SettleReportForgetsAll(t) ==
  LET j == t[2]
      outcome == IF t \in landed THEN "reported" ELSE "report_failed"
  IN  /\ at[t] = "settle"
      /\ state' = [state EXCEPT ![j] = JobTransition(@, outcome)]
      /\ at' = [at EXCEPT ![t] = "forget"]
      /\ UNCHANGED <<outVars, entryVars, procVars, verdict, urls, delivering,
                     claimVars, callVars, drvVars, attempted, queue, carried,
                     landed>>
SettleReportKeepsAll(t) ==
  LET j == t[2]
      outcome == IF t \in landed THEN "reported" ELSE "report_failed"
  IN  /\ at[t] = "settle"
      /\ state' = [state EXCEPT ![j] = JobTransition(@, outcome)]
      /\ at' = [at EXCEPT ![t] = "release"]
      /\ UNCHANGED <<outVars, entryVars, procVars, verdict, urls, delivering,
                     claimVars, callVars, drvVars, attempted, queue, carried,
                     landed>>

\* The outcome goes on the record: reported if any destination answered.
SettleReport(t) ==
  LET j == t[2]
      outcome == IF t \in landed THEN "reported" ELSE "report_failed"
  IN  /\ at[t] = "settle"
      /\ state' = [state EXCEPT ![j] = JobTransition(@, outcome)]
      /\ at' = [at EXCEPT ![t] = IF t \in landed THEN "forget" ELSE "release"]
      /\ UNCHANGED <<outVars, entryVars, procVars, verdict, urls, delivering,
                     claimVars, callVars, drvVars, attempted, queue, carried,
                     landed>>

\* The debt is paid: the journal entry goes.
ForgetEntry(t) ==
  /\ at[t] = "forget"
  /\ ForgetEntryOf(t[2])
  /\ at' = [at EXCEPT ![t] = "release"]
  /\ UNCHANGED <<outVars, procVars, jobVars, claimVars, callVars, drvVars,
                 attempted, queue, carried, landed>>

\* Control::release_delivery.
Release(t) ==
  /\ at[t] = "release"
  /\ delivering' = delivering \ {t[2]}
  /\ at' = [at EXCEPT ![t] = "off"]
  /\ attempted' = [attempted EXCEPT ![t] = {}]
  /\ queue' = [queue EXCEPT ![t] = {}]
  /\ carried' = [carried EXCEPT ![t] = NoVerdict]
  /\ landed' = landed \ {t}
  /\ UNCHANGED <<outVars, entryVars, procVars, state, verdict, urls, claimVars,
                 callVars, drvVars>>

Report(t) ==
  \/ Merge(t) \/ Read(t) \/ Post(t) \/ SettleReport(t) \/ ForgetEntry(t) \/ Release(t)

-----------------------------------------------------------------------------
\* Crash and recovery.

\* The process dies and starts again; a call that had not answered never will.
Crash ==
  /\ crashes < MaxCrashes
  /\ crashes' = crashes + 1
  /\ phase' = "recovering"
  /\ recovering' = entries
  /\ RemoveRecords(Calls)
  /\ claimed' = {}
  /\ claimUrls' = [j \in Calls |-> {}]
  /\ claimVerdict' = [j \in Calls |-> NoVerdict]
  /\ byKey' = [t \in Trees |-> NoJob]
  /\ pc' = [c \in Calls |-> IF pc[c] \in Over THEN pc[c] ELSE "lost"]
  /\ seen' = [c \in Calls |-> NoVerdict]
  /\ todo' = [c \in Calls |-> {}]
  /\ intent' = [c \in Calls |-> {}]
  /\ drv' = [j \in Calls |-> "none"]
  /\ drvIntent' = [j \in Calls |-> {}]
  /\ at' = [t \in Tasks |-> "off"]
  /\ attempted' = [t \in Tasks |-> {}]
  /\ queue' = [t \in Tasks |-> {}]
  /\ carried' = [t \in Tasks |-> NoVerdict]
  /\ landed' = {}
  /\ UNCHANGED <<told, decided, entryVars, target>>

\* Mutant: an entry without a verdict is sent as it stands.
RecoverAsIs ==
  /\ \E j \in recovering :
       /\ recovering' = recovering \ {j}
       /\ \E heard \in SUBSET entryUrls[j], ok \in BOOLEAN :
            /\ ok => heard # {}
            /\ told' = told \cup (heard \X {j} \X {entryVerdict[j]})
            /\ IF ok THEN ForgetEntryOf(j) ELSE UNCHANGED entryVars
  /\ UNCHANGED <<decided, crashes, phase, jobVars, claimVars, callVars, drvVars,
                 sndVars>>

\* journal::recover for one entry: its verdict, or errored if it has none, to
\* every url on it.  The entry goes if any url answered.
Recover ==
  /\ \E j \in recovering :
       /\ recovering' = recovering \ {j}
       /\ \E heard \in SUBSET entryUrls[j], ok \in BOOLEAN :
            LET v == IF entryVerdict[j] = NoVerdict THEN "errored" ELSE entryVerdict[j]
            IN  /\ ok => heard # {}
                /\ told' = told \cup (heard \X {j} \X {v})
                /\ IF ok THEN ForgetEntryOf(j) ELSE UNCHANGED entryVars
  /\ UNCHANGED <<decided, crashes, phase, jobVars, claimVars, callVars, drvVars,
                 sndVars>>

\* Recovery is over; the listener opens.
Serve ==
  /\ phase = "recovering" /\ recovering = {}
  /\ phase' = "serving"
  /\ UNCHANGED <<outVars, entryVars, recovering, jobVars, claimVars, callVars,
                 drvVars, sndVars>>

-----------------------------------------------------------------------------
Next ==
  \/ \E c \in Calls : Accept(c)
  \/ \E j \in Calls : Drive(j)
  \/ \E t \in Tasks : Report(t)
  \/ Crash
  \/ Recover
  \/ Serve

Spec == Init /\ [][Next]_vars

\* Tasks of the runtime keep running and an HTTP attempt ends; a dispatch need
\* not arrive, and nothing forces a crash.
Fairness ==
  /\ \A c \in Calls : WF_vars(pc[c] # "idle" /\ Accept(c))
  /\ \A j \in Calls : WF_vars(Drive(j))
  /\ \A t \in Tasks : WF_vars(Report(t))
  /\ WF_vars(Recover) /\ WF_vars(Serve)

FairSpec == Spec /\ Fairness

-----------------------------------------------------------------------------
\* Properties.

Answered(c) == \E v \in Statuses : <<UrlOf[c], target[c], v>> \in told

\* Nothing is running: no accept call, no driver, no sender, no recovery.
AtRest ==
  /\ phase = "serving"
  /\ \A c \in Calls : pc[c] \in Over
  /\ \A j \in Calls : drv[j] \in {"none", "done"}
  /\ \A t \in Tasks : ~Active(t)

\* "One sender per job" (drain_undelivered): finish, a re-report and the drain
\* never have two runs of report on one job at a time.
OneSender ==
  \A s, t \in Tasks : Active(s) /\ Active(t) /\ s[2] = t[2] => s = t

\* The journal keeps an entry for every job that memory says is still owed,
\* from the moment its driver starts (JobState::owes_a_verdict).
OwedIsJournaled ==
  \A j \in Calls : Here(j) /\ drv[j] # "none" /\ OwesAVerdict(state[j]) => j \in entries

\* Hull is never told green or red unless the driver decided exactly that: what
\* recovery makes up is only ever errored.
NoFabricatedVerdict ==
  \A u \in Urls, j \in Calls, v \in Statuses :
    <<u, j, v>> \in told => v = decided[j] \/ v = "errored"

\* Hull never hears two different verdicts for one job, whatever crashes.
OneAnswer ==
  \A m, n \in told : m[2] = n[2] => m[3] = n[3]

\* An acknowledged dispatch has been answered, or its url is on the journal
\* entry that the next start answers from.
AckIsDurable ==
  \A c \in Acked : \/ Answered(c)
                   \/ target[c] \in entries /\ UrlOf[c] \in entryUrls[target[c]]

\* When everything has run to its end, every acknowledged dispatch has been
\* answered, unless its job is parked for redelivery.
NothingLostAtRest ==
  AtRest => \A c \in Acked : Answered(c) \/ Parked(target[c])

\* When everything has run to its end, a delivered verdict has no journal entry.
PaidIsForgotten ==
  AtRest => \A j \in Calls : state[j] = "reported" => j \notin entries

\* An acknowledged dispatch is eventually answered or parked.
AckLeadsToAnswer ==
  \A c \in Calls : pc[c] = "acked" ~> Answered(c) \/ Parked(target[c])
=============================================================================
