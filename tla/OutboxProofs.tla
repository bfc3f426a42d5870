---------------------------- MODULE OutboxProofs ----------------------------
(***************************************************************************)
(* Proofs about module Outbox, for any number of dispatches, trees and     *)
(* urls, any number of crashes and any outcome of every journal write and  *)
(* HTTP attempt.                                                           *)
(*                                                                         *)
(* TypeInv strengthens TypeOK; TruthInv carries the verdict from finish to *)
(* every place that copies it; QuietInv is the inductive invariant behind  *)
(* OneSender and OwedIsJournaled while retention takes nothing (~Evicts):  *)
(* with eviction OneSender does not hold (the README gives the trace).     *)
(* DurableInv, PaidInv and AnswerInv are what an acknowledgement, a        *)
(* delivery and an answer come to when no two calls share a tree, whatever *)
(* is evicted and however often the process crashes; RestInv is what the   *)
(* system comes to rest in when nothing fails.                             *)
(***************************************************************************)
EXTENDS Outbox, TLAPS

\* A sender that posts, and a call that answers from a claim, hold a verdict.
PostInv == \A t \in Tasks : at[t] = "post" => carried[t] # NoVerdict
ForeignInv == \A c \in Calls : pc[c] = "foreign" => seen[c] # NoVerdict

\* The inductive strengthening of TypeOK: what is sent or recorded from a claim
\* is a verdict, never the absence of one.
TypeInv == TypeOK /\ PostInv /\ ForeignInv

Started == {"scan", "drain", "acked"}

\* A job has a driver only once the call that created it got past its journal
\* entry, and the driver decides at most once, across crashes too.
DriverInv ==
  \A c \in Calls :
    /\ drv[c] # "none" => pc[c] \in Started
    /\ decided[c] # NoVerdict => pc[c] \in Started \cup {"lost"}
    /\ drv[c] = "drive" => decided[c] = NoVerdict

\* Every copy of a verdict is the one the driver decided, and a call that has
\* not been admitted holds none.
CopyInv ==
  /\ \A j \in Calls :
       /\ verdict[j] \in {NoVerdict, decided[j]}
       /\ claimVerdict[j] \in {NoVerdict, decided[j]}
       /\ entryVerdict[j] \in {NoVerdict, decided[j]}
       /\ seen[j] \in {NoVerdict, decided[target[j]]}
       /\ pc[j] \in {"idle", "evicted"} => seen[j] = NoVerdict
  /\ \A t \in Tasks : carried[t] \in {NoVerdict, decided[t[2]]}

TruthInv == TypeInv /\ DriverInv /\ CopyInv /\ NoFabricatedVerdict

\* While the recovery pass runs nothing else does.
RecoveryInv ==
  /\ phase = "recovering" =>
       /\ \A c \in Calls : pc[c] \in Over /\ drv[c] = "none" /\ state[c] = "absent"
       /\ \A t \in Tasks : at[t] = "off"
  /\ phase = "serving" => recovering = {}

\* What a call of accept may rely on at each of its steps.
CallInv ==
  \A c \in Calls :
    /\ pc[c] \in {"snap", "write", "start", "undo"} /\ target[c] = c
         => state[c] = "running"
    /\ pc[c] = "start" /\ target[c] = c => c \in entries
    /\ pc[c] = "attach" => target[c] # c
    /\ pc[c] = "attach" /\ seen[c] # NoVerdict => drv[target[c]] # "none"
    /\ pc[c] # "foreign"
    /\ pc[c] = "rereport" => HasVerdict(state[target[c]])

\* The index names only calls that have won a claim, and a claim carries a
\* verdict only once the job's driver has decided.
ClaimInv ==
  /\ \A t \in Trees, c \in Calls : byKey[t] = c => pc[c] \notin {"idle", "evicted"}
  /\ \A j \in Calls : claimVerdict[j] # NoVerdict => drv[j] # "none"

\* A driver has its record, and the record is decided exactly when it is.
RecordInv ==
  \A j \in Calls :
    /\ drv[j] = "drive" => state[j] = "running"
    /\ HasVerdict(state[j]) => drv[j] \notin {"none", "drive"}
    /\ drv[j] \notin {"none", "drive"} => HasVerdict(state[j])

\* A running sender holds the delivery claim of a decided job.
SenderInv ==
  \A t \in Tasks :
    /\ Active(t) => HasVerdict(state[t[2]]) /\ t[2] \in delivering
    /\ at[t] = "forget" => state[t[2]] = "reported"

QuietInv ==
  /\ TypeInv /\ DriverInv
  /\ RecoveryInv /\ CallInv /\ ClaimInv /\ RecordInv /\ SenderInv
  /\ OneSender /\ OwedIsJournaled

-----------------------------------------------------------------------------
\* One lemma per part of the invariants, one step per action.

\* Every step preserves the types; TypeOK alone is not inductive, because
\* Post and RecordForeign copy a verdict that must not be the absence of one.
LEMMA TypeStep == TypeInv /\ [Next]_vars => TypeOK'
  <1> SUFFICES ASSUME TypeInv, [Next]_vars PROVE TypeOK'
    OBVIOUS
  <1> USE DEF outVars, entryVars, procVars, jobVars, claimVars,
              callVars, drvVars, sndVars
  <1>1. CASE UNCHANGED vars
    BY <1>1 DEF TypeInv, TypeOK, vars
  <1>2. ASSUME NEW c \in Calls, Arrive(c) PROVE TypeOK'
    BY <1>2, OutboxAssumption DEF Arrive, TypeInv, TypeOK, RemoveRecords,
       RecordStates, PC, DriverPC, SenderPC, Verdicts, Statuses, NoVerdict
  <1>3. ASSUME NEW c \in Calls, ForgetEvicted(c) PROVE TypeOK'
    BY <1>3, OutboxAssumption DEF ForgetEvicted, TypeInv, TypeOK, ForgetClaim,
       PC, DriverPC, SenderPC, Verdicts, Statuses, NoVerdict
  <1>4. ASSUME NEW c \in Calls, AdmitCreated(c) PROVE TypeOK'
    <2>1. UrlOf[c] \in Urls
      BY OutboxAssumption
    <2>2. TreeOf[c] \in Trees
      BY OutboxAssumption
    <2>3. claimUrls' \in [Calls -> SUBSET Urls]
      BY <1>4, <2>1 DEF AdmitCreated, TypeInv, TypeOK
    <2>4. claimVerdict' \in [Calls -> Verdicts]
      BY <1>4 DEF AdmitCreated, TypeInv, TypeOK, Verdicts
    <2>5. byKey' \in [Trees -> Calls \cup {NoJob}]
      BY <1>4, <2>2 DEF AdmitCreated, TypeInv, TypeOK
    <2>6. claimed' \subseteq Calls
      BY <1>4 DEF AdmitCreated, TypeInv, TypeOK
    <2> QED
      BY <1>4, <2>1, <2>2, <2>3, <2>4, <2>5, <2>6 DEF AdmitCreated, TypeInv,
         TypeOK, PC, DriverPC, Verdicts, NoVerdict
  <1>5. ASSUME NEW c \in Calls, AdmitAttached(c) PROVE TypeOK'
    <2>1. UrlOf[c] \in Urls
      BY OutboxAssumption
    <2>2. TreeOf[c] \in Trees
      BY OutboxAssumption
    <2>3. byKey[TreeOf[c]] \in Calls
      BY <1>5, <2>2 DEF AdmitAttached, TypeInv, TypeOK
    <2>4. claimUrls' \in [Calls -> SUBSET Urls]
      BY <1>5, <2>1, <2>3 DEF AdmitAttached, TypeInv, TypeOK
    <2>5. seen' \in [Calls -> Verdicts]
      BY <1>5, <2>3 DEF AdmitAttached, TypeInv, TypeOK
    <2>6. target' \in [Calls -> Calls]
      BY <1>5, <2>3 DEF AdmitAttached, TypeInv, TypeOK
    <2> QED
      BY <1>5, <2>1, <2>2, <2>3, <2>4, <2>5, <2>6 DEF AdmitAttached, TypeInv,
         TypeOK, PC, DriverPC, Verdicts, NoVerdict
  <1>6. ASSUME NEW c \in Calls, Insert(c) PROVE TypeOK'
    <2>1. UrlOf[c] \in Urls
      BY OutboxAssumption
    <2>2. urls' \in [Calls -> SUBSET Urls]
      BY <1>6, <2>1 DEF Insert, TypeInv, TypeOK
    <2>3. state' \in [Calls -> RecordStates]
      BY <1>6 DEF Insert, TypeInv, TypeOK, RecordStates, JobStates
    <2> QED
      BY <1>6, <2>1, <2>2, <2>3 DEF Insert, TypeInv, TypeOK, PC, DriverPC,
         Verdicts, NoVerdict
  <1>7. ASSUME NEW c \in Calls, AttachHere(c) PROVE TypeOK'
    <2>1. UrlOf[c] \in Urls
      BY OutboxAssumption
    <2>2. urls' \in [Calls -> SUBSET Urls]
      BY <1>7, <2>1 DEF AttachHere, TypeInv, TypeOK
    <2> QED
      BY <1>7, <2>1, <2>2 DEF AttachHere, TypeInv, TypeOK, PC, DriverPC,
         Verdicts, NoVerdict
  <1>8. ASSUME NEW c \in Calls, AttachElsewhere(c) PROVE TypeOK'
    BY <1>8, OutboxAssumption DEF AttachElsewhere, TypeInv, TypeOK, PC,
       DriverPC, SenderPC, Verdicts, Statuses, NoVerdict
  <1>9. ASSUME NEW c \in Calls, RecordForeign(c) PROVE TypeOK'
    <2>1. UrlOf[c] \in Urls
      BY OutboxAssumption
    <2>2. urls' \in [Calls -> SUBSET Urls]
      BY <1>9, <2>1 DEF RecordForeign, TypeInv, TypeOK
    <2>3. seen[c] \in Statuses
      BY <1>9 DEF RecordForeign, TypeInv, TypeOK, ForeignInv, Verdicts
    <2>4. state' \in [Calls -> RecordStates]
      BY <1>9, <2>3 DEF RecordForeign, TypeInv, TypeOK, RecordStates, JobStates
    <2>5. verdict' \in [Calls -> Verdicts]
      BY <1>9, <2>3 DEF RecordForeign, TypeInv, TypeOK, Verdicts
    <2> QED
      BY <1>9, <2>1, <2>2, <2>3, <2>4, <2>5 DEF RecordForeign, TypeInv, TypeOK,
         PC, DriverPC, Verdicts, NoVerdict
  <1>10. ASSUME NEW c \in Calls, Snapshot(c) PROVE TypeOK'
    BY <1>10, OutboxAssumption DEF Snapshot, TypeInv, TypeOK, PC, DriverPC,
       SenderPC, Verdicts, Statuses, NoVerdict
  <1>11. ASSUME NEW c \in Calls, WriteIntent(c) PROVE TypeOK'
    BY <1>11, OutboxAssumption DEF WriteIntent, TypeInv, TypeOK, RecordEntry,
       PC, DriverPC, SenderPC, Verdicts, Statuses, NoVerdict
  <1>12. ASSUME NEW c \in Calls, RefuseNotDurable(c) PROVE TypeOK'
    BY <1>12, OutboxAssumption DEF RefuseNotDurable, TypeInv, TypeOK, PC,
       DriverPC, SenderPC, Verdicts, Statuses, NoVerdict
  <1>13. ASSUME NEW c \in Calls, UndoRecord(c) PROVE TypeOK'
    BY <1>13, OutboxAssumption DEF UndoRecord, TypeInv, TypeOK, RemoveRecords,
       RecordStates, PC, DriverPC, SenderPC, Verdicts, Statuses, NoVerdict
  <1>14. ASSUME NEW c \in Calls, UndoClaim(c) PROVE TypeOK'
    BY <1>14, OutboxAssumption DEF UndoClaim, TypeInv, TypeOK, ForgetClaim, PC,
       DriverPC, SenderPC, Verdicts, Statuses, NoVerdict
  <1>15. ASSUME NEW c \in Calls, Start(c) PROVE TypeOK'
    BY <1>15, OutboxAssumption DEF Start, TypeInv, TypeOK, PC, DriverPC,
       SenderPC, Verdicts, Statuses, NoVerdict
  <1>16. ASSUME NEW c \in Calls, ReReport(c) PROVE TypeOK'
    <2>1. <<c, target[c]>> \in Tasks /\ target[c] \in Calls
      BY  DEF TypeInv, TypeOK, Tasks
    <2>2. at' \in [Tasks -> SenderPC]
      BY <1>16, <2>1 DEF ReReport, StartSender, TypeInv, TypeOK, SenderPC
    <2>3. delivering' \subseteq Calls
      BY <1>16, <2>1 DEF ReReport, StartSender, TypeInv, TypeOK
    <2> QED
      BY <1>16, <2>1, <2>2, <2>3 DEF ReReport, TypeInv, TypeOK, PC, DriverPC,
         Verdicts, NoVerdict
  <1>17. ASSUME NEW c \in Calls, Scan(c) PROVE TypeOK'
    BY <1>17, OutboxAssumption DEF Scan, TypeInv, TypeOK, PC, DriverPC,
       SenderPC, Verdicts, Statuses, NoVerdict
  <1>18. ASSUME NEW c \in Calls, Redeliver(c) PROVE TypeOK'
    <2>1. \A j \in todo[c] : <<c, j>> \in Tasks /\ j \in Calls
      BY  DEF TypeInv, TypeOK, Tasks
    <2>2. at' \in [Tasks -> SenderPC]
      BY <1>18, <2>1 DEF Redeliver, StartSender, TypeInv, TypeOK, SenderPC
    <2>3. delivering' \subseteq Calls
      BY <1>18, <2>1 DEF Redeliver, StartSender, TypeInv, TypeOK
    <2> QED
      BY <1>18, <2>1, <2>2, <2>3 DEF Redeliver, TypeInv, TypeOK, PC, DriverPC,
         Verdicts, NoVerdict
  <1>19. ASSUME NEW c \in Calls, Ack(c) PROVE TypeOK'
    BY <1>19, OutboxAssumption DEF Ack, TypeInv, TypeOK, PC, DriverPC, SenderPC,
       Verdicts, Statuses, NoVerdict
  <1>20. ASSUME NEW j \in Calls, Decide(j) PROVE TypeOK'
    BY <1>20, OutboxAssumption DEF Decide, TypeInv, TypeOK, RecordStates,
       JobStates, JobTransition, PC, DriverPC, SenderPC, Verdicts, Statuses,
       NoVerdict
  <1>21. ASSUME NEW j \in Calls, Settle(j) PROVE TypeOK'
    BY <1>21, OutboxAssumption DEF Settle, TypeInv, TypeOK, PC, DriverPC,
       SenderPC, Verdicts, Statuses, NoVerdict
  <1>22. ASSUME NEW j \in Calls, SnapshotVerdict(j) PROVE TypeOK'
    BY <1>22, OutboxAssumption DEF SnapshotVerdict, TypeInv, TypeOK, PC,
       DriverPC, SenderPC, Verdicts, Statuses, NoVerdict
  <1>23. ASSUME NEW j \in Calls, WriteVerdict(j) PROVE TypeOK'
    <2>1. RecordEntry(j, drvIntent[j], decided[j]) \/ UNCHANGED entryVars
      BY <1>23 DEF WriteVerdict
    <2>2. entries' \subseteq Calls
      BY <1>23, <2>1 DEF RecordEntry, TypeInv, TypeOK, entryVars
    <2>3. entryUrls' \in [Calls -> SUBSET Urls]
      BY <1>23, <2>1 DEF RecordEntry, TypeInv, TypeOK, entryVars
    <2>4. entryVerdict' \in [Calls -> Verdicts]
      BY <1>23, <2>1 DEF RecordEntry, TypeInv, TypeOK, entryVars
    <2> QED
      BY <1>23, <2>1, <2>2, <2>3, <2>4 DEF WriteVerdict, TypeInv, TypeOK, PC,
         DriverPC, Verdicts, NoVerdict
  <1>24. ASSUME NEW j \in Calls, Send(j) PROVE TypeOK'
    <2>1. <<j, j>> \in Tasks
      BY  DEF Tasks
    <2>2. at' \in [Tasks -> SenderPC]
      BY <1>24, <2>1 DEF Send, StartSender, TypeInv, TypeOK, SenderPC
    <2>3. delivering' \subseteq Calls
      BY <1>24, <2>1 DEF Send, StartSender, TypeInv, TypeOK
    <2> QED
      BY <1>24, <2>1, <2>2, <2>3 DEF Send, TypeInv, TypeOK, PC, DriverPC,
         Verdicts, NoVerdict
  <1>25. ASSUME NEW t \in Tasks, Merge(t) PROVE TypeOK'
    BY <1>25, OutboxAssumption DEF Merge, TypeInv, TypeOK, PC, DriverPC,
       SenderPC, Verdicts, Statuses, NoVerdict, Tasks
  <1>26. ASSUME NEW t \in Tasks, Read(t) PROVE TypeOK'
    BY <1>26, OutboxAssumption DEF Read, TypeInv, TypeOK, PC, DriverPC,
       SenderPC, Verdicts, Statuses, NoVerdict, Tasks
  <1>27. ASSUME NEW t \in Tasks, Post(t) PROVE TypeOK'
    BY <1>27, OutboxAssumption DEF Post, TypeInv, TypeOK, PostInv, PC, DriverPC,
       SenderPC, Verdicts, Statuses, NoVerdict, Tasks
  <1>28. ASSUME NEW t \in Tasks, SettleReport(t) PROVE TypeOK'
    BY <1>28, OutboxAssumption DEF SettleReport, TypeInv, TypeOK, RecordStates,
       JobStates, JobTransition, PC, DriverPC, SenderPC, Verdicts, Statuses,
       NoVerdict, Tasks
  <1>29. ASSUME NEW t \in Tasks, ForgetEntry(t) PROVE TypeOK'
    BY <1>29, OutboxAssumption DEF ForgetEntry, TypeInv, TypeOK, ForgetEntryOf,
       PC, DriverPC, SenderPC, Verdicts, Statuses, NoVerdict, Tasks
  <1>30. ASSUME NEW t \in Tasks, Release(t) PROVE TypeOK'
    BY <1>30, OutboxAssumption DEF Release, TypeInv, TypeOK, PC, DriverPC,
       SenderPC, Verdicts, Statuses, NoVerdict, Tasks
  <1>31. ASSUME Crash PROVE TypeOK'
    BY <1>31, OutboxAssumption DEF Crash, TypeInv, TypeOK, RemoveRecords,
       RecordStates, PC, DriverPC, SenderPC, Verdicts, Statuses, NoVerdict,
       Tasks
  <1>32. ASSUME Recover PROVE TypeOK'
    <2>1. recovering' \subseteq Calls
      BY <1>32 DEF Recover, TypeInv, TypeOK
    <2>2. told' \subseteq Urls \X Calls \X Statuses
      BY <1>32 DEF Recover, TypeInv, TypeOK, Verdicts, Statuses, NoVerdict
    <2>3. /\ entries' \subseteq Calls
         /\ entryUrls' \in [Calls -> SUBSET Urls]
         /\ entryVerdict' \in [Calls -> Verdicts]
      BY <1>32 DEF Recover, ForgetEntryOf, TypeInv, TypeOK, entryVars, Verdicts
    <2> QED
      BY <1>32, <2>1, <2>2, <2>3 DEF Recover, TypeInv, TypeOK, PC, DriverPC,
         Verdicts, NoVerdict
  <1>33. ASSUME Serve PROVE TypeOK'
    BY <1>33, OutboxAssumption DEF Serve, TypeInv, TypeOK, PC, DriverPC,
       SenderPC, Verdicts, Statuses, NoVerdict
  <1> QED
    BY <1>1, <1>2, <1>3, <1>4, <1>5, <1>6, <1>7, <1>8, <1>9, <1>10, <1>11,
       <1>12, <1>13, <1>14, <1>15, <1>16, <1>17, <1>18, <1>19, <1>20, <1>21,
       <1>22, <1>23, <1>24, <1>25, <1>26, <1>27, <1>28, <1>29, <1>30, <1>31,
       <1>32, <1>33 DEF Next, Accept, Drive, Report

\* What a sender carries, and what a call answers from a claim, is a verdict.
LEMMA PostForeignStep == TypeInv /\ [Next]_vars => (PostInv /\ ForeignInv)'
  <1> SUFFICES ASSUME TypeInv, [Next]_vars PROVE (PostInv /\ ForeignInv)'
    OBVIOUS
  <1> USE DEF outVars, entryVars, procVars, jobVars, claimVars,
              callVars, drvVars, sndVars
  <1>1. CASE UNCHANGED <<at, carried, pc, seen>>
    BY <1>1 DEF TypeInv, PostInv, ForeignInv
  <1>2. CASE UNCHANGED vars
    BY <1>1, <1>2 DEF vars
  <1>3. ASSUME NEW c \in Calls, ForgetEvicted(c)
        PROVE  (PostInv /\ ForeignInv)'
    BY <1>1, <1>3 DEF ForgetEvicted, ForgetClaim
  <1>4. ASSUME NEW c \in Calls, Arrive(c) PROVE (PostInv /\ ForeignInv)'
    BY <1>4 DEF Arrive, RemoveRecords, TypeInv, TypeOK, PostInv, ForeignInv
  <1>5. ASSUME NEW c \in Calls, AdmitCreated(c) PROVE (PostInv /\ ForeignInv)'
    BY <1>5 DEF AdmitCreated, TypeInv, TypeOK, PostInv, ForeignInv
  <1>6. ASSUME NEW c \in Calls, AdmitAttached(c) PROVE (PostInv /\ ForeignInv)'
    BY <1>6 DEF AdmitAttached, TypeInv, TypeOK, PostInv, ForeignInv
  <1>7. ASSUME NEW c \in Calls, Insert(c) PROVE (PostInv /\ ForeignInv)'
    BY <1>7 DEF Insert, TypeInv, TypeOK, PostInv, ForeignInv
  <1>8. ASSUME NEW c \in Calls, AttachHere(c) PROVE (PostInv /\ ForeignInv)'
    BY <1>8 DEF AttachHere, TypeInv, TypeOK, PostInv, ForeignInv
  <1>9. ASSUME NEW c \in Calls, AttachElsewhere(c) PROVE (PostInv /\ ForeignInv)'
    BY <1>9 DEF AttachElsewhere, TypeInv, TypeOK, PostInv, ForeignInv
  <1>10. ASSUME NEW c \in Calls, RecordForeign(c) PROVE (PostInv /\ ForeignInv)'
    BY <1>10 DEF RecordForeign, TypeInv, TypeOK, PostInv, ForeignInv
  <1>11. ASSUME NEW c \in Calls, Snapshot(c) PROVE (PostInv /\ ForeignInv)'
    BY <1>11 DEF Snapshot, TypeInv, TypeOK, PostInv, ForeignInv
  <1>12. ASSUME NEW c \in Calls, WriteIntent(c) PROVE (PostInv /\ ForeignInv)'
    BY <1>12 DEF WriteIntent, RecordEntry, TypeInv, TypeOK, PostInv, ForeignInv
  <1>13. ASSUME NEW c \in Calls, RefuseNotDurable(c) PROVE (PostInv /\ ForeignInv)'
    BY <1>13 DEF RefuseNotDurable, TypeInv, TypeOK, PostInv, ForeignInv
  <1>14. ASSUME NEW c \in Calls, UndoRecord(c) PROVE (PostInv /\ ForeignInv)'
    BY <1>14 DEF UndoRecord, RemoveRecords, TypeInv, TypeOK, PostInv, ForeignInv
  <1>15. ASSUME NEW c \in Calls, UndoClaim(c) PROVE (PostInv /\ ForeignInv)'
    BY <1>15 DEF UndoClaim, ForgetClaim, TypeInv, TypeOK, PostInv, ForeignInv
  <1>16. ASSUME NEW c \in Calls, Start(c) PROVE (PostInv /\ ForeignInv)'
    BY <1>16 DEF Start, TypeInv, TypeOK, PostInv, ForeignInv
  <1>17. ASSUME NEW c \in Calls, ReReport(c) PROVE (PostInv /\ ForeignInv)'
    BY <1>17 DEF ReReport, StartSender, TypeInv, TypeOK, PostInv, ForeignInv
  <1>18. ASSUME NEW c \in Calls, Scan(c) PROVE (PostInv /\ ForeignInv)'
    BY <1>18 DEF Scan, TypeInv, TypeOK, PostInv, ForeignInv
  <1>19. ASSUME NEW c \in Calls, Redeliver(c) PROVE (PostInv /\ ForeignInv)'
    BY <1>19 DEF Redeliver, StartSender, TypeInv, TypeOK, PostInv, ForeignInv
  <1>20. ASSUME NEW c \in Calls, Ack(c) PROVE (PostInv /\ ForeignInv)'
    BY <1>20 DEF Ack, TypeInv, TypeOK, PostInv, ForeignInv
  <1>21. ASSUME NEW j \in Calls, Decide(j) \/ Settle(j) \/ SnapshotVerdict(j)
              \/ WriteVerdict(j)
        PROVE  (PostInv /\ ForeignInv)'
    BY <1>1, <1>21 DEF Decide, Settle, SnapshotVerdict, WriteVerdict,
       RecordEntry
  <1>22. ASSUME NEW j \in Calls, Send(j) PROVE (PostInv /\ ForeignInv)'
    BY <1>22 DEF Send, StartSender, TypeInv, TypeOK, PostInv, ForeignInv
  <1>23. ASSUME NEW t \in Tasks, Merge(t) PROVE (PostInv /\ ForeignInv)'
    BY <1>23 DEF Merge, TypeInv, TypeOK, PostInv, ForeignInv
  <1>24. ASSUME NEW t \in Tasks, Read(t) PROVE (PostInv /\ ForeignInv)'
    BY <1>24 DEF Read, TypeInv, TypeOK, PostInv, ForeignInv
  <1>25. ASSUME NEW t \in Tasks, Post(t) PROVE (PostInv /\ ForeignInv)'
    BY <1>25 DEF Post, TypeInv, TypeOK, PostInv, ForeignInv
  <1>26. ASSUME NEW t \in Tasks, SettleReport(t) PROVE (PostInv /\ ForeignInv)'
    BY <1>26 DEF SettleReport, TypeInv, TypeOK, PostInv, ForeignInv
  <1>27. ASSUME NEW t \in Tasks, ForgetEntry(t) PROVE (PostInv /\ ForeignInv)'
    BY <1>27 DEF ForgetEntry, ForgetEntryOf, TypeInv, TypeOK, PostInv,
       ForeignInv
  <1>28. ASSUME NEW t \in Tasks, Release(t) PROVE (PostInv /\ ForeignInv)'
    BY <1>28 DEF Release, TypeInv, TypeOK, PostInv, ForeignInv
  <1>29. ASSUME Recover \/ Serve
        PROVE  (PostInv /\ ForeignInv)'
    BY <1>1, <1>29 DEF Recover, Serve, ForgetEntryOf
  <1>30. ASSUME Crash PROVE (PostInv /\ ForeignInv)'
    BY <1>30 DEF Crash, RemoveRecords, Over, TypeInv, TypeOK, PostInv,
       ForeignInv
  <1> QED
    BY <1>1, <1>2, <1>3, <1>4, <1>5, <1>6, <1>7, <1>8, <1>9, <1>10, <1>11,
       <1>12, <1>13, <1>14, <1>15, <1>16, <1>17, <1>18, <1>19, <1>20, <1>21,
       <1>22, <1>23, <1>24, <1>25, <1>26, <1>27, <1>28, <1>29, <1>30 DEF Next,
       Accept, Drive, Report

\* One driver per job, started by the call that created it, deciding once.
LEMMA DriverStep == TypeInv /\ DriverInv /\ [Next]_vars => DriverInv'
  <1> SUFFICES ASSUME TypeInv, DriverInv, [Next]_vars PROVE DriverInv'
    OBVIOUS
  <1> USE DEF outVars, entryVars, procVars, jobVars, claimVars,
              callVars, drvVars, sndVars
  <1>1. CASE UNCHANGED <<pc, drv, decided>>
    BY <1>1 DEF DriverInv
  <1>2. CASE UNCHANGED vars
    BY <1>1, <1>2 DEF vars
  <1>3. ASSUME NEW c \in Calls, ForgetEvicted(c) \/ Redeliver(c)
        PROVE  DriverInv'
    BY <1>1, <1>3 DEF ForgetEvicted, Redeliver, ForgetClaim, StartSender
  <1>4. ASSUME NEW c \in Calls, Arrive(c) PROVE DriverInv'
    BY <1>4 DEF Arrive, RemoveRecords, TypeInv, TypeOK, DriverInv, Started
  <1>5. ASSUME NEW c \in Calls, AdmitCreated(c) PROVE DriverInv'
    BY <1>5 DEF AdmitCreated, TypeInv, TypeOK, DriverInv, Started
  <1>6. ASSUME NEW c \in Calls, AdmitAttached(c) PROVE DriverInv'
    BY <1>6 DEF AdmitAttached, TypeInv, TypeOK, DriverInv, Started
  <1>7. ASSUME NEW c \in Calls, Insert(c) PROVE DriverInv'
    BY <1>7 DEF Insert, TypeInv, TypeOK, DriverInv, Started
  <1>8. ASSUME NEW c \in Calls, AttachHere(c) PROVE DriverInv'
    BY <1>8 DEF AttachHere, TypeInv, TypeOK, DriverInv, Started
  <1>9. ASSUME NEW c \in Calls, AttachElsewhere(c) PROVE DriverInv'
    BY <1>9 DEF AttachElsewhere, TypeInv, TypeOK, DriverInv, Started
  <1>10. ASSUME NEW c \in Calls, RecordForeign(c) PROVE DriverInv'
    BY <1>10 DEF RecordForeign, TypeInv, TypeOK, DriverInv, Started
  <1>11. ASSUME NEW c \in Calls, Snapshot(c) PROVE DriverInv'
    BY <1>11 DEF Snapshot, TypeInv, TypeOK, DriverInv, Started
  <1>12. ASSUME NEW c \in Calls, WriteIntent(c) PROVE DriverInv'
    BY <1>12 DEF WriteIntent, RecordEntry, TypeInv, TypeOK, DriverInv, Started
  <1>13. ASSUME NEW c \in Calls, RefuseNotDurable(c) PROVE DriverInv'
    BY <1>13 DEF RefuseNotDurable, TypeInv, TypeOK, DriverInv, Started
  <1>14. ASSUME NEW c \in Calls, UndoRecord(c) PROVE DriverInv'
    BY <1>14 DEF UndoRecord, RemoveRecords, TypeInv, TypeOK, DriverInv, Started
  <1>15. ASSUME NEW c \in Calls, UndoClaim(c) PROVE DriverInv'
    BY <1>15 DEF UndoClaim, ForgetClaim, TypeInv, TypeOK, DriverInv, Started
  <1>16. ASSUME NEW c \in Calls, Start(c) PROVE DriverInv'
    BY <1>16 DEF Start, TypeInv, TypeOK, DriverInv, Started
  <1>17. ASSUME NEW c \in Calls, ReReport(c) PROVE DriverInv'
    BY <1>17 DEF ReReport, StartSender, TypeInv, TypeOK, DriverInv, Started
  <1>18. ASSUME NEW c \in Calls, Scan(c) PROVE DriverInv'
    BY <1>18 DEF Scan, TypeInv, TypeOK, DriverInv, Started
  <1>19. ASSUME NEW c \in Calls, Ack(c) PROVE DriverInv'
    BY <1>19 DEF Ack, TypeInv, TypeOK, DriverInv, Started
  <1>20. ASSUME NEW j \in Calls, Decide(j) PROVE DriverInv'
    BY <1>20 DEF Decide, TypeInv, TypeOK, DriverInv, Started
  <1>21. ASSUME NEW j \in Calls, Settle(j) PROVE DriverInv'
    BY <1>21 DEF Settle, TypeInv, TypeOK, DriverInv, Started
  <1>22. ASSUME NEW j \in Calls, SnapshotVerdict(j) PROVE DriverInv'
    BY <1>22 DEF SnapshotVerdict, TypeInv, TypeOK, DriverInv, Started
  <1>23. ASSUME NEW j \in Calls, WriteVerdict(j) PROVE DriverInv'
    BY <1>23 DEF WriteVerdict, RecordEntry, TypeInv, TypeOK, DriverInv, Started
  <1>24. ASSUME NEW j \in Calls, Send(j) PROVE DriverInv'
    BY <1>24 DEF Send, StartSender, TypeInv, TypeOK, DriverInv, Started
  <1>25. ASSUME NEW t \in Tasks, Merge(t) \/ Read(t) \/ Post(t) \/
              SettleReport(t) \/ ForgetEntry(t) \/ Release(t)
        PROVE  DriverInv'
    BY <1>1, <1>25 DEF Merge, Read, Post, SettleReport, ForgetEntry, Release,
       ForgetEntryOf
  <1>26. ASSUME Recover \/ Serve
        PROVE  DriverInv'
    BY <1>1, <1>26 DEF Recover, Serve, ForgetEntryOf
  <1>27. ASSUME Crash PROVE DriverInv'
    BY <1>27 DEF Crash, RemoveRecords, Over, PC, TypeInv, TypeOK, DriverInv,
       Started
  <1> QED
    BY <1>1, <1>2, <1>3, <1>4, <1>5, <1>6, <1>7, <1>8, <1>9, <1>10, <1>11,
       <1>12, <1>13, <1>14, <1>15, <1>16, <1>17, <1>18, <1>19, <1>20, <1>21,
       <1>22, <1>23, <1>24, <1>25, <1>26, <1>27 DEF Next, Accept, Drive, Report

\* Record, claim, journal, call and sender only ever hold the decision itself:
\* the write of the verdict (WriteVerdict), the claim's publication (Settle),
\* the attach (AdmitAttached) and the foreign record copy it unchanged.
LEMMA CopyStep == TruthInv /\ [Next]_vars => CopyInv'
  <1> SUFFICES ASSUME TruthInv, [Next]_vars PROVE CopyInv'
    OBVIOUS
  <1> USE DEF outVars, entryVars, procVars, jobVars, claimVars,
              callVars, drvVars, sndVars
  <1>1. CASE UNCHANGED <<verdict, decided, claimVerdict, entryVerdict, seen, target,
                         pc, carried>>
    BY <1>1 DEF TruthInv, CopyInv
  <1>2. CASE UNCHANGED vars
    BY <1>1, <1>2 DEF vars
  <1>3. ASSUME NEW c \in Calls, Redeliver(c)
        PROVE  CopyInv'
    BY <1>1, <1>3 DEF Redeliver, StartSender
  <1>4. ASSUME NEW c \in Calls, Arrive(c) PROVE CopyInv'
    BY <1>4 DEF Arrive, RemoveRecords, TruthInv, TypeInv, TypeOK, DriverInv,
       CopyInv, Started, Tasks
  <1>5. ASSUME NEW c \in Calls, ForgetEvicted(c) PROVE CopyInv'
    BY <1>5 DEF ForgetEvicted, ForgetClaim, TruthInv, TypeInv, TypeOK,
       DriverInv, CopyInv, Started, Tasks
  <1>6. ASSUME NEW c \in Calls, AdmitCreated(c) PROVE CopyInv'
    <2>1. seen[c] = NoVerdict
      BY <1>6 DEF AdmitCreated, TruthInv, CopyInv
    <2>2. \A j \in Calls : seen'[j] \in {NoVerdict, decided'[target'[j]]}
      BY <1>6, <2>1 DEF AdmitCreated, TruthInv, TypeInv, TypeOK, CopyInv,
         outVars
    <2>3. \A j \in Calls : claimVerdict'[j] \in {NoVerdict, decided'[j]}
      BY <1>6 DEF AdmitCreated, TruthInv, TypeInv, TypeOK, CopyInv, outVars
    <2> QED
      BY <1>6, <2>1, <2>2, <2>3 DEF AdmitCreated, TruthInv, TypeInv, TypeOK,
         CopyInv
  <1>7. ASSUME NEW c \in Calls, AdmitAttached(c) PROVE CopyInv'
    <2>1. TreeOf[c] \in Trees
      BY OutboxAssumption
    <2>2. byKey[TreeOf[c]] \in Calls
      BY <1>7, <2>1 DEF AdmitAttached, TruthInv, TypeInv, TypeOK
    <2>3. /\ seen' = [seen EXCEPT ![c] = claimVerdict[byKey[TreeOf[c]]]]
         /\ target' = [target EXCEPT ![c] = byKey[TreeOf[c]]]
      BY <1>7 DEF AdmitAttached
    <2>4. \A j \in Calls : seen'[j] \in {NoVerdict, decided[target'[j]]}
      BY <2>2, <2>3 DEF TruthInv, TypeInv, TypeOK, CopyInv
    <2> QED
      BY <1>7, <2>1, <2>2, <2>3, <2>4 DEF AdmitAttached, TruthInv, TypeInv,
         TypeOK, CopyInv
  <1>8. ASSUME NEW c \in Calls, Insert(c) PROVE CopyInv'
    BY <1>8 DEF Insert, TruthInv, TypeInv, TypeOK, DriverInv, CopyInv, Started,
       Tasks
  <1>9. ASSUME NEW c \in Calls, AttachHere(c) PROVE CopyInv'
    BY <1>9 DEF AttachHere, TruthInv, TypeInv, TypeOK, DriverInv, CopyInv,
       Started, Tasks
  <1>10. ASSUME NEW c \in Calls, AttachElsewhere(c) PROVE CopyInv'
    BY <1>10 DEF AttachElsewhere, TruthInv, TypeInv, TypeOK, DriverInv, CopyInv,
       Started, Tasks
  <1>11. ASSUME NEW c \in Calls, RecordForeign(c) PROVE CopyInv'
    BY <1>11 DEF RecordForeign, TruthInv, TypeInv, TypeOK, DriverInv, CopyInv,
       Started, Tasks
  <1>12. ASSUME NEW c \in Calls, Snapshot(c) PROVE CopyInv'
    BY <1>12 DEF Snapshot, TruthInv, TypeInv, TypeOK, DriverInv, CopyInv,
       Started, Tasks
  <1>13. ASSUME NEW c \in Calls, WriteIntent(c) PROVE CopyInv'
    BY <1>13 DEF WriteIntent, RecordEntry, TruthInv, TypeInv, TypeOK, DriverInv,
       CopyInv, Started, Tasks
  <1>14. ASSUME NEW c \in Calls, RefuseNotDurable(c) PROVE CopyInv'
    BY <1>14 DEF RefuseNotDurable, TruthInv, TypeInv, TypeOK, DriverInv,
       CopyInv, Started, Tasks
  <1>15. ASSUME NEW c \in Calls, UndoRecord(c) PROVE CopyInv'
    BY <1>15 DEF UndoRecord, RemoveRecords, TruthInv, TypeInv, TypeOK,
       DriverInv, CopyInv, Started, Tasks
  <1>16. ASSUME NEW c \in Calls, UndoClaim(c) PROVE CopyInv'
    BY <1>16 DEF UndoClaim, ForgetClaim, TruthInv, TypeInv, TypeOK, DriverInv,
       CopyInv, Started, Tasks
  <1>17. ASSUME NEW c \in Calls, Start(c) PROVE CopyInv'
    BY <1>17 DEF Start, TruthInv, TypeInv, TypeOK, DriverInv, CopyInv, Started,
       Tasks
  <1>18. ASSUME NEW c \in Calls, ReReport(c) PROVE CopyInv'
    BY <1>18 DEF ReReport, StartSender, TruthInv, TypeInv, TypeOK, DriverInv,
       CopyInv, Started, Tasks
  <1>19. ASSUME NEW c \in Calls, Scan(c) PROVE CopyInv'
    BY <1>19 DEF Scan, TruthInv, TypeInv, TypeOK, DriverInv, CopyInv, Started,
       Tasks
  <1>20. ASSUME NEW c \in Calls, Ack(c) PROVE CopyInv'
    BY <1>20 DEF Ack, TruthInv, TypeInv, TypeOK, DriverInv, CopyInv, Started,
       Tasks
  <1>21. ASSUME NEW j \in Calls, SnapshotVerdict(j) \/ Send(j)
        PROVE  CopyInv'
    BY <1>1, <1>21 DEF SnapshotVerdict, Send, StartSender
  <1>22. ASSUME NEW j \in Calls, Decide(j) PROVE CopyInv'
    BY <1>22 DEF Decide, TruthInv, TypeInv, TypeOK, DriverInv, CopyInv, Started,
       Tasks
  <1>23. ASSUME NEW j \in Calls, Settle(j) PROVE CopyInv'
    BY <1>23 DEF Settle, TruthInv, TypeInv, TypeOK, DriverInv, CopyInv, Started,
       Tasks
  <1>24. ASSUME NEW j \in Calls, WriteVerdict(j) PROVE CopyInv'
    BY <1>24 DEF WriteVerdict, RecordEntry, TruthInv, TypeInv, TypeOK,
       DriverInv, CopyInv, Started, Tasks
  <1>25. ASSUME NEW t \in Tasks, Merge(t) \/ Post(t) \/ SettleReport(t)
        PROVE  CopyInv'
    BY <1>1, <1>25 DEF Merge, Post, SettleReport
  <1>26. ASSUME NEW t \in Tasks, Read(t) PROVE CopyInv'
    BY <1>26 DEF Read, TruthInv, TypeInv, TypeOK, DriverInv, CopyInv, Started,
       Tasks
  <1>27. ASSUME NEW t \in Tasks, ForgetEntry(t) PROVE CopyInv'
    BY <1>27 DEF ForgetEntry, ForgetEntryOf, TruthInv, TypeInv, TypeOK,
       DriverInv, CopyInv, Started, Tasks
  <1>28. ASSUME NEW t \in Tasks, Release(t) PROVE CopyInv'
    BY <1>28 DEF Release, TruthInv, TypeInv, TypeOK, DriverInv, CopyInv,
       Started, Tasks
  <1>29. ASSUME Serve
        PROVE  CopyInv'
    BY <1>1, <1>29 DEF Serve
  <1>30. ASSUME Crash PROVE CopyInv'
    BY <1>30 DEF Crash, RemoveRecords, Over, TruthInv, TypeInv, TypeOK,
       DriverInv, CopyInv, Started, Tasks
  <1>31. ASSUME Recover PROVE CopyInv'
    BY <1>31, ZenonT(40) DEF Recover, ForgetEntryOf, TruthInv, TypeInv, TypeOK, DriverInv,
       CopyInv, Started, Tasks
  <1> QED
    BY <1>1, <1>2, <1>3, <1>4, <1>5, <1>6, <1>7, <1>8, <1>9, <1>10, <1>11,
       <1>12, <1>13, <1>14, <1>15, <1>16, <1>17, <1>18, <1>19, <1>20, <1>21,
       <1>22, <1>23, <1>24, <1>25, <1>26, <1>27, <1>28, <1>29, <1>30, <1>31 DEF
       Next, Accept, Drive, Report

\* Only Post and Recover tell Hull anything, and both tell a copy of the
\* decision or errored.
LEMMA FabricateStep == TruthInv /\ [Next]_vars => NoFabricatedVerdict'
  <1> SUFFICES ASSUME TruthInv, [Next]_vars PROVE NoFabricatedVerdict'
    OBVIOUS
  <1> USE DEF outVars, entryVars, procVars, jobVars, claimVars,
              callVars, drvVars, sndVars
  <1>1. CASE UNCHANGED <<told, decided>>
    BY <1>1 DEF TruthInv, NoFabricatedVerdict
  <1>2. CASE UNCHANGED vars
    BY <1>1, <1>2 DEF vars
  <1>3. ASSUME NEW c \in Calls, Arrive(c) \/ ForgetEvicted(c) \/
              AdmitCreated(c) \/ AdmitAttached(c) \/ Insert(c) \/
              AttachHere(c) \/ AttachElsewhere(c) \/ RecordForeign(c) \/
              Snapshot(c) \/ WriteIntent(c) \/ RefuseNotDurable(c) \/
              UndoRecord(c) \/ UndoClaim(c) \/ Start(c) \/ ReReport(c) \/
              Scan(c) \/ Redeliver(c) \/ Ack(c)
        PROVE  NoFabricatedVerdict'
    BY <1>1, <1>3 DEF Arrive, ForgetEvicted, AdmitCreated, AdmitAttached,
       Insert, AttachHere, AttachElsewhere, RecordForeign, Snapshot,
       WriteIntent, RefuseNotDurable, UndoRecord, UndoClaim, Start, ReReport,
       Scan, Redeliver, Ack, ForgetClaim, RecordEntry, RemoveRecords,
       StartSender
  <1>4. ASSUME NEW j \in Calls, Settle(j) \/ SnapshotVerdict(j) \/
              WriteVerdict(j) \/ Send(j)
        PROVE  NoFabricatedVerdict'
    BY <1>1, <1>4 DEF Settle, SnapshotVerdict, WriteVerdict, Send, RecordEntry,
       StartSender
  <1>5. ASSUME NEW j \in Calls, Decide(j) PROVE NoFabricatedVerdict'
    BY <1>5, ZenonT(40) DEF Decide, Statuses, NoVerdict, TruthInv, TypeInv, TypeOK,
       DriverInv, CopyInv, NoFabricatedVerdict, Tasks, Started
  <1>6. ASSUME NEW t \in Tasks, Merge(t) \/ Read(t) \/ SettleReport(t) \/
              ForgetEntry(t) \/ Release(t)
        PROVE  NoFabricatedVerdict'
    BY <1>1, <1>6 DEF Merge, Read, SettleReport, ForgetEntry, Release,
       ForgetEntryOf
  <1>7. ASSUME NEW t \in Tasks, Post(t) PROVE NoFabricatedVerdict'
    BY <1>7 DEF Post, PostInv, Verdicts, TruthInv, TypeInv, TypeOK, DriverInv,
       CopyInv, NoFabricatedVerdict, Tasks, Started
  <1>8. ASSUME Crash \/ Serve
        PROVE  NoFabricatedVerdict'
    BY <1>1, <1>8 DEF Crash, Serve, RemoveRecords, Over
  <1>9. ASSUME Recover PROVE NoFabricatedVerdict'
    BY <1>9 DEF Recover, ForgetEntryOf, Verdicts, TruthInv, TypeInv, TypeOK,
       DriverInv, CopyInv, NoFabricatedVerdict, Tasks, Started
  <1> QED
    BY <1>1, <1>2, <1>3, <1>4, <1>5, <1>6, <1>7, <1>8, <1>9 DEF Next, Accept,
       Drive, Report

\* The listener opens only after recovery, so nothing runs beside it.
LEMMA RecoveryStep == ~Evicts /\ QuietInv /\ [Next]_vars => RecoveryInv'
  <1> SUFFICES ASSUME ~Evicts, QuietInv, [Next]_vars PROVE RecoveryInv'
    OBVIOUS
  <1> USE DEF outVars, entryVars, procVars, jobVars, claimVars,
              callVars, drvVars, sndVars
  <1>1. CASE UNCHANGED <<phase, recovering, pc, drv, state, at>>
    BY <1>1 DEF QuietInv, RecoveryInv
  <1>2. CASE UNCHANGED vars
    BY <1>1, <1>2 DEF vars
  <1>3. ASSUME NEW c \in Calls, ForgetEvicted(c)
        PROVE  RecoveryInv'
    BY <1>1, <1>3 DEF ForgetEvicted, ForgetClaim
  <1>4. ASSUME NEW c \in Calls, Arrive(c) PROVE RecoveryInv'
    BY <1>4 DEF Arrive, RemoveRecords, Evictable, QuietInv, TypeInv, TypeOK,
       DriverInv, Started, RecoveryInv, Tasks, Over
  <1>5. ASSUME NEW c \in Calls, AdmitCreated(c) PROVE RecoveryInv'
    BY <1>5 DEF AdmitCreated, QuietInv, TypeInv, TypeOK, DriverInv, Started,
       RecoveryInv, Tasks, Over
  <1>6. ASSUME NEW c \in Calls, AdmitAttached(c) PROVE RecoveryInv'
    BY <1>6 DEF AdmitAttached, QuietInv, TypeInv, TypeOK, DriverInv, Started,
       RecoveryInv, Tasks, Over
  <1>7. ASSUME NEW c \in Calls, Insert(c) PROVE RecoveryInv'
    BY <1>7 DEF Insert, QuietInv, TypeInv, TypeOK, DriverInv, Started,
       RecoveryInv, Tasks, Over
  <1>8. ASSUME NEW c \in Calls, AttachHere(c) PROVE RecoveryInv'
    BY <1>8 DEF AttachHere, QuietInv, TypeInv, TypeOK, DriverInv, Started,
       RecoveryInv, Tasks, Over
  <1>9. ASSUME NEW c \in Calls, AttachElsewhere(c) PROVE RecoveryInv'
    BY <1>9 DEF AttachElsewhere, QuietInv, TypeInv, TypeOK, DriverInv, Started,
       RecoveryInv, Tasks, Over
  <1>10. ASSUME NEW c \in Calls, RecordForeign(c) PROVE RecoveryInv'
    BY <1>10 DEF RecordForeign, QuietInv, TypeInv, TypeOK, DriverInv, Started,
       RecoveryInv, Tasks, Over
  <1>11. ASSUME NEW c \in Calls, Snapshot(c) PROVE RecoveryInv'
    BY <1>11 DEF Snapshot, QuietInv, TypeInv, TypeOK, DriverInv, Started,
       RecoveryInv, Tasks, Over
  <1>12. ASSUME NEW c \in Calls, WriteIntent(c) PROVE RecoveryInv'
    BY <1>12 DEF WriteIntent, RecordEntry, QuietInv, TypeInv, TypeOK, DriverInv,
       Started, RecoveryInv, Tasks, Over
  <1>13. ASSUME NEW c \in Calls, RefuseNotDurable(c) PROVE RecoveryInv'
    BY <1>13 DEF RefuseNotDurable, QuietInv, TypeInv, TypeOK, DriverInv,
       Started, RecoveryInv, Tasks, Over
  <1>14. ASSUME NEW c \in Calls, UndoRecord(c) PROVE RecoveryInv'
    BY <1>14 DEF UndoRecord, RemoveRecords, QuietInv, TypeInv, TypeOK,
       DriverInv, Started, RecoveryInv, Tasks, Over
  <1>15. ASSUME NEW c \in Calls, UndoClaim(c) PROVE RecoveryInv'
    BY <1>15 DEF UndoClaim, ForgetClaim, QuietInv, TypeInv, TypeOK, DriverInv,
       Started, RecoveryInv, Tasks, Over
  <1>16. ASSUME NEW c \in Calls, Start(c) PROVE RecoveryInv'
    BY <1>16 DEF Start, QuietInv, TypeInv, TypeOK, DriverInv, Started,
       RecoveryInv, Tasks, Over
  <1>17. ASSUME NEW c \in Calls, ReReport(c) PROVE RecoveryInv'
    BY <1>17 DEF ReReport, StartSender, QuietInv, TypeInv, TypeOK, DriverInv,
       Started, RecoveryInv, Tasks, Over
  <1>18. ASSUME NEW c \in Calls, Scan(c) PROVE RecoveryInv'
    BY <1>18 DEF Scan, QuietInv, TypeInv, TypeOK, DriverInv, Started,
       RecoveryInv, Tasks, Over
  <1>19. ASSUME NEW c \in Calls, Redeliver(c) PROVE RecoveryInv'
    BY <1>19 DEF Redeliver, StartSender, QuietInv, TypeInv, TypeOK, DriverInv,
       Started, RecoveryInv, Tasks, Over
  <1>20. ASSUME NEW c \in Calls, Ack(c) PROVE RecoveryInv'
    BY <1>20 DEF Ack, QuietInv, TypeInv, TypeOK, DriverInv, Started,
       RecoveryInv, Tasks, Over
  <1>21. ASSUME NEW j \in Calls, Decide(j) PROVE RecoveryInv'
    BY <1>21 DEF Decide, JobTransition, QuietInv, TypeInv, TypeOK, DriverInv,
       Started, RecoveryInv, Tasks, Over
  <1>22. ASSUME NEW j \in Calls, Settle(j) PROVE RecoveryInv'
    BY <1>22 DEF Settle, QuietInv, TypeInv, TypeOK, DriverInv, Started,
       RecoveryInv, Tasks, Over
  <1>23. ASSUME NEW j \in Calls, SnapshotVerdict(j) PROVE RecoveryInv'
    BY <1>23 DEF SnapshotVerdict, QuietInv, TypeInv, TypeOK, DriverInv, Started,
       RecoveryInv, Tasks, Over
  <1>24. ASSUME NEW j \in Calls, WriteVerdict(j) PROVE RecoveryInv'
    BY <1>24 DEF WriteVerdict, RecordEntry, QuietInv, TypeInv, TypeOK,
       DriverInv, Started, RecoveryInv, Tasks, Over
  <1>25. ASSUME NEW j \in Calls, Send(j) PROVE RecoveryInv'
    BY <1>25 DEF Send, StartSender, QuietInv, TypeInv, TypeOK, DriverInv,
       Started, RecoveryInv, Tasks, Over
  <1>26. ASSUME NEW t \in Tasks, Merge(t) PROVE RecoveryInv'
    BY <1>26 DEF Merge, QuietInv, TypeInv, TypeOK, DriverInv, Started,
       RecoveryInv, Tasks, Over
  <1>27. ASSUME NEW t \in Tasks, Read(t) PROVE RecoveryInv'
    BY <1>27 DEF Read, QuietInv, TypeInv, TypeOK, DriverInv, Started,
       RecoveryInv, Tasks, Over
  <1>28. ASSUME NEW t \in Tasks, Post(t) PROVE RecoveryInv'
    BY <1>28 DEF Post, QuietInv, TypeInv, TypeOK, DriverInv, Started,
       RecoveryInv, Tasks, Over
  <1>29. ASSUME NEW t \in Tasks, SettleReport(t) PROVE RecoveryInv'
    BY <1>29 DEF SettleReport, JobTransition, QuietInv, TypeInv, TypeOK,
       DriverInv, Started, RecoveryInv, Tasks, Over
  <1>30. ASSUME NEW t \in Tasks, ForgetEntry(t) PROVE RecoveryInv'
    BY <1>30 DEF ForgetEntry, ForgetEntryOf, QuietInv, TypeInv, TypeOK,
       DriverInv, Started, RecoveryInv, Tasks, Over
  <1>31. ASSUME NEW t \in Tasks, Release(t) PROVE RecoveryInv'
    BY <1>31 DEF Release, QuietInv, TypeInv, TypeOK, DriverInv, Started,
       RecoveryInv, Tasks, Over
  <1>32. ASSUME Crash PROVE RecoveryInv'
    BY <1>32 DEF Crash, RemoveRecords, Over, QuietInv, TypeInv, TypeOK,
       DriverInv, Started, RecoveryInv, Tasks, Over
  <1>33. ASSUME Recover PROVE RecoveryInv'
    BY <1>33 DEF Recover, ForgetEntryOf, QuietInv, TypeInv, TypeOK, DriverInv,
       Started, RecoveryInv, Tasks, Over
  <1>34. ASSUME Serve PROVE RecoveryInv'
    BY <1>34 DEF Serve, QuietInv, TypeInv, TypeOK, DriverInv, Started,
       RecoveryInv, Tasks, Over
  <1> QED
    BY <1>1, <1>2, <1>3, <1>4, <1>5, <1>6, <1>7, <1>8, <1>9, <1>10, <1>11,
       <1>12, <1>13, <1>14, <1>15, <1>16, <1>17, <1>18, <1>19, <1>20, <1>21,
       <1>22, <1>23, <1>24, <1>25, <1>26, <1>27, <1>28, <1>29, <1>30, <1>31,
       <1>32, <1>33, <1>34 DEF Next, Accept, Drive, Report

\* The record a call is working on keeps the state the call left it in.
LEMMA CallStep == ~Evicts /\ QuietInv /\ [Next]_vars => CallInv'
  <1> SUFFICES ASSUME ~Evicts, QuietInv, [Next]_vars PROVE CallInv'
    OBVIOUS
  <1> USE DEF outVars, entryVars, procVars, jobVars, claimVars,
              callVars, drvVars, sndVars
  <1>1. CASE UNCHANGED <<pc, target, state, entries, seen, drv>>
    BY <1>1 DEF QuietInv, CallInv, HasVerdict
  <1>2. CASE UNCHANGED vars
    BY <1>1, <1>2 DEF vars
  <1>3. ASSUME NEW c \in Calls, ForgetEvicted(c) \/ Redeliver(c)
        PROVE  CallInv'
    BY <1>1, <1>3 DEF ForgetEvicted, Redeliver, ForgetClaim, StartSender
  <1>4. ASSUME NEW c \in Calls, Arrive(c) PROVE CallInv'
    BY <1>4 DEF Arrive, RemoveRecords, Evictable, QuietInv, TypeInv, TypeOK,
       DriverInv, Started, CallInv, RecordInv, ClaimInv, RecoveryInv, SenderInv,
       Here, HasVerdict, Active, Tasks, Over
  <1>5. ASSUME NEW c \in Calls, AdmitCreated(c) PROVE CallInv'
    BY <1>5, OutboxAssumption, NoJobAssumption DEF AdmitCreated, QuietInv,
       TypeInv, TypeOK, DriverInv, Started, CallInv, RecordInv, ClaimInv,
       RecoveryInv, SenderInv, Here, HasVerdict, Active, Tasks, Over
  <1>6. ASSUME NEW c \in Calls, AdmitAttached(c) PROVE CallInv'
    <2>1. TreeOf[c] \in Trees
      BY OutboxAssumption
    <2>2. byKey[TreeOf[c]] \in Calls
      BY <1>6, <2>1 DEF AdmitAttached, QuietInv, TypeInv, TypeOK
    <2>3. byKey[TreeOf[c]] # c
      BY <1>6, <2>1, <2>2 DEF AdmitAttached, QuietInv, ClaimInv
    <2>4. claimVerdict[byKey[TreeOf[c]]] # NoVerdict => drv[byKey[TreeOf[c]]] # "none"
      BY <2>2 DEF QuietInv, ClaimInv
    <2>5. /\ seen' = [seen EXCEPT ![c] = claimVerdict[byKey[TreeOf[c]]]]
         /\ target' = [target EXCEPT ![c] = byKey[TreeOf[c]]]
         /\ pc' = [pc EXCEPT ![c] = "attach"]
      BY <1>6 DEF AdmitAttached
    <2> QED
      BY <1>6, <2>1, <2>2, <2>3, <2>4, <2>5 DEF AdmitAttached, QuietInv,
         TypeInv, TypeOK, CallInv, Here
  <1>7. ASSUME NEW c \in Calls, Insert(c) PROVE CallInv'
    <2>1. drv[c] = "none" /\ ~HasVerdict(state[c])
      BY <1>7 DEF Insert, QuietInv, TypeInv, TypeOK, DriverInv, Started,
         RecordInv
    <2>2. \A t \in Tasks : Active(t) => t[2] # c
      BY <2>1 DEF QuietInv, SenderInv
    <2>3. \A j \in Calls : j # c => state'[j] = state[j]
      BY <1>7 DEF Insert, QuietInv, TypeInv, TypeOK
    <2>4. state'[c] \in {"running", "absent"} /\ ~HasVerdict(state'[c])
      BY <1>7 DEF Insert, QuietInv, TypeInv, TypeOK, HasVerdict, Statuses
    <2> QED
      BY <1>7, <2>1, <2>2, <2>3, <2>4 DEF Insert, QuietInv, TypeInv, TypeOK,
         CallInv, DriverInv, Started
  <1>8. ASSUME NEW c \in Calls, AttachHere(c) PROVE CallInv'
    BY <1>8 DEF AttachHere, QuietInv, TypeInv, TypeOK, DriverInv, Started,
       CallInv, RecordInv, ClaimInv, RecoveryInv, SenderInv, Here, HasVerdict,
       Active, Tasks, Over
  <1>9. ASSUME NEW c \in Calls, AttachElsewhere(c) PROVE CallInv'
    BY <1>9 DEF AttachElsewhere, Statuses, QuietInv, TypeInv, TypeOK, DriverInv,
       Started, CallInv, RecordInv, ClaimInv, RecoveryInv, SenderInv, Here,
       HasVerdict, Active, Tasks, Over
  <1>10. ASSUME NEW c \in Calls, RecordForeign(c) PROVE CallInv'
    BY <1>10 DEF RecordForeign, QuietInv, TypeInv, TypeOK, DriverInv, Started,
       CallInv, RecordInv, ClaimInv, RecoveryInv, SenderInv, Here, HasVerdict,
       Active, Tasks, Over
  <1>11. ASSUME NEW c \in Calls, Snapshot(c) PROVE CallInv'
    BY <1>11 DEF Snapshot, QuietInv, TypeInv, TypeOK, DriverInv, Started,
       CallInv, RecordInv, ClaimInv, RecoveryInv, SenderInv, Here, HasVerdict,
       Active, Tasks, Over
  <1>12. ASSUME NEW c \in Calls, WriteIntent(c) PROVE CallInv'
    BY <1>12 DEF WriteIntent, RecordEntry, QuietInv, TypeInv, TypeOK, DriverInv,
       Started, CallInv, RecordInv, ClaimInv, RecoveryInv, SenderInv, Here,
       HasVerdict, Active, Tasks, Over
  <1>13. ASSUME NEW c \in Calls, RefuseNotDurable(c) PROVE CallInv'
    BY <1>13 DEF RefuseNotDurable, QuietInv, TypeInv, TypeOK, DriverInv,
       Started, CallInv, RecordInv, ClaimInv, RecoveryInv, SenderInv, Here,
       HasVerdict, Active, Tasks, Over
  <1>14. ASSUME NEW c \in Calls, UndoRecord(c) PROVE CallInv'
    <2>1. drv[c] = "none" /\ ~HasVerdict(state[c])
      BY <1>14 DEF UndoRecord, QuietInv, TypeInv, TypeOK, DriverInv, Started,
         RecordInv
    <2>2. \A t \in Tasks : Active(t) => t[2] # c
      BY <2>1 DEF QuietInv, SenderInv
    <2>3. \A j \in Calls : j # c => state'[j] = state[j]
      BY <1>14 DEF UndoRecord, RemoveRecords, QuietInv, TypeInv, TypeOK
    <2>4. state'[c] \in {"running", "absent"} /\ ~HasVerdict(state'[c])
      BY <1>14 DEF UndoRecord, RemoveRecords, QuietInv, TypeInv, TypeOK,
         HasVerdict, Statuses
    <2> QED
      BY <1>14, <2>1, <2>2, <2>3, <2>4 DEF UndoRecord, RemoveRecords, QuietInv,
         TypeInv, TypeOK, CallInv, DriverInv, Started
  <1>15. ASSUME NEW c \in Calls, UndoClaim(c) PROVE CallInv'
    BY <1>15 DEF UndoClaim, ForgetClaim, QuietInv, TypeInv, TypeOK, DriverInv,
       Started, CallInv, RecordInv, ClaimInv, RecoveryInv, SenderInv, Here,
       HasVerdict, Active, Tasks, Over
  <1>16. ASSUME NEW c \in Calls, Start(c) PROVE CallInv'
    BY <1>16 DEF Start, QuietInv, TypeInv, TypeOK, DriverInv, Started, CallInv,
       RecordInv, ClaimInv, RecoveryInv, SenderInv, Here, HasVerdict, Active,
       Tasks, Over
  <1>17. ASSUME NEW c \in Calls, ReReport(c) PROVE CallInv'
    BY <1>17 DEF ReReport, StartSender, QuietInv, TypeInv, TypeOK, DriverInv,
       Started, CallInv, RecordInv, ClaimInv, RecoveryInv, SenderInv, Here,
       HasVerdict, Active, Tasks, Over
  <1>18. ASSUME NEW c \in Calls, Scan(c) PROVE CallInv'
    BY <1>18 DEF Scan, QuietInv, TypeInv, TypeOK, DriverInv, Started, CallInv,
       RecordInv, ClaimInv, RecoveryInv, SenderInv, Here, HasVerdict, Active,
       Tasks, Over
  <1>19. ASSUME NEW c \in Calls, Ack(c) PROVE CallInv'
    BY <1>19 DEF Ack, QuietInv, TypeInv, TypeOK, DriverInv, Started, CallInv,
       RecordInv, ClaimInv, RecoveryInv, SenderInv, Here, HasVerdict, Active,
       Tasks, Over
  <1>20. ASSUME NEW j \in Calls, Decide(j) PROVE CallInv'
    <2>1. state[j] = "running" /\ pc[j] \in Started
      BY <1>20 DEF Decide, QuietInv, RecordInv, DriverInv
    <2>2. PICK v \in Outcomes : state' = [state EXCEPT ![j] = JobTransition(state[j], v)]
      BY <1>20 DEF Decide
    <2>3. state' = [state EXCEPT ![j] = v] /\ v \in Statuses
      BY <2>1, <2>2, OutboxAssumption DEF JobTransition, JobEdge
    <2>4. \A k \in Calls : state'[k] = IF k = j THEN v ELSE state[k]
      BY <2>3 DEF QuietInv, TypeInv, TypeOK
    <2>5. \A k \in Calls : drv'[k] = "none" => drv[k] = "none"
      BY <1>20 DEF Decide, QuietInv, TypeInv, TypeOK
    <2>6. pc' = pc /\ target' = target /\ seen' = seen /\ entries' = entries
      BY <1>20 DEF Decide, callVars, entryVars
    <2>7. \A k \in Calls : HasVerdict(state[k]) => HasVerdict(state'[k])
      BY <2>3, <2>4 DEF HasVerdict
    <2>8. target \in [Calls -> Calls]
      BY DEF QuietInv, TypeInv, TypeOK
    <2>9. CallInv
      BY DEF QuietInv
    <2> QED
      BY <2>1, <2>4, <2>5, <2>6, <2>7, <2>8, <2>9 DEF CallInv, Started
  <1>21. ASSUME NEW j \in Calls, Settle(j) PROVE CallInv'
    BY <1>21 DEF Settle, QuietInv, TypeInv, TypeOK, DriverInv, Started, CallInv,
       RecordInv, ClaimInv, RecoveryInv, SenderInv, Here, HasVerdict, Active,
       Tasks, Over
  <1>22. ASSUME NEW j \in Calls, SnapshotVerdict(j) PROVE CallInv'
    BY <1>22 DEF SnapshotVerdict, QuietInv, TypeInv, TypeOK, DriverInv, Started,
       CallInv, RecordInv, ClaimInv, RecoveryInv, SenderInv, Here, HasVerdict,
       Active, Tasks, Over
  <1>23. ASSUME NEW j \in Calls, WriteVerdict(j) PROVE CallInv'
    BY <1>23 DEF WriteVerdict, RecordEntry, QuietInv, TypeInv, TypeOK,
       DriverInv, Started, CallInv, RecordInv, ClaimInv, RecoveryInv, SenderInv,
       Here, HasVerdict, Active, Tasks, Over
  <1>24. ASSUME NEW j \in Calls, Send(j) PROVE CallInv'
    BY <1>24 DEF Send, StartSender, QuietInv, TypeInv, TypeOK, DriverInv,
       Started, CallInv, RecordInv, ClaimInv, RecoveryInv, SenderInv, Here,
       HasVerdict, Active, Tasks, Over
  <1>25. ASSUME NEW t \in Tasks, Merge(t) \/ Read(t) \/ Post(t) \/ Release(t)
        PROVE  CallInv'
    BY <1>1, <1>25 DEF Merge, Read, Post, Release
  <1>26. ASSUME NEW t \in Tasks, SettleReport(t) PROVE CallInv'
    BY <1>26 DEF SettleReport, JobTransition, JobEdge, Statuses, QuietInv,
       TypeInv, TypeOK, DriverInv, Started, CallInv, RecordInv, ClaimInv,
       RecoveryInv, SenderInv, Here, HasVerdict, Active, Tasks, Over
  <1>27. ASSUME NEW t \in Tasks, ForgetEntry(t) PROVE CallInv'
    BY <1>27 DEF ForgetEntry, ForgetEntryOf, QuietInv, TypeInv, TypeOK,
       DriverInv, Started, CallInv, RecordInv, ClaimInv, RecoveryInv, SenderInv,
       Here, HasVerdict, Active, Tasks, Over
  <1>28. ASSUME Serve
        PROVE  CallInv'
    BY <1>1, <1>28 DEF Serve
  <1>29. ASSUME Crash PROVE CallInv'
    BY <1>29 DEF Crash, RemoveRecords, Over, QuietInv, TypeInv, TypeOK,
       DriverInv, Started, CallInv, RecordInv, ClaimInv, RecoveryInv, SenderInv,
       Here, HasVerdict, Active, Tasks, Over
  <1>30. ASSUME Recover PROVE CallInv'
    BY <1>30 DEF Recover, ForgetEntryOf, QuietInv, TypeInv, TypeOK, DriverInv,
       Started, CallInv, RecordInv, ClaimInv, RecoveryInv, SenderInv, Here,
       HasVerdict, Active, Tasks, Over
  <1> QED
    BY <1>1, <1>2, <1>3, <1>4, <1>5, <1>6, <1>7, <1>8, <1>9, <1>10, <1>11,
       <1>12, <1>13, <1>14, <1>15, <1>16, <1>17, <1>18, <1>19, <1>20, <1>21,
       <1>22, <1>23, <1>24, <1>25, <1>26, <1>27, <1>28, <1>29, <1>30 DEF Next,
       Accept, Drive, Report

\* Claims are won by calls past admission and settled by drivers.
LEMMA ClaimStep == ~Evicts /\ QuietInv /\ [Next]_vars => ClaimInv'
  <1> SUFFICES ASSUME ~Evicts, QuietInv, [Next]_vars PROVE ClaimInv'
    OBVIOUS
  <1> USE DEF outVars, entryVars, procVars, jobVars, claimVars,
              callVars, drvVars, sndVars
  <1>1. CASE UNCHANGED <<byKey, pc, claimVerdict, drv>>
    BY <1>1 DEF QuietInv, ClaimInv
  <1>2. CASE UNCHANGED vars
    BY <1>1, <1>2 DEF vars
  <1>3. ASSUME NEW c \in Calls, Redeliver(c)
        PROVE  ClaimInv'
    BY <1>1, <1>3 DEF Redeliver, StartSender
  <1>4. ASSUME NEW c \in Calls, Arrive(c) PROVE ClaimInv'
    BY <1>4 DEF Arrive, RemoveRecords, Evictable, QuietInv, TypeInv, TypeOK,
       DriverInv, Started, ClaimInv, Over
  <1>5. ASSUME NEW c \in Calls, ForgetEvicted(c) PROVE ClaimInv'
    BY <1>5, OutboxAssumption, NoJobAssumption DEF ForgetEvicted, ForgetClaim,
       QuietInv, TypeInv, TypeOK, DriverInv, Started, ClaimInv, Over
  <1>6. ASSUME NEW c \in Calls, AdmitCreated(c) PROVE ClaimInv'
    BY <1>6, OutboxAssumption, NoJobAssumption DEF AdmitCreated, QuietInv,
       TypeInv, TypeOK, DriverInv, Started, ClaimInv, Over
  <1>7. ASSUME NEW c \in Calls, AdmitAttached(c) PROVE ClaimInv'
    BY <1>7, OutboxAssumption, NoJobAssumption DEF AdmitAttached, QuietInv,
       TypeInv, TypeOK, DriverInv, Started, ClaimInv, Over
  <1>8. ASSUME NEW c \in Calls, Insert(c) PROVE ClaimInv'
    BY <1>8 DEF Insert, QuietInv, TypeInv, TypeOK, DriverInv, Started, ClaimInv,
       Over
  <1>9. ASSUME NEW c \in Calls, AttachHere(c) PROVE ClaimInv'
    BY <1>9 DEF AttachHere, QuietInv, TypeInv, TypeOK, DriverInv, Started,
       ClaimInv, Over
  <1>10. ASSUME NEW c \in Calls, AttachElsewhere(c) PROVE ClaimInv'
    BY <1>10 DEF AttachElsewhere, QuietInv, TypeInv, TypeOK, DriverInv, Started,
       ClaimInv, Over
  <1>11. ASSUME NEW c \in Calls, RecordForeign(c) PROVE ClaimInv'
    BY <1>11 DEF RecordForeign, QuietInv, TypeInv, TypeOK, DriverInv, Started,
       ClaimInv, Over
  <1>12. ASSUME NEW c \in Calls, Snapshot(c) PROVE ClaimInv'
    BY <1>12 DEF Snapshot, QuietInv, TypeInv, TypeOK, DriverInv, Started,
       ClaimInv, Over
  <1>13. ASSUME NEW c \in Calls, WriteIntent(c) PROVE ClaimInv'
    BY <1>13 DEF WriteIntent, RecordEntry, QuietInv, TypeInv, TypeOK, DriverInv,
       Started, ClaimInv, Over
  <1>14. ASSUME NEW c \in Calls, RefuseNotDurable(c) PROVE ClaimInv'
    BY <1>14 DEF RefuseNotDurable, QuietInv, TypeInv, TypeOK, DriverInv,
       Started, ClaimInv, Over
  <1>15. ASSUME NEW c \in Calls, UndoRecord(c) PROVE ClaimInv'
    BY <1>15 DEF UndoRecord, RemoveRecords, QuietInv, TypeInv, TypeOK,
       DriverInv, Started, ClaimInv, Over
  <1>16. ASSUME NEW c \in Calls, UndoClaim(c) PROVE ClaimInv'
    BY <1>16, OutboxAssumption, NoJobAssumption DEF UndoClaim, ForgetClaim,
       QuietInv, TypeInv, TypeOK, DriverInv, Started, ClaimInv, Over
  <1>17. ASSUME NEW c \in Calls, Start(c) PROVE ClaimInv'
    BY <1>17 DEF Start, QuietInv, TypeInv, TypeOK, DriverInv, Started, ClaimInv,
       Over
  <1>18. ASSUME NEW c \in Calls, ReReport(c) PROVE ClaimInv'
    BY <1>18 DEF ReReport, StartSender, QuietInv, TypeInv, TypeOK, DriverInv,
       Started, ClaimInv, Over
  <1>19. ASSUME NEW c \in Calls, Scan(c) PROVE ClaimInv'
    BY <1>19 DEF Scan, QuietInv, TypeInv, TypeOK, DriverInv, Started, ClaimInv,
       Over
  <1>20. ASSUME NEW c \in Calls, Ack(c) PROVE ClaimInv'
    BY <1>20 DEF Ack, QuietInv, TypeInv, TypeOK, DriverInv, Started, ClaimInv,
       Over
  <1>21. ASSUME NEW j \in Calls, Decide(j) PROVE ClaimInv'
    BY <1>21 DEF Decide, QuietInv, TypeInv, TypeOK, DriverInv, Started,
       ClaimInv, Over
  <1>22. ASSUME NEW j \in Calls, Settle(j) PROVE ClaimInv'
    BY <1>22 DEF Settle, QuietInv, TypeInv, TypeOK, DriverInv, Started,
       ClaimInv, Over
  <1>23. ASSUME NEW j \in Calls, SnapshotVerdict(j) PROVE ClaimInv'
    BY <1>23 DEF SnapshotVerdict, QuietInv, TypeInv, TypeOK, DriverInv, Started,
       ClaimInv, Over
  <1>24. ASSUME NEW j \in Calls, WriteVerdict(j) PROVE ClaimInv'
    BY <1>24 DEF WriteVerdict, RecordEntry, QuietInv, TypeInv, TypeOK,
       DriverInv, Started, ClaimInv, Over
  <1>25. ASSUME NEW j \in Calls, Send(j) PROVE ClaimInv'
    BY <1>25 DEF Send, StartSender, QuietInv, TypeInv, TypeOK, DriverInv,
       Started, ClaimInv, Over
  <1>26. ASSUME NEW t \in Tasks, Merge(t) \/ Read(t) \/ Post(t) \/
              SettleReport(t) \/ ForgetEntry(t) \/ Release(t)
        PROVE  ClaimInv'
    BY <1>1, <1>26 DEF Merge, Read, Post, SettleReport, ForgetEntry, Release,
       ForgetEntryOf
  <1>27. ASSUME Recover \/ Serve
        PROVE  ClaimInv'
    BY <1>1, <1>27 DEF Recover, Serve, ForgetEntryOf
  <1>28. ASSUME Crash PROVE ClaimInv'
    BY <1>28, OutboxAssumption, NoJobAssumption DEF Crash, RemoveRecords, Over,
       QuietInv, TypeInv, TypeOK, DriverInv, Started, ClaimInv, Over
  <1> QED
    BY <1>1, <1>2, <1>3, <1>4, <1>5, <1>6, <1>7, <1>8, <1>9, <1>10, <1>11,
       <1>12, <1>13, <1>14, <1>15, <1>16, <1>17, <1>18, <1>19, <1>20, <1>21,
       <1>22, <1>23, <1>24, <1>25, <1>26, <1>27, <1>28 DEF Next, Accept, Drive,
       Report

\* Without eviction a driver's record stays in the store.
LEMMA RecordStep == ~Evicts /\ QuietInv /\ [Next]_vars => RecordInv'
  <1> SUFFICES ASSUME ~Evicts, QuietInv, [Next]_vars PROVE RecordInv'
    OBVIOUS
  <1> USE DEF outVars, entryVars, procVars, jobVars, claimVars,
              callVars, drvVars, sndVars
  <1>1. CASE UNCHANGED <<drv, state>>
    BY <1>1 DEF QuietInv, RecordInv, HasVerdict
  <1>2. CASE UNCHANGED vars
    BY <1>1, <1>2 DEF vars
  <1>3. ASSUME NEW c \in Calls, ForgetEvicted(c) \/ AdmitCreated(c) \/
              AdmitAttached(c) \/ AttachHere(c) \/ AttachElsewhere(c) \/
              Snapshot(c) \/ WriteIntent(c) \/ RefuseNotDurable(c) \/
              UndoClaim(c) \/ ReReport(c) \/ Scan(c) \/ Redeliver(c) \/ Ack(c)
        PROVE  RecordInv'
    BY <1>1, <1>3 DEF ForgetEvicted, AdmitCreated, AdmitAttached, AttachHere,
       AttachElsewhere, Snapshot, WriteIntent, RefuseNotDurable, UndoClaim,
       ReReport, Scan, Redeliver, Ack, ForgetClaim, RecordEntry, StartSender
  <1>4. ASSUME NEW c \in Calls, Arrive(c) PROVE RecordInv'
    BY <1>4 DEF Arrive, RemoveRecords, Evictable, QuietInv, TypeInv, TypeOK,
       DriverInv, Started, RecordInv, CallInv, SenderInv, Here, HasVerdict,
       Active, Tasks
  <1>5. ASSUME NEW c \in Calls, Insert(c) PROVE RecordInv'
    <2>1. drv[c] = "none" /\ ~HasVerdict(state[c])
      BY <1>5 DEF Insert, QuietInv, TypeInv, TypeOK, DriverInv, Started,
         RecordInv
    <2>2. \A t \in Tasks : Active(t) => t[2] # c
      BY <2>1 DEF QuietInv, SenderInv
    <2>3. \A j \in Calls : j # c => state'[j] = state[j]
      BY <1>5 DEF Insert, QuietInv, TypeInv, TypeOK
    <2>4. state'[c] \in {"running", "absent"} /\ ~HasVerdict(state'[c])
      BY <1>5 DEF Insert, QuietInv, TypeInv, TypeOK, HasVerdict, Statuses
    <2> QED
      BY <1>5, <2>1, <2>2, <2>3, <2>4 DEF Insert, QuietInv, TypeInv, TypeOK,
         RecordInv
  <1>6. ASSUME NEW c \in Calls, RecordForeign(c) PROVE RecordInv'
    BY <1>6 DEF RecordForeign, QuietInv, TypeInv, TypeOK, DriverInv, Started,
       RecordInv, CallInv, SenderInv, Here, HasVerdict, Active, Tasks
  <1>7. ASSUME NEW c \in Calls, UndoRecord(c) PROVE RecordInv'
    <2>1. drv[c] = "none" /\ ~HasVerdict(state[c])
      BY <1>7 DEF UndoRecord, QuietInv, TypeInv, TypeOK, DriverInv, Started,
         RecordInv
    <2>2. \A t \in Tasks : Active(t) => t[2] # c
      BY <2>1 DEF QuietInv, SenderInv
    <2>3. \A j \in Calls : j # c => state'[j] = state[j]
      BY <1>7 DEF UndoRecord, RemoveRecords, QuietInv, TypeInv, TypeOK
    <2>4. state'[c] \in {"running", "absent"} /\ ~HasVerdict(state'[c])
      BY <1>7 DEF UndoRecord, RemoveRecords, QuietInv, TypeInv, TypeOK,
         HasVerdict, Statuses
    <2> QED
      BY <1>7, <2>1, <2>2, <2>3, <2>4 DEF UndoRecord, RemoveRecords, QuietInv,
         TypeInv, TypeOK, RecordInv
  <1>8. ASSUME NEW c \in Calls, Start(c) PROVE RecordInv'
    BY <1>8 DEF Start, Statuses, QuietInv, TypeInv, TypeOK, DriverInv, Started,
       RecordInv, CallInv, SenderInv, Here, HasVerdict, Active, Tasks
  <1>9. ASSUME NEW j \in Calls, Decide(j) PROVE RecordInv'
    <2>1. state[j] = "running"
      BY <1>9 DEF Decide, QuietInv, RecordInv
    <2>2. PICK v \in Outcomes : state' = [state EXCEPT ![j] = JobTransition(state[j], v)]
      BY <1>9 DEF Decide
    <2>3. state' = [state EXCEPT ![j] = v] /\ v \in Statuses
      BY <2>1, <2>2, OutboxAssumption DEF JobTransition, JobEdge
    <2> QED
      BY <1>9, <2>1, <2>3 DEF Decide, QuietInv, TypeInv, TypeOK, RecordInv,
         HasVerdict
  <1>10. ASSUME NEW j \in Calls, Settle(j) PROVE RecordInv'
    BY <1>10 DEF Settle, QuietInv, TypeInv, TypeOK, DriverInv, Started,
       RecordInv, CallInv, SenderInv, Here, HasVerdict, Active, Tasks
  <1>11. ASSUME NEW j \in Calls, SnapshotVerdict(j) PROVE RecordInv'
    BY <1>11 DEF SnapshotVerdict, QuietInv, TypeInv, TypeOK, DriverInv, Started,
       RecordInv, CallInv, SenderInv, Here, HasVerdict, Active, Tasks
  <1>12. ASSUME NEW j \in Calls, WriteVerdict(j) PROVE RecordInv'
    BY <1>12 DEF WriteVerdict, RecordEntry, QuietInv, TypeInv, TypeOK,
       DriverInv, Started, RecordInv, CallInv, SenderInv, Here, HasVerdict,
       Active, Tasks
  <1>13. ASSUME NEW j \in Calls, Send(j) PROVE RecordInv'
    BY <1>13 DEF Send, StartSender, QuietInv, TypeInv, TypeOK, DriverInv,
       Started, RecordInv, CallInv, SenderInv, Here, HasVerdict, Active, Tasks
  <1>14. ASSUME NEW t \in Tasks, Merge(t) \/ Read(t) \/ Post(t) \/
              ForgetEntry(t) \/ Release(t)
        PROVE  RecordInv'
    BY <1>1, <1>14 DEF Merge, Read, Post, ForgetEntry, Release, ForgetEntryOf
  <1>15. ASSUME NEW t \in Tasks, SettleReport(t) PROVE RecordInv'
    BY <1>15 DEF SettleReport, JobTransition, JobEdge, Statuses, QuietInv,
       TypeInv, TypeOK, DriverInv, Started, RecordInv, CallInv, SenderInv, Here,
       HasVerdict, Active, Tasks
  <1>16. ASSUME Recover \/ Serve
        PROVE  RecordInv'
    BY <1>1, <1>16 DEF Recover, Serve, ForgetEntryOf
  <1>17. ASSUME Crash PROVE RecordInv'
    BY <1>17 DEF Crash, RemoveRecords, Over, Statuses, QuietInv, TypeInv,
       TypeOK, DriverInv, Started, RecordInv, CallInv, SenderInv, Here,
       HasVerdict, Active, Tasks
  <1> QED
    BY <1>1, <1>2, <1>3, <1>4, <1>5, <1>6, <1>7, <1>8, <1>9, <1>10, <1>11,
       <1>12, <1>13, <1>14, <1>15, <1>16, <1>17 DEF Next, Accept, Drive, Report

\* Starting one more sender, on a decided job nobody is delivering.
LEMMA StartLemma ==
  ASSUME QuietInv, NEW s \in Tasks, HasVerdict(state[s[2]]), s[2] \notin delivering,
         delivering' = delivering \cup {s[2]}, at' = [at EXCEPT ![s] = "merge"],
         UNCHANGED state
  PROVE  SenderInv' /\ OneSender'
  <1>1. \A t \in Tasks : Active(t) => t[2] # s[2]
    BY DEF QuietInv, SenderInv
  <1>2. \A t \in Tasks : at'[t] = IF t = s THEN "merge" ELSE at[t]
    BY DEF QuietInv, TypeInv, TypeOK
  <1>3. SenderInv'
    BY <1>2 DEF QuietInv, SenderInv, Active, HasVerdict
  <1>4. OneSender'
    BY <1>1, <1>2 DEF QuietInv, OneSender, Active
  <1> QED
    BY <1>3, <1>4

\* A sender keeps the delivery claim, and its job keeps its verdict.
LEMMA SenderStep == ~Evicts /\ QuietInv /\ [Next]_vars => SenderInv'
  <1> SUFFICES ASSUME ~Evicts, QuietInv, [Next]_vars PROVE SenderInv'
    OBVIOUS
  <1> USE DEF outVars, entryVars, procVars, jobVars, claimVars,
              callVars, drvVars, sndVars
  <1>1. CASE UNCHANGED <<at, state, delivering>>
    BY <1>1 DEF QuietInv, SenderInv, HasVerdict, Active
  <1>2. CASE UNCHANGED vars
    BY <1>1, <1>2 DEF vars
  <1>3. ASSUME NEW c \in Calls, ForgetEvicted(c) \/ AdmitCreated(c) \/
              AdmitAttached(c) \/ AttachHere(c) \/ AttachElsewhere(c) \/
              Snapshot(c) \/ WriteIntent(c) \/ RefuseNotDurable(c) \/
              UndoClaim(c) \/ Start(c) \/ Scan(c) \/ Ack(c)
        PROVE  SenderInv'
    BY <1>1, <1>3 DEF ForgetEvicted, AdmitCreated, AdmitAttached, AttachHere,
       AttachElsewhere, Snapshot, WriteIntent, RefuseNotDurable, UndoClaim,
       Start, Scan, Ack, ForgetClaim, RecordEntry
  <1>4. ASSUME NEW c \in Calls, Arrive(c) PROVE SenderInv'
    BY <1>4 DEF Arrive, RemoveRecords, Evictable, QuietInv, TypeInv, TypeOK,
       DriverInv, Started, SenderInv, CallInv, RecordInv, OneSender, Here,
       HasVerdict, Active, Tasks, MayDeliver, Parked
  <1>5. ASSUME NEW c \in Calls, Insert(c) PROVE SenderInv'
    <2>1. drv[c] = "none" /\ ~HasVerdict(state[c])
      BY <1>5 DEF Insert, QuietInv, TypeInv, TypeOK, DriverInv, Started,
         RecordInv
    <2>2. \A t \in Tasks : Active(t) => t[2] # c
      BY <2>1 DEF QuietInv, SenderInv
    <2>3. \A j \in Calls : j # c => state'[j] = state[j]
      BY <1>5 DEF Insert, QuietInv, TypeInv, TypeOK
    <2>4. state'[c] \in {"running", "absent"} /\ ~HasVerdict(state'[c])
      BY <1>5 DEF Insert, QuietInv, TypeInv, TypeOK, HasVerdict, Statuses
    <2> QED
      BY <1>5, <2>1, <2>2, <2>3, <2>4 DEF Insert, QuietInv, TypeInv, TypeOK,
         SenderInv, Active
  <1>6. ASSUME NEW c \in Calls, RecordForeign(c) PROVE SenderInv'
    BY <1>6 DEF RecordForeign, QuietInv, TypeInv, TypeOK, DriverInv, Started,
       SenderInv, CallInv, RecordInv, OneSender, Here, HasVerdict, Active,
       Tasks, MayDeliver, Parked
  <1>7. ASSUME NEW c \in Calls, UndoRecord(c) PROVE SenderInv'
    <2>1. drv[c] = "none" /\ ~HasVerdict(state[c])
      BY <1>7 DEF UndoRecord, QuietInv, TypeInv, TypeOK, DriverInv, Started,
         RecordInv
    <2>2. \A t \in Tasks : Active(t) => t[2] # c
      BY <2>1 DEF QuietInv, SenderInv
    <2>3. \A j \in Calls : j # c => state'[j] = state[j]
      BY <1>7 DEF UndoRecord, RemoveRecords, QuietInv, TypeInv, TypeOK
    <2>4. state'[c] \in {"running", "absent"} /\ ~HasVerdict(state'[c])
      BY <1>7 DEF UndoRecord, RemoveRecords, QuietInv, TypeInv, TypeOK,
         HasVerdict, Statuses
    <2> QED
      BY <1>7, <2>1, <2>2, <2>3, <2>4 DEF UndoRecord, RemoveRecords, QuietInv,
         TypeInv, TypeOK, SenderInv, Active
  <1>8. ASSUME NEW c \in Calls, ReReport(c) PROVE SenderInv'
    <2>1. <<c, target[c]>> \in Tasks /\ <<c, target[c]>>[2] = target[c]
      BY DEF QuietInv, TypeInv, TypeOK, Tasks
    <2>2. HasVerdict(state[target[c]])
      BY <1>8 DEF ReReport, QuietInv, CallInv, RecordInv
    <2>3. CASE MayDeliver(target[c])
      <3>1. /\ UNCHANGED state
            /\ delivering' = delivering \cup {target[c]}
            /\ at' = [at EXCEPT ![<<c, target[c]>>] = "merge"]
            /\ target[c] \notin delivering
        BY <1>8, <2>3 DEF ReReport, StartSender, MayDeliver, jobVars
      <3> QED
        BY <2>1, <2>2, <3>1, StartLemma
    <2>4. CASE ~MayDeliver(target[c])
      BY <1>8, <2>4 DEF ReReport, QuietInv, SenderInv, OneSender, Active,
         HasVerdict
    <2> QED
      BY <2>3, <2>4
  <1>9. ASSUME NEW c \in Calls, Redeliver(c) PROVE SenderInv'
    <2>1. PICK j \in todo[c] : \/ Parked(j) /\ StartSender(<<c, j>>, j)
                            \/ UNCHANGED <<delivering, at>>
      BY <1>9 DEF Redeliver
    <2>2. <<c, j>> \in Tasks /\ <<c, j>>[2] = j
      BY DEF QuietInv, TypeInv, TypeOK, Tasks
    <2>3. CASE Parked(j) /\ StartSender(<<c, j>>, j)
      <3>1. /\ UNCHANGED state
            /\ delivering' = delivering \cup {j}
            /\ at' = [at EXCEPT ![<<c, j>>] = "merge"]
            /\ j \notin delivering
            /\ HasVerdict(state[j])
        BY <1>9, <2>3 DEF Redeliver, StartSender, Parked, HasVerdict
      <3> QED
        BY <2>2, <3>1, StartLemma
    <2>4. CASE UNCHANGED <<delivering, at>>
      BY <1>9, <2>4 DEF Redeliver, QuietInv, SenderInv, OneSender, Active,
         HasVerdict
    <2> QED
      BY <2>1, <2>3, <2>4
  <1>10. ASSUME NEW j \in Calls, Settle(j) \/ SnapshotVerdict(j) \/
              WriteVerdict(j)
        PROVE  SenderInv'
    BY <1>1, <1>10 DEF Settle, SnapshotVerdict, WriteVerdict, RecordEntry
  <1>11. ASSUME NEW j \in Calls, Decide(j) PROVE SenderInv'
    BY <1>11 DEF Decide, JobTransition, JobEdge, Statuses, QuietInv, TypeInv,
       TypeOK, DriverInv, Started, SenderInv, CallInv, RecordInv, OneSender,
       Here, HasVerdict, Active, Tasks, MayDeliver, Parked
  <1>12. ASSUME NEW j \in Calls, Send(j) PROVE SenderInv'
    <2>1. <<j, j>> \in Tasks /\ <<j, j>>[2] = j
      BY DEF QuietInv, TypeInv, TypeOK, Tasks
    <2>2. HasVerdict(state[j])
      BY <1>12 DEF Send, QuietInv, CallInv, RecordInv
    <2>3. CASE MayDeliver(j)
      <3>1. /\ UNCHANGED state
            /\ delivering' = delivering \cup {j}
            /\ at' = [at EXCEPT ![<<j, j>>] = "merge"]
            /\ j \notin delivering
        BY <1>12, <2>3 DEF Send, StartSender, MayDeliver, jobVars
      <3> QED
        BY <2>1, <2>2, <3>1, StartLemma
    <2>4. CASE ~MayDeliver(j)
      BY <1>12, <2>4 DEF Send, QuietInv, SenderInv, OneSender, Active,
         HasVerdict
    <2> QED
      BY <2>3, <2>4
  <1>13. ASSUME NEW t \in Tasks, Merge(t) PROVE SenderInv'
    BY <1>13 DEF Merge, QuietInv, TypeInv, TypeOK, DriverInv, Started,
       SenderInv, CallInv, RecordInv, OneSender, Here, HasVerdict, Active,
       Tasks, MayDeliver, Parked
  <1>14. ASSUME NEW t \in Tasks, Read(t) PROVE SenderInv'
    BY <1>14 DEF Read, QuietInv, TypeInv, TypeOK, DriverInv, Started, SenderInv,
       CallInv, RecordInv, OneSender, Here, HasVerdict, Active, Tasks,
       MayDeliver, Parked
  <1>15. ASSUME NEW t \in Tasks, Post(t) PROVE SenderInv'
    BY <1>15 DEF Post, QuietInv, TypeInv, TypeOK, DriverInv, Started, SenderInv,
       CallInv, RecordInv, OneSender, Here, HasVerdict, Active, Tasks,
       MayDeliver, Parked
  <1>16. ASSUME NEW t \in Tasks, SettleReport(t) PROVE SenderInv'
    BY <1>16 DEF SettleReport, JobTransition, JobEdge, Statuses, QuietInv,
       TypeInv, TypeOK, DriverInv, Started, SenderInv, CallInv, RecordInv,
       OneSender, Here, HasVerdict, Active, Tasks, MayDeliver, Parked
  <1>17. ASSUME NEW t \in Tasks, ForgetEntry(t) PROVE SenderInv'
    BY <1>17 DEF ForgetEntry, ForgetEntryOf, QuietInv, TypeInv, TypeOK,
       DriverInv, Started, SenderInv, CallInv, RecordInv, OneSender, Here,
       HasVerdict, Active, Tasks, MayDeliver, Parked
  <1>18. ASSUME NEW t \in Tasks, Release(t) PROVE SenderInv'
    BY <1>18 DEF Release, QuietInv, TypeInv, TypeOK, DriverInv, Started,
       SenderInv, CallInv, RecordInv, OneSender, Here, HasVerdict, Active,
       Tasks, MayDeliver, Parked
  <1>19. ASSUME Recover \/ Serve
        PROVE  SenderInv'
    BY <1>1, <1>19 DEF Recover, Serve, ForgetEntryOf
  <1>20. ASSUME Crash PROVE SenderInv'
    BY <1>20 DEF Crash, RemoveRecords, Over, QuietInv, TypeInv, TypeOK,
       DriverInv, Started, SenderInv, CallInv, RecordInv, OneSender, Here,
       HasVerdict, Active, Tasks, MayDeliver, Parked
  <1> QED
    BY <1>1, <1>2, <1>3, <1>4, <1>5, <1>6, <1>7, <1>8, <1>9, <1>10, <1>11,
       <1>12, <1>13, <1>14, <1>15, <1>16, <1>17, <1>18, <1>19, <1>20 DEF Next,
       Accept, Drive, Report

\* The three places that start a sender (finish, re-report, drain) each find
\* the delivery claim free under the lock.
LEMMA OneSenderStep == ~Evicts /\ QuietInv /\ [Next]_vars => OneSender'
  <1> SUFFICES ASSUME ~Evicts, QuietInv, [Next]_vars PROVE OneSender'
    OBVIOUS
  <1> USE DEF outVars, entryVars, procVars, jobVars, claimVars,
              callVars, drvVars, sndVars
  <1>1. CASE UNCHANGED <<at>>
    BY <1>1 DEF QuietInv, OneSender, Active
  <1>2. CASE UNCHANGED vars
    BY <1>1, <1>2 DEF vars
  <1>3. ASSUME NEW c \in Calls, Arrive(c) \/ ForgetEvicted(c) \/
              AdmitCreated(c) \/ AdmitAttached(c) \/ Insert(c) \/
              AttachHere(c) \/ AttachElsewhere(c) \/ RecordForeign(c) \/
              Snapshot(c) \/ WriteIntent(c) \/ RefuseNotDurable(c) \/
              UndoRecord(c) \/ UndoClaim(c) \/ Start(c) \/ Scan(c) \/ Ack(c)
        PROVE  OneSender'
    BY <1>1, <1>3 DEF Arrive, ForgetEvicted, AdmitCreated, AdmitAttached,
       Insert, AttachHere, AttachElsewhere, RecordForeign, Snapshot,
       WriteIntent, RefuseNotDurable, UndoRecord, UndoClaim, Start, Scan, Ack,
       ForgetClaim, RecordEntry, RemoveRecords
  <1>4. ASSUME NEW c \in Calls, ReReport(c) PROVE OneSender'
    <2>1. <<c, target[c]>> \in Tasks /\ <<c, target[c]>>[2] = target[c]
      BY DEF QuietInv, TypeInv, TypeOK, Tasks
    <2>2. HasVerdict(state[target[c]])
      BY <1>4 DEF ReReport, QuietInv, CallInv, RecordInv
    <2>3. CASE MayDeliver(target[c])
      <3>1. /\ UNCHANGED state
            /\ delivering' = delivering \cup {target[c]}
            /\ at' = [at EXCEPT ![<<c, target[c]>>] = "merge"]
            /\ target[c] \notin delivering
        BY <1>4, <2>3 DEF ReReport, StartSender, MayDeliver, jobVars
      <3> QED
        BY <2>1, <2>2, <3>1, StartLemma
    <2>4. CASE ~MayDeliver(target[c])
      BY <1>4, <2>4 DEF ReReport, QuietInv, SenderInv, OneSender, Active,
         HasVerdict
    <2> QED
      BY <2>3, <2>4
  <1>5. ASSUME NEW c \in Calls, Redeliver(c) PROVE OneSender'
    <2>1. PICK j \in todo[c] : \/ Parked(j) /\ StartSender(<<c, j>>, j)
                            \/ UNCHANGED <<delivering, at>>
      BY <1>5 DEF Redeliver
    <2>2. <<c, j>> \in Tasks /\ <<c, j>>[2] = j
      BY DEF QuietInv, TypeInv, TypeOK, Tasks
    <2>3. CASE Parked(j) /\ StartSender(<<c, j>>, j)
      <3>1. /\ UNCHANGED state
            /\ delivering' = delivering \cup {j}
            /\ at' = [at EXCEPT ![<<c, j>>] = "merge"]
            /\ j \notin delivering
            /\ HasVerdict(state[j])
        BY <1>5, <2>3 DEF Redeliver, StartSender, Parked, HasVerdict
      <3> QED
        BY <2>2, <3>1, StartLemma
    <2>4. CASE UNCHANGED <<delivering, at>>
      BY <1>5, <2>4 DEF Redeliver, QuietInv, SenderInv, OneSender, Active,
         HasVerdict
    <2> QED
      BY <2>1, <2>3, <2>4
  <1>6. ASSUME NEW j \in Calls, Decide(j) \/ Settle(j) \/ SnapshotVerdict(j)
              \/ WriteVerdict(j)
        PROVE  OneSender'
    BY <1>1, <1>6 DEF Decide, Settle, SnapshotVerdict, WriteVerdict, RecordEntry
  <1>7. ASSUME NEW j \in Calls, Send(j) PROVE OneSender'
    <2>1. <<j, j>> \in Tasks /\ <<j, j>>[2] = j
      BY DEF QuietInv, TypeInv, TypeOK, Tasks
    <2>2. HasVerdict(state[j])
      BY <1>7 DEF Send, QuietInv, CallInv, RecordInv
    <2>3. CASE MayDeliver(j)
      <3>1. /\ UNCHANGED state
            /\ delivering' = delivering \cup {j}
            /\ at' = [at EXCEPT ![<<j, j>>] = "merge"]
            /\ j \notin delivering
        BY <1>7, <2>3 DEF Send, StartSender, MayDeliver, jobVars
      <3> QED
        BY <2>1, <2>2, <3>1, StartLemma
    <2>4. CASE ~MayDeliver(j)
      BY <1>7, <2>4 DEF Send, QuietInv, SenderInv, OneSender, Active, HasVerdict
    <2> QED
      BY <2>3, <2>4
  <1>8. ASSUME NEW t \in Tasks, Merge(t) PROVE OneSender'
    BY <1>8 DEF Merge, QuietInv, TypeInv, TypeOK, DriverInv, Started, SenderInv,
       OneSender, Active, Tasks, MayDeliver, Parked
  <1>9. ASSUME NEW t \in Tasks, Read(t) PROVE OneSender'
    BY <1>9 DEF Read, QuietInv, TypeInv, TypeOK, DriverInv, Started, SenderInv,
       OneSender, Active, Tasks, MayDeliver, Parked
  <1>10. ASSUME NEW t \in Tasks, Post(t) PROVE OneSender'
    BY <1>10 DEF Post, QuietInv, TypeInv, TypeOK, DriverInv, Started, SenderInv,
       OneSender, Active, Tasks, MayDeliver, Parked
  <1>11. ASSUME NEW t \in Tasks, SettleReport(t) PROVE OneSender'
    BY <1>11 DEF SettleReport, QuietInv, TypeInv, TypeOK, DriverInv, Started,
       SenderInv, OneSender, Active, Tasks, MayDeliver, Parked
  <1>12. ASSUME NEW t \in Tasks, ForgetEntry(t) PROVE OneSender'
    BY <1>12 DEF ForgetEntry, ForgetEntryOf, QuietInv, TypeInv, TypeOK,
       DriverInv, Started, SenderInv, OneSender, Active, Tasks, MayDeliver,
       Parked
  <1>13. ASSUME NEW t \in Tasks, Release(t) PROVE OneSender'
    BY <1>13 DEF Release, QuietInv, TypeInv, TypeOK, DriverInv, Started,
       SenderInv, OneSender, Active, Tasks, MayDeliver, Parked
  <1>14. ASSUME Recover \/ Serve
        PROVE  OneSender'
    BY <1>1, <1>14 DEF Recover, Serve, ForgetEntryOf
  <1>15. ASSUME Crash PROVE OneSender'
    BY <1>15 DEF Crash, RemoveRecords, Over, QuietInv, TypeInv, TypeOK,
       DriverInv, Started, SenderInv, OneSender, Active, Tasks, MayDeliver,
       Parked
  <1> QED
    BY <1>1, <1>2, <1>3, <1>4, <1>5, <1>6, <1>7, <1>8, <1>9, <1>10, <1>11,
       <1>12, <1>13, <1>14, <1>15 DEF Next, Accept, Drive, Report

\* The entry is written before the driver starts and only goes once the record
\* says reported.
LEMMA OwedStep == ~Evicts /\ QuietInv /\ [Next]_vars => OwedIsJournaled'
  <1> SUFFICES ASSUME ~Evicts, QuietInv, [Next]_vars PROVE OwedIsJournaled'
    OBVIOUS
  <1> USE DEF outVars, entryVars, procVars, jobVars, claimVars,
              callVars, drvVars, sndVars
  <1>1. CASE UNCHANGED <<state, drv, entries>>
    BY <1>1 DEF QuietInv, OwedIsJournaled, Here, OwesAVerdict
  <1>2. CASE UNCHANGED vars
    BY <1>1, <1>2 DEF vars
  <1>3. ASSUME NEW c \in Calls, ForgetEvicted(c) \/ AdmitCreated(c) \/
              AdmitAttached(c) \/ AttachHere(c) \/ AttachElsewhere(c) \/
              Snapshot(c) \/ RefuseNotDurable(c) \/ UndoClaim(c) \/
              ReReport(c) \/ Scan(c) \/ Redeliver(c) \/ Ack(c)
        PROVE  OwedIsJournaled'
    BY <1>1, <1>3 DEF ForgetEvicted, AdmitCreated, AdmitAttached, AttachHere,
       AttachElsewhere, Snapshot, RefuseNotDurable, UndoClaim, ReReport, Scan,
       Redeliver, Ack, ForgetClaim, StartSender
  <1>4. ASSUME NEW c \in Calls, Arrive(c) PROVE OwedIsJournaled'
    BY <1>4 DEF Arrive, RemoveRecords, Evictable, QuietInv, TypeInv, TypeOK,
       DriverInv, Started, OwedIsJournaled, RecordInv, CallInv, SenderInv,
       RecoveryInv, Here, OwesAVerdict, HasVerdict, Active, Tasks
  <1>5. ASSUME NEW c \in Calls, Insert(c) PROVE OwedIsJournaled'
    <2>1. drv[c] = "none" /\ ~HasVerdict(state[c])
      BY <1>5 DEF Insert, QuietInv, TypeInv, TypeOK, DriverInv, Started,
         RecordInv
    <2>2. \A t \in Tasks : Active(t) => t[2] # c
      BY <2>1 DEF QuietInv, SenderInv
    <2>3. \A j \in Calls : j # c => state'[j] = state[j]
      BY <1>5 DEF Insert, QuietInv, TypeInv, TypeOK
    <2>4. state'[c] \in {"running", "absent"} /\ ~HasVerdict(state'[c])
      BY <1>5 DEF Insert, QuietInv, TypeInv, TypeOK, HasVerdict, Statuses
    <2> QED
      BY <1>5, <2>1, <2>2, <2>3, <2>4 DEF Insert, QuietInv, TypeInv, TypeOK,
         OwedIsJournaled, Here
  <1>6. ASSUME NEW c \in Calls, RecordForeign(c) PROVE OwedIsJournaled'
    BY <1>6 DEF RecordForeign, QuietInv, TypeInv, TypeOK, DriverInv, Started,
       OwedIsJournaled, RecordInv, CallInv, SenderInv, RecoveryInv, Here,
       OwesAVerdict, HasVerdict, Active, Tasks
  <1>7. ASSUME NEW c \in Calls, WriteIntent(c) PROVE OwedIsJournaled'
    BY <1>7 DEF WriteIntent, RecordEntry, QuietInv, TypeInv, TypeOK, DriverInv,
       Started, OwedIsJournaled, RecordInv, CallInv, SenderInv, RecoveryInv,
       Here, OwesAVerdict, HasVerdict, Active, Tasks
  <1>8. ASSUME NEW c \in Calls, UndoRecord(c) PROVE OwedIsJournaled'
    BY <1>8 DEF UndoRecord, RemoveRecords, QuietInv, TypeInv, TypeOK, DriverInv,
       Started, OwedIsJournaled, RecordInv, CallInv, SenderInv, RecoveryInv,
       Here, OwesAVerdict, HasVerdict, Active, Tasks
  <1>9. ASSUME NEW c \in Calls, Start(c) PROVE OwedIsJournaled'
    BY <1>9 DEF Start, QuietInv, TypeInv, TypeOK, DriverInv, Started,
       OwedIsJournaled, RecordInv, CallInv, SenderInv, RecoveryInv, Here,
       OwesAVerdict, HasVerdict, Active, Tasks
  <1>10. ASSUME NEW j \in Calls, Decide(j) PROVE OwedIsJournaled'
    BY <1>10 DEF Decide, JobTransition, JobEdge, Statuses, QuietInv, TypeInv,
       TypeOK, DriverInv, Started, OwedIsJournaled, RecordInv, CallInv,
       SenderInv, RecoveryInv, Here, OwesAVerdict, HasVerdict, Active, Tasks
  <1>11. ASSUME NEW j \in Calls, Settle(j) PROVE OwedIsJournaled'
    BY <1>11 DEF Settle, QuietInv, TypeInv, TypeOK, DriverInv, Started,
       OwedIsJournaled, RecordInv, CallInv, SenderInv, RecoveryInv, Here,
       OwesAVerdict, HasVerdict, Active, Tasks
  <1>12. ASSUME NEW j \in Calls, SnapshotVerdict(j) PROVE OwedIsJournaled'
    BY <1>12 DEF SnapshotVerdict, QuietInv, TypeInv, TypeOK, DriverInv, Started,
       OwedIsJournaled, RecordInv, CallInv, SenderInv, RecoveryInv, Here,
       OwesAVerdict, HasVerdict, Active, Tasks
  <1>13. ASSUME NEW j \in Calls, WriteVerdict(j) PROVE OwedIsJournaled'
    BY <1>13 DEF WriteVerdict, RecordEntry, QuietInv, TypeInv, TypeOK,
       DriverInv, Started, OwedIsJournaled, RecordInv, CallInv, SenderInv,
       RecoveryInv, Here, OwesAVerdict, HasVerdict, Active, Tasks
  <1>14. ASSUME NEW j \in Calls, Send(j) PROVE OwedIsJournaled'
    BY <1>14 DEF Send, StartSender, QuietInv, TypeInv, TypeOK, DriverInv,
       Started, OwedIsJournaled, RecordInv, CallInv, SenderInv, RecoveryInv,
       Here, OwesAVerdict, HasVerdict, Active, Tasks
  <1>15. ASSUME NEW t \in Tasks, Merge(t) \/ Read(t) \/ Post(t) \/ Release(t)
        PROVE  OwedIsJournaled'
    BY <1>1, <1>15 DEF Merge, Read, Post, Release
  <1>16. ASSUME NEW t \in Tasks, SettleReport(t) PROVE OwedIsJournaled'
    BY <1>16 DEF SettleReport, JobTransition, JobEdge, Statuses, QuietInv,
       TypeInv, TypeOK, DriverInv, Started, OwedIsJournaled, RecordInv, CallInv,
       SenderInv, RecoveryInv, Here, OwesAVerdict, HasVerdict, Active, Tasks
  <1>17. ASSUME NEW t \in Tasks, ForgetEntry(t) PROVE OwedIsJournaled'
    BY <1>17 DEF ForgetEntry, ForgetEntryOf, QuietInv, TypeInv, TypeOK,
       DriverInv, Started, OwedIsJournaled, RecordInv, CallInv, SenderInv,
       RecoveryInv, Here, OwesAVerdict, HasVerdict, Active, Tasks
  <1>18. ASSUME Serve
        PROVE  OwedIsJournaled'
    BY <1>1, <1>18 DEF Serve
  <1>19. ASSUME Crash PROVE OwedIsJournaled'
    BY <1>19 DEF Crash, RemoveRecords, Over, QuietInv, TypeInv, TypeOK,
       DriverInv, Started, OwedIsJournaled, RecordInv, CallInv, SenderInv,
       RecoveryInv, Here, OwesAVerdict, HasVerdict, Active, Tasks
  <1>20. ASSUME Recover PROVE OwedIsJournaled'
    BY <1>20 DEF Recover, ForgetEntryOf, QuietInv, TypeInv, TypeOK, DriverInv,
       Started, OwedIsJournaled, RecordInv, CallInv, SenderInv, RecoveryInv,
       Here, OwesAVerdict, HasVerdict, Active, Tasks
  <1> QED
    BY <1>1, <1>2, <1>3, <1>4, <1>5, <1>6, <1>7, <1>8, <1>9, <1>10, <1>11,
       <1>12, <1>13, <1>14, <1>15, <1>16, <1>17, <1>18, <1>19, <1>20 DEF Next,
       Accept, Drive, Report

-----------------------------------------------------------------------------
\* Theorems.

\* Every value stays in its type: in particular every callback carries one of
\* the three statuses, recovery and foreign answers included.
THEOREM TypeCorrect == Spec => []TypeOK
  <1>1. Init => TypeInv
    BY OutboxAssumption DEF Init, TypeInv, TypeOK, PostInv, ForeignInv, Tasks, PC,
       DriverPC, SenderPC, Verdicts, Statuses, NoVerdict, RecordStates, JobStates
  <1>2. TypeInv /\ [Next]_vars => TypeInv'
    BY TypeStep, PostForeignStep DEF TypeInv
  <1>3. TypeInv => TypeOK
    BY DEF TypeInv
  <1> QED
    BY <1>1, <1>2, <1>3, PTL DEF Spec

\* finish is the only source of a green or red answer: across duplicates,
\* redelivery, eviction, journal failures and crashes, Hull is told green or
\* red only where the job's driver decided it.
THEOREM NeverFabricated == Spec => []NoFabricatedVerdict
  <1>1. Init => TruthInv
    <2>1. Init => TypeInv
      BY OutboxAssumption DEF Init, TypeInv, TypeOK, PostInv, ForeignInv, Tasks, PC,
         DriverPC, SenderPC, Verdicts, Statuses, NoVerdict, RecordStates, JobStates
    <2>2. Init => DriverInv
      BY DEF Init, DriverInv, Started, NoVerdict
    <2>3. Init => CopyInv
      BY DEF Init, CopyInv, Tasks
    <2>4. Init => NoFabricatedVerdict
      BY DEF Init, NoFabricatedVerdict
    <2> QED
      BY <2>1, <2>2, <2>3, <2>4 DEF TruthInv
  <1>2. TruthInv /\ [Next]_vars => TruthInv'
    BY TypeStep, PostForeignStep, DriverStep, CopyStep, FabricateStep
       DEF TruthInv, TypeInv
  <1>3. TruthInv => NoFabricatedVerdict
    BY DEF TruthInv
  <1> QED
    BY <1>1, <1>2, <1>3, PTL DEF Spec

\* The invariant of the two theorems that follow holds initially and is kept.
LEMMA QuietInvariant == ASSUME ~Evicts PROVE Spec => []QuietInv
  <1>1. Init => QuietInv
    <2> SUFFICES ASSUME Init PROVE QuietInv
      OBVIOUS
    <2>1. TypeInv
      BY OutboxAssumption DEF Init, TypeInv, TypeOK, PostInv, ForeignInv, Tasks, PC,
         DriverPC, SenderPC, Verdicts, Statuses, NoVerdict, RecordStates, JobStates
    <2>2. DriverInv
      BY DEF Init, DriverInv, Started, NoVerdict
    <2>3. RecoveryInv
      BY DEF Init, RecoveryInv
    <2>4. CallInv
      BY DEF Init, CallInv
    <2>5. ClaimInv
      BY NoJobAssumption DEF Init, ClaimInv
    <2>6. RecordInv
      BY DEF Init, RecordInv, HasVerdict, Statuses
    <2>7. SenderInv /\ OneSender
      BY DEF Init, SenderInv, OneSender, Active, Tasks
    <2>8. OwedIsJournaled
      BY DEF Init, OwedIsJournaled, Here
    <2> QED
      BY <2>1, <2>2, <2>3, <2>4, <2>5, <2>6, <2>7, <2>8 DEF QuietInv
  <1>2. QuietInv /\ [Next]_vars => QuietInv'
    BY TypeStep, PostForeignStep, DriverStep, RecoveryStep, CallStep, ClaimStep,
       RecordStep, SenderStep, OneSenderStep, OwedStep
       DEF QuietInv, TypeInv
  <1> QED
    BY <1>1, <1>2, PTL DEF Spec

\* claim_delivery does what drain_undelivered says of it: while retention takes
\* nothing, finish, re-reports and the drain never deliver one job twice at once.
THEOREM OneSenderAtATime == ASSUME ~Evicts PROVE Spec => []OneSender
  <1>1. QuietInv => OneSender
    BY DEF QuietInv
  <1> QED
    BY <1>1, QuietInvariant, PTL

\* The write-ahead rule of accept, finish and report: while a running process
\* still owes a job's verdict, the journal has the entry a restart answers from.
THEOREM JournaledWhileOwed == ASSUME ~Evicts PROVE Spec => []OwedIsJournaled
  <1>1. QuietInv => OwedIsJournaled
    BY DEF QuietInv
  <1> QED
    BY <1>1, QuietInvariant, PTL

-----------------------------------------------------------------------------
\* A service in which no two calls ask about one tree.  Retention may take
\* records and claims, and the process may crash.

OneCallATree == \A c, d \in Calls : TreeOf[c] = TreeOf[d] => c = d

\* Hull has heard nothing of job j.
Silent(j) == \A m \in told : m[2] # j

\* The calls that have not got past their journal entry, or are not going to.
Early == {"idle", "evicted", "insert", "snap", "write", "undo", "unclaim", "refused"}

\* A driver that has not started its sender yet.
Unsent == {"drive", "settle", "snap", "write", "send"}

\* A call is about the job it creates: the index never has a claim to attach to.
AloneInv ==
  /\ \A c \in Calls : target[c] = c /\ pc[c] \notin {"attach", "foreign", "rereport"}
  /\ \A t \in Trees, j \in Calls : byKey[t] = j =>
       TreeOf[j] = t /\ pc[j] \notin {"idle", "evicted"}

\* The recovery pass runs while nothing else does, on entries that are there.
PassInv ==
  /\ phase = "recovering" =>
       /\ \A c \in Calls : pc[c] \in Over /\ drv[c] = "none" /\ state[c] = "absent"
       /\ \A t \in Tasks : at[t] = "off"
  /\ phase = "serving" => recovering = {}
  /\ recovering \subseteq entries

\* Wherever a job's destinations are kept there is the one url of its call.
OwnUrlInv ==
  /\ \A j \in Calls :
       /\ urls[j] \subseteq {UrlOf[j]}
       /\ claimUrls[j] \subseteq {UrlOf[j]}
       /\ Here(j) => UrlOf[j] \in urls[j]
       /\ pc[j] = "write" => intent[j] = {UrlOf[j]}
       /\ drv[j] = "write" => drvIntent[j] = {UrlOf[j]}
       /\ entryUrls[j] \subseteq {UrlOf[j]}
       /\ j \in entries => UrlOf[j] \in entryUrls[j]
  /\ \A t \in Tasks : queue[t] \subseteq {UrlOf[t[2]]}
  /\ \A m \in told : m[1] = UrlOf[m[2]]

\* The record of a job, its driver and its senders, in step.
LifeInv ==
  /\ \A j \in Calls :
       /\ pc[j] \in {"idle", "evicted", "insert"} => state[j] = "absent"
       /\ pc[j] \in {"snap", "write", "undo", "start"} => state[j] = "running"
       /\ drv[j] = "drive" => state[j] = "running"
       /\ drv[j] \in {"none", "drive"} => ~HasVerdict(state[j])
       /\ state[j] \in {"reported", "report_failed"} => drv[j] = "done"
  /\ \A t \in Tasks : Active(t) => drv[t[2]] = "done"

\* From its acknowledgement on a job is on the journal or Hull has heard of it;
\* before its driver sends Hull has heard nothing.
DebtInv ==
  /\ \A j \in Calls :
       /\ pc[j] \in Early => Silent(j) /\ j \notin entries
       /\ pc[j] = "start" \/ drv[j] \in Unsent => Silent(j)
       /\ pc[j] \in {"start"} \cup Started => j \in entries \/ ~Silent(j)
  /\ \A t \in Tasks :
       /\ t \in landed => ~Silent(t[2])
       /\ at[t] = "forget" => t \in landed

DurableInv ==
  TypeInv /\ DriverInv /\ AloneInv /\ PassInv /\ OwnUrlInv /\ LifeInv /\ DebtInv

\* A delivered job keeps its entry only until the sender that delivered it drops it.
PaidInv ==
  \A j \in Calls : state[j] = "reported" /\ j \in entries =>
    \E t \in Tasks : t[2] = j /\ at[t] = "forget"

\* A verdict goes on the entry before anybody is told, so that what recovery
\* answers is what was told, or Hull was told nothing but "errored".
AnswerInv ==
  /\ \A j \in Calls :
       /\ drv[j] \notin {"none", "drive"} => decided[j] # NoVerdict
       /\ drv[j] \in {"send", "done"} /\ Here(j) /\ j \in entries => entryVerdict[j] # NoVerdict
       /\ j \in entries /\ entryVerdict[j] = NoVerdict =>
            \A m \in told : m[2] = j => m[3] = "errored"
       /\ entryVerdict[j] # NoVerdict \/ drv[j] # "none" =>
            \A m \in told : m[2] = j => m[3] = decided[j]
  /\ \A t \in Tasks : Active(t) /\ t[2] \in entries => entryVerdict[t[2]] # NoVerdict

\* One entry of the recovery pass: job j is answered v to the urls heard.
RecoversAs(j, v, heard, ok) ==
  /\ v = IF entryVerdict[j] = NoVerdict THEN "errored" ELSE entryVerdict[j]
  /\ heard \subseteq entryUrls[j] /\ (ok => heard # {})
  /\ told' = told \cup (heard \X {j} \X {v})
  /\ IF ok THEN ForgetEntryOf(j) ELSE UNCHANGED entryVars

\* Recovery answers one of the three statuses.
LEMMA RecoverSays ==
  ASSUME TypeInv, Recover
  PROVE  \E j \in recovering, v \in Statuses, heard \in SUBSET Urls, ok \in BOOLEAN :
           RecoversAs(j, v, heard, ok)
  <1>1. PICK j \in recovering :
          \E heard \in SUBSET entryUrls[j], ok \in BOOLEAN :
            LET v == IF entryVerdict[j] = NoVerdict THEN "errored" ELSE entryVerdict[j]
            IN  /\ ok => heard # {}
                /\ told' = told \cup (heard \X {j} \X {v})
                /\ IF ok THEN ForgetEntryOf(j) ELSE UNCHANGED entryVars
    BY DEF Recover
  <1>2. PICK heard \in SUBSET entryUrls[j], ok \in BOOLEAN :
          LET v == IF entryVerdict[j] = NoVerdict THEN "errored" ELSE entryVerdict[j]
          IN  /\ ok => heard # {}
              /\ told' = told \cup (heard \X {j} \X {v})
              /\ IF ok THEN ForgetEntryOf(j) ELSE UNCHANGED entryVars
    BY <1>1
  <1>3. (IF entryVerdict[j] = NoVerdict THEN "errored" ELSE entryVerdict[j]) \in Statuses
    BY DEF TypeInv, TypeOK, Verdicts, Statuses
  <1>4. heard \in SUBSET Urls
    BY DEF TypeInv, TypeOK
  <1> QED
    BY <1>2, <1>3, <1>4 DEF RecoversAs

\* Nobody attaches: the claim on a call's tree, if there is one, is its own.
LEMMA NeverAttached ==
  ASSUME OneCallATree, TypeInv, AloneInv, NEW c \in Calls
  PROVE  ~(AdmitAttached(c) \/ AttachHere(c) \/ AttachElsewhere(c)
             \/ RecordForeign(c) \/ ReReport(c))
  <1>1. ~AdmitAttached(c)
    <2>1. SUFFICES ASSUME AdmitAttached(c) PROVE FALSE
      OBVIOUS
    <2>2. PICK j \in Calls : j = byKey[TreeOf[c]]
      BY <2>1, OutboxAssumption DEF AdmitAttached, TypeInv, TypeOK
    <2>3. TreeOf[j] = TreeOf[c] /\ pc[j] # "evicted"
      BY <2>2, OutboxAssumption DEF AloneInv
    <2> QED
      BY <2>1, <2>3 DEF AdmitAttached, OneCallATree
  <1> QED
    BY <1>1 DEF AttachHere, AttachElsewhere, RecordForeign, ReReport, AloneInv

\* No step attaches a call to another's job.
LEMMA AloneStep == OneCallATree /\ DurableInv /\ [Next]_vars => AloneInv'
  <1> SUFFICES ASSUME OneCallATree, DurableInv, [Next]_vars PROVE AloneInv'
    OBVIOUS
  <1> USE DEF outVars, entryVars, procVars, jobVars, claimVars,
              callVars, drvVars, sndVars
  <1>1. CASE UNCHANGED <<target, pc, byKey>>
    BY <1>1 DEF DurableInv, TypeInv, TypeOK, AloneInv
  <1>2. CASE UNCHANGED vars
    BY <1>1, <1>2 DEF vars
  <1>3. ASSUME NEW c \in Calls, Redeliver(c)
        PROVE  AloneInv'
    BY <1>1, <1>3 DEF Redeliver, StartSender, Parked
  <1>4. ASSUME NEW j \in Calls,
              Decide(j) \/ Settle(j) \/ SnapshotVerdict(j) \/ WriteVerdict(j)
              \/ Send(j)
        PROVE  AloneInv'
    BY <1>1, <1>4 DEF Decide, Settle, SnapshotVerdict, WriteVerdict,
       RecordEntry, Send, StartSender, MayDeliver
  <1>5. ASSUME NEW t \in Tasks,
              Merge(t) \/ Read(t) \/ Post(t) \/ SettleReport(t) \/ ForgetEntry(t)
              \/ Release(t)
        PROVE  AloneInv'
    BY <1>1, <1>5 DEF Merge, Read, Post, SettleReport, ForgetEntry,
       ForgetEntryOf, Release
  <1>6. ASSUME Recover \/ Serve PROVE AloneInv'
    BY <1>1, <1>6 DEF Recover, ForgetEntryOf, Serve
  <1>7. ASSUME NEW c \in Calls,
              AdmitAttached(c) \/ AttachHere(c) \/ AttachElsewhere(c)
              \/ RecordForeign(c) \/ ReReport(c)
        PROVE  AloneInv'
    BY <1>7, NeverAttached DEF DurableInv
  <1>8. ASSUME NEW c \in Calls, Arrive(c) PROVE AloneInv'
    BY <1>8 DEF Arrive, Evictable, RemoveRecords, DurableInv, TypeInv, TypeOK,
       AloneInv
  <1>9. ASSUME NEW c \in Calls, ForgetEvicted(c) PROVE AloneInv'
    BY <1>9, NoJobAssumption DEF ForgetEvicted, ForgetClaim, DurableInv,
       TypeInv, TypeOK, AloneInv
  <1>10. ASSUME NEW c \in Calls, AdmitCreated(c) PROVE AloneInv'
    BY <1>10, NoJobAssumption DEF AdmitCreated, DurableInv, TypeInv, TypeOK,
       AloneInv
  <1>11. ASSUME NEW c \in Calls, Insert(c) PROVE AloneInv'
    BY <1>11 DEF Insert, DurableInv, TypeInv, TypeOK, AloneInv
  <1>12. ASSUME NEW c \in Calls, Snapshot(c) PROVE AloneInv'
    BY <1>12 DEF Snapshot, DurableInv, TypeInv, TypeOK, AloneInv
  <1>13. ASSUME NEW c \in Calls, WriteIntent(c) PROVE AloneInv'
    BY <1>13 DEF WriteIntent, RecordEntry, DurableInv, TypeInv, TypeOK,
       AloneInv
  <1>14. ASSUME NEW c \in Calls, RefuseNotDurable(c) PROVE AloneInv'
    BY <1>14 DEF RefuseNotDurable, DurableInv, TypeInv, TypeOK, AloneInv
  <1>15. ASSUME NEW c \in Calls, UndoRecord(c) PROVE AloneInv'
    BY <1>15 DEF UndoRecord, RemoveRecords, DurableInv, TypeInv, TypeOK,
       AloneInv
  <1>16. ASSUME NEW c \in Calls, UndoClaim(c) PROVE AloneInv'
    BY <1>16, NoJobAssumption DEF UndoClaim, ForgetClaim, DurableInv, TypeInv,
       TypeOK, AloneInv
  <1>17. ASSUME NEW c \in Calls, Start(c) PROVE AloneInv'
    BY <1>17 DEF Start, DurableInv, TypeInv, TypeOK, AloneInv
  <1>18. ASSUME NEW c \in Calls, Scan(c) PROVE AloneInv'
    BY <1>18 DEF Scan, DurableInv, TypeInv, TypeOK, AloneInv
  <1>19. ASSUME NEW c \in Calls, Ack(c) PROVE AloneInv'
    BY <1>19 DEF Ack, DurableInv, TypeInv, TypeOK, AloneInv
  <1>20. ASSUME Crash PROVE AloneInv'
    BY <1>20, NoJobAssumption DEF Crash, RemoveRecords, Over, DurableInv,
       TypeInv, TypeOK, AloneInv
  <1> QED
    BY <1>1, <1>2, <1>3, <1>4, <1>5, <1>6, <1>7, <1>8, <1>9, <1>10, <1>11,
       <1>12, <1>13, <1>14, <1>15, <1>16, <1>17, <1>18, <1>19, <1>20
       DEF Next, Accept, Drive, Report

\* Every step keeps the recovery pass alone with its entries.
LEMMA PassStep == OneCallATree /\ DurableInv /\ [Next]_vars => PassInv'
  <1> SUFFICES ASSUME OneCallATree, DurableInv, [Next]_vars PROVE PassInv'
    OBVIOUS
  <1> USE DEF outVars, entryVars, procVars, jobVars, claimVars,
              callVars, drvVars, sndVars
  <1>1. CASE UNCHANGED <<phase, recovering, entries, pc, drv, state, at>>
    BY <1>1 DEF DurableInv, TypeInv, TypeOK, DriverInv, PassInv
  <1>2. CASE UNCHANGED vars
    BY <1>1, <1>2 DEF vars
  <1>3. ASSUME NEW c \in Calls, ForgetEvicted(c)
        PROVE  PassInv'
    BY <1>1, <1>3 DEF ForgetEvicted, ForgetClaim
  <1>4. ASSUME NEW c \in Calls,
              AdmitAttached(c) \/ AttachHere(c) \/ AttachElsewhere(c)
              \/ RecordForeign(c) \/ ReReport(c)
        PROVE  PassInv'
    BY <1>4, NeverAttached DEF DurableInv
  <1>5. ASSUME NEW c \in Calls, Arrive(c) PROVE PassInv'
    BY <1>5 DEF Arrive, Evictable, RemoveRecords, Over, DurableInv, TypeInv,
       TypeOK, DriverInv, PassInv
  <1>6. ASSUME NEW c \in Calls, AdmitCreated(c) PROVE PassInv'
    BY <1>6 DEF AdmitCreated, Over, DurableInv, TypeInv, TypeOK, DriverInv,
       PassInv
  <1>7. ASSUME NEW c \in Calls, Insert(c) PROVE PassInv'
    BY <1>7 DEF Insert, Over, DurableInv, TypeInv, TypeOK, DriverInv, PassInv
  <1>8. ASSUME NEW c \in Calls, Snapshot(c) PROVE PassInv'
    BY <1>8 DEF Snapshot, Over, DurableInv, TypeInv, TypeOK, DriverInv,
       PassInv
  <1>9. ASSUME NEW c \in Calls, WriteIntent(c) PROVE PassInv'
    BY <1>9 DEF WriteIntent, RecordEntry, Over, DurableInv, TypeInv, TypeOK,
       DriverInv, PassInv
  <1>10. ASSUME NEW c \in Calls, RefuseNotDurable(c) PROVE PassInv'
    BY <1>10 DEF RefuseNotDurable, Over, DurableInv, TypeInv, TypeOK,
       DriverInv, PassInv
  <1>11. ASSUME NEW c \in Calls, UndoRecord(c) PROVE PassInv'
    BY <1>11 DEF UndoRecord, RemoveRecords, Over, DurableInv, TypeInv, TypeOK,
       DriverInv, PassInv
  <1>12. ASSUME NEW c \in Calls, UndoClaim(c) PROVE PassInv'
    BY <1>12 DEF UndoClaim, ForgetClaim, Over, DurableInv, TypeInv, TypeOK,
       DriverInv, PassInv
  <1>13. ASSUME NEW c \in Calls, Start(c) PROVE PassInv'
    BY <1>13 DEF Start, Over, DurableInv, TypeInv, TypeOK, DriverInv, PassInv
  <1>14. ASSUME NEW c \in Calls, Scan(c) PROVE PassInv'
    BY <1>14 DEF Scan, Over, DurableInv, TypeInv, TypeOK, DriverInv, PassInv
  <1>15. ASSUME NEW c \in Calls, Redeliver(c) PROVE PassInv'
    BY <1>15 DEF Redeliver, StartSender, Parked, Over, DurableInv, TypeInv,
       TypeOK, DriverInv, PassInv
  <1>16. ASSUME NEW c \in Calls, Ack(c) PROVE PassInv'
    BY <1>16 DEF Ack, Over, DurableInv, TypeInv, TypeOK, DriverInv, PassInv
  <1>17. ASSUME NEW j \in Calls, Decide(j) PROVE PassInv'
    BY <1>17 DEF Decide, Over, DurableInv, TypeInv, TypeOK, DriverInv, PassInv
  <1>18. ASSUME NEW j \in Calls, Settle(j) PROVE PassInv'
    BY <1>18 DEF Settle, Over, DurableInv, TypeInv, TypeOK, DriverInv, PassInv
  <1>19. ASSUME NEW j \in Calls, SnapshotVerdict(j) PROVE PassInv'
    BY <1>19 DEF SnapshotVerdict, Over, DurableInv, TypeInv, TypeOK, DriverInv,
       PassInv
  <1>20. ASSUME NEW j \in Calls, WriteVerdict(j) PROVE PassInv'
    BY <1>20 DEF WriteVerdict, RecordEntry, Over, DurableInv, TypeInv, TypeOK,
       DriverInv, PassInv
  <1>21. ASSUME NEW j \in Calls, Send(j) PROVE PassInv'
    BY <1>21 DEF Send, StartSender, MayDeliver, Over, DurableInv, TypeInv,
       TypeOK, DriverInv, PassInv
  <1>22. ASSUME NEW t \in Tasks, Merge(t) PROVE PassInv'
    BY <1>22 DEF Merge, Over, DurableInv, TypeInv, TypeOK, DriverInv, PassInv
  <1>23. ASSUME NEW t \in Tasks, Read(t) PROVE PassInv'
    BY <1>23 DEF Read, Over, DurableInv, TypeInv, TypeOK, DriverInv, PassInv
  <1>24. ASSUME NEW t \in Tasks, Post(t) PROVE PassInv'
    BY <1>24 DEF Post, Over, DurableInv, TypeInv, TypeOK, DriverInv, PassInv
  <1>25. ASSUME NEW t \in Tasks, SettleReport(t) PROVE PassInv'
    BY <1>25 DEF SettleReport, Over, DurableInv, TypeInv, TypeOK, DriverInv,
       PassInv
  <1>26. ASSUME NEW t \in Tasks, ForgetEntry(t) PROVE PassInv'
    BY <1>26 DEF ForgetEntry, ForgetEntryOf, Over, DurableInv, TypeInv, TypeOK,
       DriverInv, PassInv
  <1>27. ASSUME NEW t \in Tasks, Release(t) PROVE PassInv'
    BY <1>27 DEF Release, Over, DurableInv, TypeInv, TypeOK, DriverInv, PassInv
  <1>28. ASSUME Crash PROVE PassInv'
    BY <1>28 DEF Crash, RemoveRecords, Over, DurableInv, TypeInv, TypeOK,
       DriverInv, PassInv
  <1>29. ASSUME Recover PROVE PassInv'
    BY <1>29 DEF Recover, ForgetEntryOf, Over, DurableInv, TypeInv, TypeOK,
       DriverInv, PassInv
  <1>30. ASSUME Serve PROVE PassInv'
    BY <1>30 DEF Serve, Over, DurableInv, TypeInv, TypeOK, DriverInv, PassInv
  <1> QED
    BY <1>1, <1>2, <1>3, <1>4, <1>5, <1>6, <1>7, <1>8, <1>9, <1>10, <1>11,
       <1>12, <1>13, <1>14, <1>15, <1>16, <1>17, <1>18, <1>19, <1>20, <1>21,
       <1>22, <1>23, <1>24, <1>25, <1>26, <1>27, <1>28, <1>29, <1>30
       DEF Next, Accept, Drive, Report

\* Every step copies a job's one url.
LEMMA OwnUrlStep == OneCallATree /\ DurableInv /\ [Next]_vars => OwnUrlInv'
  <1> SUFFICES ASSUME OneCallATree, DurableInv, [Next]_vars PROVE OwnUrlInv'
    OBVIOUS
  <1> USE DEF outVars, entryVars, procVars, jobVars, claimVars,
              callVars, drvVars, sndVars
  <1>1. CASE UNCHANGED <<urls, claimUrls, state, pc, intent, drv, drvIntent, entries,
                         entryUrls, queue, told>>
    BY <1>1 DEF DurableInv, TypeInv, TypeOK, AloneInv, OwnUrlInv, LifeInv,
       Here
  <1>2. CASE UNCHANGED vars
    BY <1>1, <1>2 DEF vars
  <1>3. ASSUME NEW c \in Calls, Redeliver(c)
        PROVE  OwnUrlInv'
    BY <1>1, <1>3 DEF Redeliver, StartSender, Parked
  <1>4. ASSUME Serve PROVE OwnUrlInv'
    BY <1>1, <1>4 DEF Serve
  <1>5. ASSUME NEW c \in Calls,
              AdmitAttached(c) \/ AttachHere(c) \/ AttachElsewhere(c)
              \/ RecordForeign(c) \/ ReReport(c)
        PROVE  OwnUrlInv'
    BY <1>5, NeverAttached DEF DurableInv
  <1>6. ASSUME NEW c \in Calls, Arrive(c) PROVE OwnUrlInv'
    BY <1>6 DEF Arrive, Evictable, RemoveRecords, DurableInv, TypeInv, TypeOK,
       AloneInv, OwnUrlInv, LifeInv, Here
  <1>7. ASSUME NEW c \in Calls, ForgetEvicted(c) PROVE OwnUrlInv'
    BY <1>7 DEF ForgetEvicted, ForgetClaim, DurableInv, TypeInv, TypeOK,
       AloneInv, OwnUrlInv, LifeInv, Here
  <1>8. ASSUME NEW c \in Calls, AdmitCreated(c) PROVE OwnUrlInv'
    BY <1>8 DEF AdmitCreated, DurableInv, TypeInv, TypeOK, AloneInv,
       OwnUrlInv, LifeInv, Here
  <1>9. ASSUME NEW c \in Calls, Insert(c) PROVE OwnUrlInv'
    BY <1>9 DEF Insert, DurableInv, TypeInv, TypeOK, AloneInv, OwnUrlInv,
       LifeInv, Here
  <1>10. ASSUME NEW c \in Calls, Snapshot(c) PROVE OwnUrlInv'
    BY <1>10 DEF Snapshot, DurableInv, TypeInv, TypeOK, AloneInv, OwnUrlInv,
       LifeInv, Here
  <1>11. ASSUME NEW c \in Calls, WriteIntent(c) PROVE OwnUrlInv'
    BY <1>11 DEF WriteIntent, RecordEntry, DurableInv, TypeInv, TypeOK,
       AloneInv, OwnUrlInv, LifeInv, Here
  <1>12. ASSUME NEW c \in Calls, RefuseNotDurable(c) PROVE OwnUrlInv'
    BY <1>12 DEF RefuseNotDurable, DurableInv, TypeInv, TypeOK, AloneInv,
       OwnUrlInv, LifeInv, Here
  <1>13. ASSUME NEW c \in Calls, UndoRecord(c) PROVE OwnUrlInv'
    BY <1>13 DEF UndoRecord, RemoveRecords, DurableInv, TypeInv, TypeOK,
       AloneInv, OwnUrlInv, LifeInv, Here
  <1>14. ASSUME NEW c \in Calls, UndoClaim(c) PROVE OwnUrlInv'
    BY <1>14 DEF UndoClaim, ForgetClaim, DurableInv, TypeInv, TypeOK, AloneInv,
       OwnUrlInv, LifeInv, Here
  <1>15. ASSUME NEW c \in Calls, Start(c) PROVE OwnUrlInv'
    BY <1>15 DEF Start, DurableInv, TypeInv, TypeOK, AloneInv, OwnUrlInv,
       LifeInv, Here
  <1>16. ASSUME NEW c \in Calls, Scan(c) PROVE OwnUrlInv'
    BY <1>16 DEF Scan, DurableInv, TypeInv, TypeOK, AloneInv, OwnUrlInv,
       LifeInv, Here
  <1>17. ASSUME NEW c \in Calls, Ack(c) PROVE OwnUrlInv'
    BY <1>17 DEF Ack, DurableInv, TypeInv, TypeOK, AloneInv, OwnUrlInv,
       LifeInv, Here
  <1>18. ASSUME NEW j \in Calls, Decide(j) PROVE OwnUrlInv'
    BY <1>18 DEF Decide, DurableInv, TypeInv, TypeOK, AloneInv, OwnUrlInv,
       LifeInv, Here
  <1>19. ASSUME NEW j \in Calls, Settle(j) PROVE OwnUrlInv'
    BY <1>19 DEF Settle, DurableInv, TypeInv, TypeOK, AloneInv, OwnUrlInv,
       LifeInv, Here
  <1>20. ASSUME NEW j \in Calls, SnapshotVerdict(j) PROVE OwnUrlInv'
    BY <1>20 DEF SnapshotVerdict, DurableInv, TypeInv, TypeOK, AloneInv,
       OwnUrlInv, LifeInv, Here
  <1>21. ASSUME NEW j \in Calls, WriteVerdict(j) PROVE OwnUrlInv'
    BY <1>21 DEF WriteVerdict, RecordEntry, DurableInv, TypeInv, TypeOK,
       AloneInv, OwnUrlInv, LifeInv, Here
  <1>22. ASSUME NEW j \in Calls, Send(j) PROVE OwnUrlInv'
    BY <1>22 DEF Send, StartSender, MayDeliver, DurableInv, TypeInv, TypeOK,
       AloneInv, OwnUrlInv, LifeInv, Here
  <1>23. ASSUME NEW t \in Tasks, Merge(t) PROVE OwnUrlInv'
    BY <1>23 DEF Merge, DurableInv, TypeInv, TypeOK, AloneInv, OwnUrlInv,
       LifeInv, Here
  <1>24. ASSUME NEW t \in Tasks, Read(t) PROVE OwnUrlInv'
    <2>1. /\ UNCHANGED <<urls, claimUrls, state, pc, intent, drv, drvIntent, entries,
                         entryUrls, told>>
          /\ queue' \in {[queue EXCEPT ![t] = urls[t[2]] \ attempted[t]],
                         [queue EXCEPT ![t] = {}]}
      BY <1>24 DEF Read
    <2>2. t[2] \in Calls
      BY DEF Tasks
    <2> QED
      BY <2>1, <2>2 DEF DurableInv, TypeInv, TypeOK, OwnUrlInv, Here
  <1>25. ASSUME NEW t \in Tasks, Post(t) PROVE OwnUrlInv'
    BY <1>25 DEF Post, DurableInv, TypeInv, TypeOK, AloneInv, OwnUrlInv,
       LifeInv, Here
  <1>26. ASSUME NEW t \in Tasks, SettleReport(t) PROVE OwnUrlInv'
    <2>1. \A j \in Calls : Here(j)' => Here(j)
      BY <1>26 DEF SettleReport, JobTransition, JobEdge, Here, DurableInv, TypeInv,
         TypeOK, Tasks, Statuses
    <2>2. UNCHANGED <<urls, claimUrls, pc, intent, drv, drvIntent, entries,
                      entryUrls, queue, told>>
      BY <1>26 DEF SettleReport
    <2> QED
      BY <2>1, <2>2 DEF DurableInv, OwnUrlInv
  <1>27. ASSUME NEW t \in Tasks, ForgetEntry(t) PROVE OwnUrlInv'
    BY <1>27 DEF ForgetEntry, ForgetEntryOf, DurableInv, TypeInv, TypeOK,
       AloneInv, OwnUrlInv, LifeInv, Here
  <1>28. ASSUME NEW t \in Tasks, Release(t) PROVE OwnUrlInv'
    BY <1>28 DEF Release, DurableInv, TypeInv, TypeOK, AloneInv, OwnUrlInv,
       LifeInv, Here
  <1>29. ASSUME Crash PROVE OwnUrlInv'
    BY <1>29 DEF Crash, RemoveRecords, Over, DurableInv, TypeInv, TypeOK,
       AloneInv, OwnUrlInv, LifeInv, Here
  <1>30. ASSUME Recover PROVE OwnUrlInv'
    BY <1>30 DEF Recover, ForgetEntryOf, DurableInv, TypeInv, TypeOK, AloneInv,
       OwnUrlInv, LifeInv, Here
  <1> QED
    BY <1>1, <1>2, <1>3, <1>4, <1>5, <1>6, <1>7, <1>8, <1>9, <1>10, <1>11,
       <1>12, <1>13, <1>14, <1>15, <1>16, <1>17, <1>18, <1>19, <1>20, <1>21,
       <1>22, <1>23, <1>24, <1>25, <1>26, <1>27, <1>28, <1>29, <1>30
       DEF Next, Accept, Drive, Report

\* Every step keeps record, driver and senders together.
LEMMA LifeStep == OneCallATree /\ DurableInv /\ [Next]_vars => LifeInv'
  <1> SUFFICES ASSUME OneCallATree, DurableInv, [Next]_vars PROVE LifeInv'
    OBVIOUS
  <1> USE DEF outVars, entryVars, procVars, jobVars, claimVars,
              callVars, drvVars, sndVars
  <1>1. CASE UNCHANGED <<state, pc, drv, at>>
    BY <1>1 DEF DurableInv, TypeInv, TypeOK, DriverInv, Started, AloneInv,
       LifeInv, Active, HasVerdict, Statuses
  <1>2. CASE UNCHANGED vars
    BY <1>1, <1>2 DEF vars
  <1>3. ASSUME NEW c \in Calls, ForgetEvicted(c)
        PROVE  LifeInv'
    BY <1>1, <1>3 DEF ForgetEvicted, ForgetClaim
  <1>4. ASSUME Recover \/ Serve PROVE LifeInv'
    BY <1>1, <1>4 DEF Recover, ForgetEntryOf, Serve
  <1>5. ASSUME NEW c \in Calls,
              AdmitAttached(c) \/ AttachHere(c) \/ AttachElsewhere(c)
              \/ RecordForeign(c) \/ ReReport(c)
        PROVE  LifeInv'
    BY <1>5, NeverAttached DEF DurableInv
  <1>6. ASSUME NEW c \in Calls, Arrive(c) PROVE LifeInv'
    BY <1>6 DEF Arrive, Evictable, RemoveRecords, OwesAVerdict, DurableInv,
       TypeInv, TypeOK, DriverInv, Started, AloneInv, LifeInv, Active,
       HasVerdict, Statuses
  <1>7. ASSUME NEW c \in Calls, AdmitCreated(c) PROVE LifeInv'
    BY <1>7 DEF AdmitCreated, DurableInv, TypeInv, TypeOK, DriverInv, Started,
       AloneInv, LifeInv, Active, HasVerdict, Statuses
  <1>8. ASSUME NEW c \in Calls, Insert(c) PROVE LifeInv'
    BY <1>8 DEF Insert, DurableInv, TypeInv, TypeOK, DriverInv, Started,
       AloneInv, LifeInv, Active, HasVerdict, Statuses
  <1>9. ASSUME NEW c \in Calls, Snapshot(c) PROVE LifeInv'
    BY <1>9 DEF Snapshot, DurableInv, TypeInv, TypeOK, DriverInv, Started,
       AloneInv, LifeInv, Active, HasVerdict, Statuses
  <1>10. ASSUME NEW c \in Calls, WriteIntent(c) PROVE LifeInv'
    BY <1>10 DEF WriteIntent, RecordEntry, DurableInv, TypeInv, TypeOK,
       DriverInv, Started, AloneInv, LifeInv, Active, HasVerdict, Statuses
  <1>11. ASSUME NEW c \in Calls, RefuseNotDurable(c) PROVE LifeInv'
    BY <1>11 DEF RefuseNotDurable, DurableInv, TypeInv, TypeOK, DriverInv,
       Started, AloneInv, LifeInv, Active, HasVerdict, Statuses
  <1>12. ASSUME NEW c \in Calls, UndoRecord(c) PROVE LifeInv'
    BY <1>12, SMTT(20) DEF UndoRecord, RemoveRecords, DurableInv, TypeInv, TypeOK,
       DriverInv, Started, AloneInv, LifeInv, Active, HasVerdict, Statuses
  <1>13. ASSUME NEW c \in Calls, UndoClaim(c) PROVE LifeInv'
    BY <1>13 DEF UndoClaim, ForgetClaim, DurableInv, TypeInv, TypeOK,
       DriverInv, Started, AloneInv, LifeInv, Active, HasVerdict, Statuses
  <1>14. ASSUME NEW c \in Calls, Start(c) PROVE LifeInv'
    BY <1>14, SMTT(20) DEF Start, DurableInv, TypeInv, TypeOK, DriverInv, Started,
       AloneInv, LifeInv, Active, HasVerdict, Statuses
  <1>15. ASSUME NEW c \in Calls, Scan(c) PROVE LifeInv'
    BY <1>15 DEF Scan, DurableInv, TypeInv, TypeOK, DriverInv, Started,
       AloneInv, LifeInv, Active, HasVerdict, Statuses
  <1>16. ASSUME NEW c \in Calls, Redeliver(c) PROVE LifeInv'
    BY <1>16 DEF Redeliver, StartSender, Parked, Here, DurableInv, TypeInv,
       TypeOK, DriverInv, Started, AloneInv, LifeInv, Active, HasVerdict,
       Statuses
  <1>17. ASSUME NEW c \in Calls, Ack(c) PROVE LifeInv'
    BY <1>17 DEF Ack, DurableInv, TypeInv, TypeOK, DriverInv, Started,
       AloneInv, LifeInv, Active, HasVerdict, Statuses
  <1>18. ASSUME NEW j \in Calls, Decide(j) PROVE LifeInv'
    <2>1. /\ drv[j] = "drive" /\ drv' = [drv EXCEPT ![j] = "settle"]
          /\ UNCHANGED <<pc, at>>
      BY <1>18 DEF Decide
    <2>2. \A i \in Calls : i # j => state'[i] = state[i] /\ drv'[i] = drv[i]
      BY <1>18, <2>1 DEF Decide, DurableInv, TypeInv, TypeOK
    <2>3. state[j] = "running" /\ pc[j] \in Started /\ drv'[j] = "settle"
      BY <2>1 DEF DurableInv, LifeInv, DriverInv, TypeInv, TypeOK
    <2>4. state'[j] \in Statuses \cup {"running"}
      BY <1>18, <2>3, OutboxAssumption
         DEF Decide, JobTransition, JobEdge, DurableInv, TypeInv, TypeOK, Statuses
    <2>5. \A t \in Tasks : t[2] \in Calls /\ (Active(t) => t[2] # j)
      BY <2>1 DEF Tasks, DurableInv, LifeInv
    <2> QED
      BY <2>1, <2>2, <2>3, <2>4, <2>5
         DEF DurableInv, LifeInv, Active, Started, HasVerdict, Statuses
  <1>19. ASSUME NEW j \in Calls, Settle(j) PROVE LifeInv'
    BY <1>19 DEF Settle, DurableInv, TypeInv, TypeOK, DriverInv, Started,
       AloneInv, LifeInv, Active, HasVerdict, Statuses
  <1>20. ASSUME NEW j \in Calls, SnapshotVerdict(j) PROVE LifeInv'
    BY <1>20 DEF SnapshotVerdict, DurableInv, TypeInv, TypeOK, DriverInv,
       Started, AloneInv, LifeInv, Active, HasVerdict, Statuses
  <1>21. ASSUME NEW j \in Calls, WriteVerdict(j) PROVE LifeInv'
    BY <1>21 DEF WriteVerdict, RecordEntry, DurableInv, TypeInv, TypeOK,
       DriverInv, Started, AloneInv, LifeInv, Active, HasVerdict, Statuses
  <1>22. ASSUME NEW j \in Calls, Send(j) PROVE LifeInv'
    BY <1>22 DEF Send, StartSender, MayDeliver, Here, DurableInv, TypeInv,
       TypeOK, DriverInv, Started, AloneInv, LifeInv, Active, HasVerdict,
       Statuses
  <1>23. ASSUME NEW t \in Tasks, Merge(t) PROVE LifeInv'
    BY <1>23 DEF Merge, DurableInv, TypeInv, TypeOK, DriverInv, Started,
       AloneInv, LifeInv, Active, HasVerdict, Statuses
  <1>24. ASSUME NEW t \in Tasks, Read(t) PROVE LifeInv'
    BY <1>24 DEF Read, DurableInv, TypeInv, TypeOK, DriverInv, Started,
       AloneInv, LifeInv, Active, HasVerdict, Statuses
  <1>25. ASSUME NEW t \in Tasks, Post(t) PROVE LifeInv'
    BY <1>25 DEF Post, DurableInv, TypeInv, TypeOK, DriverInv, Started,
       AloneInv, LifeInv, Active, HasVerdict, Statuses
  <1>26. ASSUME NEW t \in Tasks, SettleReport(t) PROVE LifeInv'
    BY <1>26 DEF SettleReport, JobTransition, JobEdge, DurableInv, TypeInv,
       TypeOK, DriverInv, Started, AloneInv, LifeInv, Active, HasVerdict,
       Statuses
  <1>27. ASSUME NEW t \in Tasks, ForgetEntry(t) PROVE LifeInv'
    BY <1>27 DEF ForgetEntry, ForgetEntryOf, DurableInv, TypeInv, TypeOK,
       DriverInv, Started, AloneInv, LifeInv, Active, HasVerdict, Statuses
  <1>28. ASSUME NEW t \in Tasks, Release(t) PROVE LifeInv'
    BY <1>28 DEF Release, DurableInv, TypeInv, TypeOK, DriverInv, Started,
       AloneInv, LifeInv, Active, HasVerdict, Statuses
  <1>29. ASSUME Crash PROVE LifeInv'
    BY <1>29 DEF Crash, RemoveRecords, Over, DurableInv, TypeInv, TypeOK,
       DriverInv, Started, AloneInv, LifeInv, Active, HasVerdict, Statuses
  <1> QED
    BY <1>1, <1>2, <1>3, <1>4, <1>5, <1>6, <1>7, <1>8, <1>9, <1>10, <1>11,
       <1>12, <1>13, <1>14, <1>15, <1>16, <1>17, <1>18, <1>19, <1>20, <1>21,
       <1>22, <1>23, <1>24, <1>25, <1>26, <1>27, <1>28, <1>29
       DEF Next, Accept, Drive, Report

\* Every step keeps what is owed on the journal, or has told Hull.
LEMMA DebtStep == OneCallATree /\ DurableInv /\ [Next]_vars => DebtInv'
  <1> SUFFICES ASSUME OneCallATree, DurableInv, [Next]_vars PROVE DebtInv'
    OBVIOUS
  <1> USE DEF outVars, entryVars, procVars, jobVars, claimVars,
              callVars, drvVars, sndVars
  <1>1. CASE UNCHANGED <<pc, told, entries, drv, landed, at>>
    BY <1>1 DEF DurableInv, TypeInv, TypeOK, DriverInv, Started, AloneInv,
       LifeInv, DebtInv, Silent, Early, Unsent, Tasks
  <1>2. CASE UNCHANGED vars
    BY <1>1, <1>2 DEF vars
  <1>3. ASSUME NEW c \in Calls, ForgetEvicted(c)
        PROVE  DebtInv'
    BY <1>1, <1>3 DEF ForgetEvicted, ForgetClaim
  <1>4. ASSUME Serve PROVE DebtInv'
    BY <1>1, <1>4 DEF Serve
  <1>5. ASSUME NEW c \in Calls,
              AdmitAttached(c) \/ AttachHere(c) \/ AttachElsewhere(c)
              \/ RecordForeign(c) \/ ReReport(c)
        PROVE  DebtInv'
    BY <1>5, NeverAttached DEF DurableInv
  <1>6. ASSUME NEW c \in Calls, Arrive(c) PROVE DebtInv'
    BY <1>6 DEF Arrive, Evictable, RemoveRecords, DurableInv, TypeInv, TypeOK,
       DriverInv, Started, AloneInv, LifeInv, DebtInv, Silent, Early, Unsent,
       Tasks
  <1>7. ASSUME NEW c \in Calls, AdmitCreated(c) PROVE DebtInv'
    BY <1>7 DEF AdmitCreated, DurableInv, TypeInv, TypeOK, DriverInv, Started,
       AloneInv, LifeInv, DebtInv, Silent, Early, Unsent, Tasks
  <1>8. ASSUME NEW c \in Calls, Insert(c) PROVE DebtInv'
    BY <1>8 DEF Insert, DurableInv, TypeInv, TypeOK, DriverInv, Started,
       AloneInv, LifeInv, DebtInv, Silent, Early, Unsent, Tasks
  <1>9. ASSUME NEW c \in Calls, Snapshot(c) PROVE DebtInv'
    BY <1>9 DEF Snapshot, Here, DurableInv, TypeInv, TypeOK, DriverInv,
       Started, AloneInv, LifeInv, DebtInv, Silent, Early, Unsent, Tasks
  <1>10. ASSUME NEW c \in Calls, WriteIntent(c) PROVE DebtInv'
    BY <1>10 DEF WriteIntent, RecordEntry, DurableInv, TypeInv, TypeOK,
       DriverInv, Started, AloneInv, LifeInv, DebtInv, Silent, Early, Unsent,
       Tasks
  <1>11. ASSUME NEW c \in Calls, RefuseNotDurable(c) PROVE DebtInv'
    BY <1>11 DEF RefuseNotDurable, DurableInv, TypeInv, TypeOK, DriverInv,
       Started, AloneInv, LifeInv, DebtInv, Silent, Early, Unsent, Tasks
  <1>12. ASSUME NEW c \in Calls, UndoRecord(c) PROVE DebtInv'
    BY <1>12 DEF UndoRecord, RemoveRecords, DurableInv, TypeInv, TypeOK,
       DriverInv, Started, AloneInv, LifeInv, DebtInv, Silent, Early, Unsent,
       Tasks
  <1>13. ASSUME NEW c \in Calls, UndoClaim(c) PROVE DebtInv'
    BY <1>13 DEF UndoClaim, ForgetClaim, DurableInv, TypeInv, TypeOK,
       DriverInv, Started, AloneInv, LifeInv, DebtInv, Silent, Early, Unsent,
       Tasks
  <1>14. ASSUME NEW c \in Calls, Start(c) PROVE DebtInv'
    BY <1>14 DEF Start, DurableInv, TypeInv, TypeOK, DriverInv, Started,
       AloneInv, LifeInv, DebtInv, Silent, Early, Unsent, Tasks
  <1>15. ASSUME NEW c \in Calls, Scan(c) PROVE DebtInv'
    BY <1>15 DEF Scan, DurableInv, TypeInv, TypeOK, DriverInv, Started,
       AloneInv, LifeInv, DebtInv, Silent, Early, Unsent, Tasks
  <1>16. ASSUME NEW c \in Calls, Redeliver(c) PROVE DebtInv'
    <2>1. UNCHANGED <<pc, told, entries, drv, landed>>
      BY <1>16 DEF Redeliver
    <2>2. \A t \in Tasks : at'[t] = "forget" => at[t] = "forget"
      BY <1>16 DEF Redeliver, StartSender, DurableInv, TypeInv, TypeOK
    <2> QED
      BY <2>1, <2>2 DEF DurableInv, DebtInv, Silent
  <1>17. ASSUME NEW c \in Calls, Ack(c) PROVE DebtInv'
    BY <1>17 DEF Ack, DurableInv, TypeInv, TypeOK, DriverInv, Started,
       AloneInv, LifeInv, DebtInv, Silent, Early, Unsent, Tasks
  <1>18. ASSUME NEW j \in Calls, Decide(j) PROVE DebtInv'
    BY <1>18 DEF Decide, DurableInv, TypeInv, TypeOK, DriverInv, Started,
       AloneInv, LifeInv, DebtInv, Silent, Early, Unsent, Tasks
  <1>19. ASSUME NEW j \in Calls, Settle(j) PROVE DebtInv'
    BY <1>19 DEF Settle, DurableInv, TypeInv, TypeOK, DriverInv, Started,
       AloneInv, LifeInv, DebtInv, Silent, Early, Unsent, Tasks
  <1>20. ASSUME NEW j \in Calls, SnapshotVerdict(j) PROVE DebtInv'
    BY <1>20 DEF SnapshotVerdict, DurableInv, TypeInv, TypeOK, DriverInv,
       Started, AloneInv, LifeInv, DebtInv, Silent, Early, Unsent, Tasks
  <1>21. ASSUME NEW j \in Calls, WriteVerdict(j) PROVE DebtInv'
    BY <1>21 DEF WriteVerdict, RecordEntry, DurableInv, TypeInv, TypeOK,
       DriverInv, Started, AloneInv, LifeInv, DebtInv, Silent, Early, Unsent,
       Tasks
  <1>22. ASSUME NEW j \in Calls, Send(j) PROVE DebtInv'
    <2>1. UNCHANGED <<pc, told, entries, landed>> /\ drv' = [drv EXCEPT ![j] = "done"]
      BY <1>22 DEF Send
    <2>2. \A t \in Tasks : at'[t] = "forget" => at[t] = "forget"
      BY <1>22 DEF Send, StartSender, DurableInv, TypeInv, TypeOK
    <2> QED
      BY <2>1, <2>2 DEF DurableInv, TypeInv, TypeOK, DebtInv, Silent, Unsent
  <1>23. ASSUME NEW t \in Tasks, Merge(t) PROVE DebtInv'
    BY <1>23 DEF Merge, DurableInv, TypeInv, TypeOK, DriverInv, Started,
       AloneInv, LifeInv, DebtInv, Silent, Early, Unsent, Tasks
  <1>24. ASSUME NEW t \in Tasks, Read(t) PROVE DebtInv'
    BY <1>24 DEF Read, DurableInv, TypeInv, TypeOK, DriverInv, Started,
       AloneInv, LifeInv, DebtInv, Silent, Early, Unsent, Tasks
  <1>25. ASSUME NEW t \in Tasks, Post(t) PROVE DebtInv'
    <2>1. PICK u \in queue[t] :
            /\ \/ told' = told \cup {<<u, t[2], carried[t]>>} /\ landed' = landed \cup {t}
               \/ told' = told \cup {<<u, t[2], carried[t]>>} /\ landed' = landed
               \/ told' = told /\ landed' = landed
            /\ at' = [at EXCEPT ![t] = IF queue[t] = {u} THEN "merge" ELSE "post"]
      BY <1>25 DEF Post
    <2>2. drv[t[2]] = "done" /\ pc[t[2]] \in Started /\ t[2] \in Calls
      BY <1>25 DEF Post, Active, DurableInv, LifeInv, DriverInv, Tasks
    <2>3. \A j \in Calls : IF Silent(j) THEN j # t[2] => Silent(j)' ELSE ~Silent(j)'
      BY <2>1 DEF Silent
    <2>4. t \in landed' => t \in landed \/ ~Silent(t[2])'
      <3>1. CASE told' = told \cup {<<u, t[2], carried[t]>>}
        <4>1. <<u, t[2], carried[t]>> \in told'
          BY <3>1
        <4> QED
          BY <4>1 DEF Silent
      <3> QED
        BY <2>1, <3>1
    <2>5. UNCHANGED <<pc, entries, drv>>
      BY <1>25 DEF Post
    <2>6. \A s \in Tasks : at'[s] = "forget" => at[s] = "forget"
      BY <2>1 DEF DurableInv, TypeInv, TypeOK
    <2>7. landed \subseteq landed' /\ landed' \subseteq landed \cup {t}
      BY <2>1
    <2>8. \A s \in Tasks : s[2] \in Calls
      BY DEF Tasks
    <2> HIDE DEF Silent
    <2> QED
      BY <2>2, <2>3, <2>4, <2>5, <2>6, <2>7, <2>8 DEF DurableInv, DebtInv, Unsent,
         Early, Started
  <1>26. ASSUME NEW t \in Tasks, SettleReport(t) PROVE DebtInv'
    BY <1>26 DEF SettleReport, DurableInv, TypeInv, TypeOK, DriverInv, Started,
       AloneInv, LifeInv, DebtInv, Silent, Early, Unsent, Tasks
  <1>27. ASSUME NEW t \in Tasks, ForgetEntry(t) PROVE DebtInv'
    BY <1>27 DEF ForgetEntry, ForgetEntryOf, Active, DurableInv, TypeInv,
       TypeOK, DriverInv, Started, AloneInv, LifeInv, DebtInv, Silent, Early,
       Unsent, Tasks
  <1>28. ASSUME NEW t \in Tasks, Release(t) PROVE DebtInv'
    BY <1>28 DEF Release, DurableInv, TypeInv, TypeOK, DriverInv, Started,
       AloneInv, LifeInv, DebtInv, Silent, Early, Unsent, Tasks
  <1>29. ASSUME Crash PROVE DebtInv'
    BY <1>29 DEF Crash, RemoveRecords, Over, DurableInv, TypeInv, TypeOK,
       DriverInv, Started, AloneInv, LifeInv, DebtInv, Silent, Early, Unsent,
       Tasks
  <1>30. ASSUME Recover PROVE DebtInv'
    <2>1. PICK j \in recovering, v \in Statuses, heard \in SUBSET Urls, ok \in BOOLEAN :
            RecoversAs(j, v, heard, ok)
      BY <1>30, RecoverSays DEF DurableInv
    <2>2. j \in Calls /\ j \in entries
      BY DEF DurableInv, TypeInv, TypeOK, PassInv
    <2>3. /\ \A i \in Calls : drv[i] = "none" /\ pc[i] \in Over
          /\ \A t \in Tasks : at[t] = "off"
      BY <2>2 DEF DurableInv, TypeInv, TypeOK, PassInv
    <2>4. \A i \in Calls : IF Silent(i) THEN i # j => Silent(i)' ELSE ~Silent(i)'
      BY <2>1 DEF Silent, RecoversAs
    <2>5. ok => ~Silent(j)'
      <3>1. SUFFICES ASSUME ok PROVE \E m \in told' : m[2] = j
        BY DEF Silent
      <3>2. PICK u \in heard : TRUE
        BY <2>1, <3>1 DEF RecoversAs
      <3>3. <<u, j, v>> \in told'
        BY <2>1, <3>2 DEF RecoversAs
      <3> QED
        BY <3>3
    <2>6. UNCHANGED <<pc, drv, landed, at>>
      BY <1>30 DEF Recover
    <2>7. /\ \A i \in Calls : i # j => (i \in entries' <=> i \in entries)
          /\ j \in entries' \/ ok
      BY <2>1, <2>2 DEF RecoversAs, ForgetEntryOf
    <2>8. \A s \in Tasks : s[2] \in Calls
      BY DEF Tasks
    <2> HIDE DEF Silent
    <2> QED
      BY <2>2, <2>3, <2>4, <2>5, <2>6, <2>7, <2>8 DEF DurableInv, DebtInv, Unsent,
         Early, Started, Over
  <1> QED
    BY <1>1, <1>2, <1>3, <1>4, <1>5, <1>6, <1>7, <1>8, <1>9, <1>10, <1>11,
       <1>12, <1>13, <1>14, <1>15, <1>16, <1>17, <1>18, <1>19, <1>20, <1>21,
       <1>22, <1>23, <1>24, <1>25, <1>26, <1>27, <1>28, <1>29, <1>30
       DEF Next, Accept, Drive, Report

\* A sender tells Hull what the driver decided.
LEMMA PostSays ==
  ASSUME TypeInv, CopyInv, NEW t \in Tasks, Post(t)
  PROVE  \A m \in told' : m \in told \/ (m[2] = t[2] /\ m[3] = decided[t[2]])
  <1>1. carried[t] = decided[t[2]]
    BY DEF Post, TypeInv, PostInv, CopyInv
  <1>2. PICK u \in queue[t] : told' \in {told, told \cup {<<u, t[2], carried[t]>>}}
    BY DEF Post
  <1>3. \A m \in told' : m \in told \/ m = <<u, t[2], carried[t]>>
    BY <1>2
  <1> QED
    BY <1>1, <1>3

\* A delivered job's entry goes, and nothing puts it back.
LEMMA PaidStep ==
  OneCallATree /\ DurableInv /\ PaidInv /\ [Next]_vars => PaidInv'
  <1> SUFFICES ASSUME OneCallATree, DurableInv, PaidInv, [Next]_vars
               PROVE  PaidInv'
    OBVIOUS
  <1> USE DEF outVars, entryVars, procVars, jobVars, claimVars,
              callVars, drvVars, sndVars
  <1>1. CASE UNCHANGED <<state, entries, at>>
    BY <1>1 DEF DurableInv, TypeInv, TypeOK, AloneInv, LifeInv, DebtInv,
       PaidInv, Tasks
  <1>2. CASE UNCHANGED vars
    BY <1>1, <1>2 DEF vars
  <1>3. ASSUME NEW c \in Calls,
              ForgetEvicted(c) \/ AdmitCreated(c) \/ Snapshot(c)
              \/ RefuseNotDurable(c) \/ UndoClaim(c) \/ Start(c) \/ Scan(c)
              \/ Ack(c)
        PROVE  PaidInv'
    BY <1>1, <1>3 DEF ForgetEvicted, ForgetClaim, AdmitCreated, Snapshot,
       RefuseNotDurable, UndoClaim, ForgetClaim, Start, Scan, Ack
  <1>4. ASSUME NEW j \in Calls, Settle(j) \/ SnapshotVerdict(j)
        PROVE  PaidInv'
    BY <1>1, <1>4 DEF Settle, SnapshotVerdict
  <1>5. ASSUME Serve PROVE PaidInv'
    BY <1>1, <1>5 DEF Serve
  <1>6. ASSUME NEW c \in Calls,
              AdmitAttached(c) \/ AttachHere(c) \/ AttachElsewhere(c)
              \/ RecordForeign(c) \/ ReReport(c)
        PROVE  PaidInv'
    BY <1>6, NeverAttached DEF DurableInv
  <1>7. ASSUME NEW c \in Calls, Arrive(c) PROVE PaidInv'
    BY <1>7 DEF Arrive, Evictable, RemoveRecords, DurableInv, TypeInv, TypeOK,
       AloneInv, LifeInv, DebtInv, PaidInv, Tasks
  <1>8. ASSUME NEW c \in Calls, Insert(c) PROVE PaidInv'
    BY <1>8 DEF Insert, DurableInv, TypeInv, TypeOK, AloneInv, LifeInv,
       DebtInv, PaidInv, Tasks
  <1>9. ASSUME NEW c \in Calls, WriteIntent(c) PROVE PaidInv'
    BY <1>9 DEF WriteIntent, RecordEntry, DurableInv, TypeInv, TypeOK,
       AloneInv, LifeInv, DebtInv, PaidInv, Tasks
  <1>10. ASSUME NEW c \in Calls, UndoRecord(c) PROVE PaidInv'
    BY <1>10 DEF UndoRecord, RemoveRecords, DurableInv, TypeInv, TypeOK,
       AloneInv, LifeInv, DebtInv, PaidInv, Tasks
  <1>11. ASSUME NEW c \in Calls, Redeliver(c) PROVE PaidInv'
    BY <1>11 DEF Redeliver, StartSender, Parked, LifeInv, DurableInv, TypeInv,
       TypeOK, AloneInv, DebtInv, PaidInv, Tasks
  <1>12. ASSUME NEW j \in Calls, Decide(j) PROVE PaidInv'
    BY <1>12 DEF Decide, JobTransition, JobEdge, Statuses, DurableInv, TypeInv,
       TypeOK, AloneInv, LifeInv, DebtInv, PaidInv, Tasks
  <1>13. ASSUME NEW j \in Calls, WriteVerdict(j) PROVE PaidInv'
    BY <1>13 DEF WriteVerdict, RecordEntry, DurableInv, TypeInv, TypeOK,
       AloneInv, LifeInv, DebtInv, PaidInv, Tasks
  <1>14. ASSUME NEW j \in Calls, Send(j) PROVE PaidInv'
    BY <1>14 DEF Send, StartSender, MayDeliver, LifeInv, DurableInv, TypeInv,
       TypeOK, AloneInv, DebtInv, PaidInv, Tasks
  <1>15. ASSUME NEW t \in Tasks, Merge(t) PROVE PaidInv'
    BY <1>15 DEF Merge, DurableInv, TypeInv, TypeOK, AloneInv, LifeInv,
       DebtInv, PaidInv, Tasks
  <1>16. ASSUME NEW t \in Tasks, Read(t) PROVE PaidInv'
    BY <1>16 DEF Read, DurableInv, TypeInv, TypeOK, AloneInv, LifeInv, DebtInv,
       PaidInv, Tasks
  <1>17. ASSUME NEW t \in Tasks, Post(t) PROVE PaidInv'
    BY <1>17 DEF Post, DurableInv, TypeInv, TypeOK, AloneInv, LifeInv, DebtInv,
       PaidInv, Tasks
  <1>18. ASSUME NEW t \in Tasks, SettleReport(t) PROVE PaidInv'
    BY <1>18 DEF SettleReport, JobTransition, JobEdge, DurableInv, TypeInv,
       TypeOK, AloneInv, LifeInv, DebtInv, PaidInv, Tasks
  <1>19. ASSUME NEW t \in Tasks, ForgetEntry(t) PROVE PaidInv'
    BY <1>19 DEF ForgetEntry, ForgetEntryOf, DurableInv, TypeInv, TypeOK,
       AloneInv, LifeInv, DebtInv, PaidInv, Tasks
  <1>20. ASSUME NEW t \in Tasks, Release(t) PROVE PaidInv'
    BY <1>20 DEF Release, DurableInv, TypeInv, TypeOK, AloneInv, LifeInv,
       DebtInv, PaidInv, Tasks
  <1>21. ASSUME Crash PROVE PaidInv'
    BY <1>21 DEF Crash, RemoveRecords, DurableInv, TypeInv, TypeOK, AloneInv,
       LifeInv, DebtInv, PaidInv, Tasks
  <1>22. ASSUME Recover PROVE PaidInv'
    BY <1>22 DEF Recover, ForgetEntryOf, DurableInv, TypeInv, TypeOK, AloneInv,
       LifeInv, DebtInv, PaidInv, Tasks
  <1> QED
    BY <1>1, <1>2, <1>3, <1>4, <1>5, <1>6, <1>7, <1>8, <1>9, <1>10, <1>11,
       <1>12, <1>13, <1>14, <1>15, <1>16, <1>17, <1>18, <1>19, <1>20, <1>21,
       <1>22
       DEF Next, Accept, Drive, Report

\* Every step keeps the entry and what Hull was told in agreement.
LEMMA AnswerStep ==
  ~JournalFails /\ OneCallATree /\ DurableInv /\ TruthInv /\ AnswerInv /\
  [Next]_vars => AnswerInv'
  <1> SUFFICES ASSUME ~JournalFails, OneCallATree, DurableInv, TruthInv,
                      AnswerInv, [Next]_vars
               PROVE  AnswerInv'
    OBVIOUS
  <1> USE DEF outVars, entryVars, procVars, jobVars, claimVars,
              callVars, drvVars, sndVars
  <1>1. CASE UNCHANGED <<drv, state, entries, entryVerdict, told, decided, at>>
    BY <1>1 DEF DurableInv, TypeInv, TypeOK, DriverInv, AloneInv, LifeInv,
       DebtInv, Silent, Early, Unsent, Started, TruthInv, CopyInv, AnswerInv,
       Active, Here, Tasks
  <1>2. CASE UNCHANGED vars
    BY <1>1, <1>2 DEF vars
  <1>3. ASSUME NEW c \in Calls,
              ForgetEvicted(c) \/ AdmitCreated(c) \/ Snapshot(c)
              \/ RefuseNotDurable(c) \/ UndoClaim(c) \/ Scan(c) \/ Ack(c)
        PROVE  AnswerInv'
    BY <1>1, <1>3 DEF ForgetEvicted, ForgetClaim, AdmitCreated, Snapshot,
       RefuseNotDurable, UndoClaim, ForgetClaim, Scan, Ack
  <1>4. ASSUME Serve PROVE AnswerInv'
    BY <1>1, <1>4 DEF Serve
  <1>5. ASSUME NEW c \in Calls,
              AdmitAttached(c) \/ AttachHere(c) \/ AttachElsewhere(c)
              \/ RecordForeign(c) \/ ReReport(c)
        PROVE  AnswerInv'
    BY <1>5, NeverAttached DEF DurableInv
  <1>6. ASSUME NEW c \in Calls, Arrive(c) PROVE AnswerInv'
    BY <1>6 DEF Arrive, Evictable, RemoveRecords, DurableInv, TypeInv, TypeOK,
       DriverInv, AloneInv, LifeInv, DebtInv, Silent, Early, Unsent, Started,
       TruthInv, CopyInv, AnswerInv, Active, Here, Tasks
  <1>7. ASSUME NEW c \in Calls, Insert(c) PROVE AnswerInv'
    BY <1>7 DEF Insert, DurableInv, TypeInv, TypeOK, DriverInv, AloneInv,
       LifeInv, DebtInv, Silent, Early, Unsent, Started, TruthInv, CopyInv,
       AnswerInv, Active, Here, Tasks
  <1>8. ASSUME NEW c \in Calls, WriteIntent(c) PROVE AnswerInv'
    BY <1>8, SMTT(20) DEF WriteIntent, RecordEntry, DurableInv, TypeInv, TypeOK,
       DriverInv, AloneInv, LifeInv, DebtInv, Silent, Early, Unsent, Started,
       TruthInv, CopyInv, AnswerInv, Active, Here, Tasks
  <1>9. ASSUME NEW c \in Calls, UndoRecord(c) PROVE AnswerInv'
    BY <1>9 DEF UndoRecord, RemoveRecords, DurableInv, TypeInv, TypeOK,
       DriverInv, AloneInv, LifeInv, DebtInv, Silent, Early, Unsent, Started,
       TruthInv, CopyInv, AnswerInv, Active, Here, Tasks
  <1>10. ASSUME NEW c \in Calls, Start(c) PROVE AnswerInv'
    BY <1>10 DEF Start, DurableInv, TypeInv, TypeOK, DriverInv, AloneInv,
       LifeInv, DebtInv, Silent, Early, Unsent, Started, TruthInv, CopyInv,
       AnswerInv, Active, Here, Tasks
  <1>11. ASSUME NEW c \in Calls, Redeliver(c) PROVE AnswerInv'
    BY <1>11 DEF Redeliver, StartSender, Parked, DurableInv, TypeInv, TypeOK,
       DriverInv, AloneInv, LifeInv, DebtInv, Silent, Early, Unsent, Started,
       TruthInv, CopyInv, AnswerInv, Active, Here, Tasks
  <1>12. ASSUME NEW j \in Calls, Decide(j) PROVE AnswerInv'
    <2>1. PICK v \in Statuses : /\ decided' = [decided EXCEPT ![j] = v]
                               /\ state' = [state EXCEPT ![j] = JobTransition(@, v)]
      BY <1>12, OutboxAssumption DEF Decide
    <2>2. drv[j] = "drive" /\ drv' = [drv EXCEPT ![j] = "settle"]
      BY <1>12 DEF Decide
    <2>3. UNCHANGED <<told, entries, entryVerdict, at>>
      BY <1>12 DEF Decide
    <2>4. \A m \in told : m[2] # j
      BY <2>2 DEF DurableInv, DebtInv, Unsent, Silent
    <2>5. v # NoVerdict
      BY DEF Statuses, NoVerdict
    <2>6. \A i \in Calls : i # j => state'[i] = state[i]
      BY <2>1 DEF DurableInv, TypeInv, TypeOK
    <2> QED
      BY <2>1, <2>2, <2>3, <2>4, <2>5, <2>6 DEF DurableInv, TypeInv, TypeOK,
         AnswerInv, Active, Here, Tasks
  <1>13. ASSUME NEW j \in Calls, Settle(j) PROVE AnswerInv'
    BY <1>13 DEF Settle, DurableInv, TypeInv, TypeOK, DriverInv, AloneInv,
       LifeInv, DebtInv, Silent, Early, Unsent, Started, TruthInv, CopyInv,
       AnswerInv, Active, Here, Tasks
  <1>14. ASSUME NEW j \in Calls, SnapshotVerdict(j) PROVE AnswerInv'
    BY <1>14 DEF SnapshotVerdict, DurableInv, TypeInv, TypeOK, DriverInv,
       AloneInv, LifeInv, DebtInv, Silent, Early, Unsent, Started, TruthInv,
       CopyInv, AnswerInv, Active, Here, Tasks
  <1>15. ASSUME NEW j \in Calls, WriteVerdict(j) PROVE AnswerInv'
    <2>1. /\ entries' = entries \cup {j}
          /\ entryVerdict' = [entryVerdict EXCEPT ![j] = decided[j]]
      BY <1>15 DEF WriteVerdict, RecordEntry
    <2>2. drv' = [drv EXCEPT ![j] = "send"] /\ drv[j] = "write"
      BY <1>15 DEF WriteVerdict
    <2>3. UNCHANGED <<told, decided, state, at>>
      BY <1>15 DEF WriteVerdict
    <2>4. decided[j] # NoVerdict
      BY <2>2 DEF AnswerInv
    <2>5. \A m \in told : m[2] # j
      BY <2>2 DEF DurableInv, DebtInv, Unsent, Silent
    <2>6. drv'[j] = "send" /\ entryVerdict'[j] = decided[j]
      BY <2>1, <2>2 DEF DurableInv, TypeInv, TypeOK
    <2>7. \A i \in Calls : i # j =>
            /\ drv'[i] = drv[i] /\ entryVerdict'[i] = entryVerdict[i]
            /\ i \in entries' => i \in entries
      BY <2>1, <2>2 DEF DurableInv, TypeInv, TypeOK
    <2>8. \A t \in Tasks : t[2] \in Calls /\ (Active(t) => t[2] # j)
      BY <2>2 DEF Tasks, DurableInv, LifeInv
    <2> QED
      BY <2>3, <2>4, <2>5, <2>6, <2>7, <2>8 DEF AnswerInv, Active, Here
  <1>16. ASSUME NEW j \in Calls, Send(j) PROVE AnswerInv'
    BY <1>16 DEF Send, StartSender, MayDeliver, DurableInv, TypeInv, TypeOK,
       DriverInv, AloneInv, LifeInv, DebtInv, Silent, Early, Unsent, Started,
       TruthInv, CopyInv, AnswerInv, Active, Here, Tasks
  <1>17. ASSUME NEW t \in Tasks, Merge(t) PROVE AnswerInv'
    BY <1>17 DEF Merge, DurableInv, TypeInv, TypeOK, DriverInv, AloneInv,
       LifeInv, DebtInv, Silent, Early, Unsent, Started, TruthInv, CopyInv,
       AnswerInv, Active, Here, Tasks
  <1>18. ASSUME NEW t \in Tasks, Read(t) PROVE AnswerInv'
    BY <1>18 DEF Read, DurableInv, TypeInv, TypeOK, DriverInv, AloneInv,
       LifeInv, DebtInv, Silent, Early, Unsent, Started, TruthInv, CopyInv,
       AnswerInv, Active, Here, Tasks
  <1>19. ASSUME NEW t \in Tasks, Post(t) PROVE AnswerInv'
    <2>1. \A m \in told' : m \in told \/ (m[2] = t[2] /\ m[3] = decided[t[2]])
      BY <1>19, PostSays DEF DurableInv, TruthInv
    <2>2. drv[t[2]] = "done" /\ (t[2] \in entries => entryVerdict[t[2]] # NoVerdict)
      BY <1>19 DEF Post, Active, DurableInv, LifeInv, AnswerInv
    <2>3. UNCHANGED <<drv, state, entries, entryVerdict, decided>>
      BY <1>19 DEF Post
    <2>4. \A s \in Tasks : Active(s)' => Active(s)
      BY <1>19 DEF Post, Active, DurableInv, TypeInv, TypeOK
    <2> QED
      BY <2>1, <2>2, <2>3, <2>4 DEF AnswerInv, Here
  <1>20. ASSUME NEW t \in Tasks, SettleReport(t) PROVE AnswerInv'
    BY <1>20 DEF SettleReport, JobTransition, JobEdge, Statuses, NoVerdict,
       DurableInv, TypeInv, TypeOK, DriverInv, AloneInv, LifeInv, DebtInv,
       Silent, Early, Unsent, Started, TruthInv, CopyInv, AnswerInv, Active,
       Here, Tasks
  <1>21. ASSUME NEW t \in Tasks, ForgetEntry(t) PROVE AnswerInv'
    BY <1>21 DEF ForgetEntry, ForgetEntryOf, DurableInv, TypeInv, TypeOK,
       DriverInv, AloneInv, LifeInv, DebtInv, Silent, Early, Unsent, Started,
       TruthInv, CopyInv, AnswerInv, Active, Here, Tasks
  <1>22. ASSUME NEW t \in Tasks, Release(t) PROVE AnswerInv'
    BY <1>22 DEF Release, DurableInv, TypeInv, TypeOK, DriverInv, AloneInv,
       LifeInv, DebtInv, Silent, Early, Unsent, Started, TruthInv, CopyInv,
       AnswerInv, Active, Here, Tasks
  <1>23. ASSUME Crash PROVE AnswerInv'
    BY <1>23 DEF Crash, RemoveRecords, Over, DurableInv, TypeInv, TypeOK,
       DriverInv, AloneInv, LifeInv, DebtInv, Silent, Early, Unsent, Started,
       TruthInv, CopyInv, AnswerInv, Active, Here, Tasks
  <1>24. ASSUME Recover PROVE AnswerInv'
    BY <1>24 DEF Recover, ForgetEntryOf, PassInv, DurableInv, TypeInv, TypeOK,
       DriverInv, AloneInv, LifeInv, DebtInv, Silent, Early, Unsent, Started,
       TruthInv, CopyInv, AnswerInv, Active, Here, Tasks
  <1> QED
    BY <1>1, <1>2, <1>3, <1>4, <1>5, <1>6, <1>7, <1>8, <1>9, <1>10, <1>11,
       <1>12, <1>13, <1>14, <1>15, <1>16, <1>17, <1>18, <1>19, <1>20, <1>21,
       <1>22, <1>23, <1>24
       DEF Next, Accept, Drive, Report

\* Sender and recovery tell Hull what it was told of the job before.
LEMMA OneAnswerStep ==
  ~JournalFails /\ OneCallATree /\ DurableInv /\ TruthInv /\ AnswerInv /\
  OneAnswer /\ [Next]_vars => OneAnswer'
  <1> SUFFICES ASSUME ~JournalFails, OneCallATree, DurableInv, TruthInv,
                      AnswerInv, OneAnswer, [Next]_vars
               PROVE  OneAnswer'
    OBVIOUS
  <1> USE DEF outVars, entryVars, procVars, jobVars, claimVars,
              callVars, drvVars, sndVars
  <1>1. CASE UNCHANGED <<told>>
    BY <1>1 DEF DurableInv, TypeInv, TypeOK, TruthInv, CopyInv, LifeInv,
       AnswerInv, OneAnswer, Active, Tasks
  <1>2. CASE UNCHANGED vars
    BY <1>1, <1>2 DEF vars
  <1>3. ASSUME NEW c \in Calls,
              Arrive(c) \/ ForgetEvicted(c) \/ AdmitCreated(c) \/ Insert(c)
              \/ Snapshot(c) \/ WriteIntent(c) \/ RefuseNotDurable(c)
              \/ UndoRecord(c) \/ UndoClaim(c) \/ Start(c) \/ Scan(c)
              \/ Redeliver(c) \/ Ack(c)
        PROVE  OneAnswer'
    BY <1>1, <1>3 DEF Arrive, Evictable, RemoveRecords, ForgetEvicted,
       ForgetClaim, AdmitCreated, Insert, Snapshot, WriteIntent, RecordEntry,
       RefuseNotDurable, UndoRecord, RemoveRecords, UndoClaim, ForgetClaim,
       Start, Scan, Redeliver, StartSender, Parked, Ack
  <1>4. ASSUME NEW j \in Calls,
              Decide(j) \/ Settle(j) \/ SnapshotVerdict(j) \/ WriteVerdict(j)
              \/ Send(j)
        PROVE  OneAnswer'
    BY <1>1, <1>4 DEF Decide, Settle, SnapshotVerdict, WriteVerdict,
       RecordEntry, Send, StartSender, MayDeliver
  <1>5. ASSUME NEW t \in Tasks,
              Merge(t) \/ Read(t) \/ SettleReport(t) \/ ForgetEntry(t) \/ Release(t)
        PROVE  OneAnswer'
    BY <1>1, <1>5 DEF Merge, Read, SettleReport, ForgetEntry, ForgetEntryOf,
       Release
  <1>6. ASSUME Crash \/ Serve PROVE OneAnswer'
    BY <1>1, <1>6 DEF Crash, RemoveRecords, Serve
  <1>7. ASSUME NEW c \in Calls,
              AdmitAttached(c) \/ AttachHere(c) \/ AttachElsewhere(c)
              \/ RecordForeign(c) \/ ReReport(c)
        PROVE  OneAnswer'
    BY <1>7, NeverAttached DEF DurableInv
  <1>8. ASSUME NEW t \in Tasks, Post(t) PROVE OneAnswer'
    <2>1. \A m \in told' : m \in told \/ (m[2] = t[2] /\ m[3] = decided[t[2]])
      BY <1>8, PostSays DEF DurableInv, TruthInv
    <2>2. drv[t[2]] = "done" /\ t[2] \in Calls
      BY <1>8 DEF Post, Active, DurableInv, LifeInv, Tasks
    <2>3. \A m \in told : m[2] = t[2] => m[3] = decided[t[2]]
      BY <2>2 DEF AnswerInv
    <2> QED
      BY <2>1, <2>3 DEF OneAnswer
  <1>9. ASSUME Recover PROVE OneAnswer'
    <2>1. PICK j \in recovering, v \in Statuses, heard \in SUBSET Urls, ok \in BOOLEAN :
            RecoversAs(j, v, heard, ok)
      BY <1>9, RecoverSays DEF DurableInv
    <2>2. j \in Calls /\ j \in entries
      BY DEF DurableInv, TypeInv, TypeOK, PassInv
    <2>3. \A m \in told : m[2] = j => m[3] = v
      BY <2>1, <2>2 DEF RecoversAs, AnswerInv, TruthInv, CopyInv
    <2>4. \A m \in told' : m \in told \/ (m[2] = j /\ m[3] = v)
      <3>1. \A m \in heard \X {j} \X {v} : m[2] = j /\ m[3] = v
        OBVIOUS
      <3>2. told' = told \cup (heard \X {j} \X {v})
        BY <2>1 DEF RecoversAs
      <3> QED
        BY <3>1, <3>2
    <2> QED
      BY <2>3, <2>4 DEF OneAnswer
  <1> QED
    BY <1>1, <1>2, <1>3, <1>4, <1>5, <1>6, <1>7, <1>8, <1>9
       DEF Next, Accept, Drive, Report

\* The invariants hold in the first state.
LEMMA AloneInitially == Init => DurableInv /\ PaidInv /\ AnswerInv /\ OneAnswer
  <1> SUFFICES ASSUME Init PROVE DurableInv /\ PaidInv /\ AnswerInv /\ OneAnswer
    OBVIOUS
  <1>1. TypeInv
    BY OutboxAssumption DEF Init, TypeInv, TypeOK, PostInv, ForeignInv, Tasks, PC,
       DriverPC, SenderPC, Verdicts, Statuses, NoVerdict, RecordStates, JobStates
  <1>2. DriverInv
    BY DEF Init, DriverInv, Started, NoVerdict
  <1>3. AloneInv
    BY NoJobAssumption DEF Init, AloneInv
  <1>4. PassInv
    BY DEF Init, PassInv
  <1>5. OwnUrlInv
    BY DEF Init, OwnUrlInv, Here
  <1>6. LifeInv
    BY DEF Init, LifeInv, Active, HasVerdict, Statuses, Tasks
  <1>7. DebtInv
    BY DEF Init, DebtInv, Silent, Early, Unsent, Started, Tasks
  <1>8. PaidInv /\ AnswerInv /\ OneAnswer
    BY DEF Init, PaidInv, AnswerInv, OneAnswer, Active, Here, Tasks
  <1> QED
    BY <1>1, <1>2, <1>3, <1>4, <1>5, <1>6, <1>7, <1>8 DEF DurableInv

\* What the next two theorems rest on, with and without eviction, journal
\* failures and crashes.
LEMMA DurableInvariant == ASSUME OneCallATree PROVE Spec => [](DurableInv /\ PaidInv)
  <1>1. Init => DurableInv /\ PaidInv
    BY AloneInitially
  <1>2. DurableInv /\ PaidInv /\ [Next]_vars => (DurableInv /\ PaidInv)'
    BY TypeStep, PostForeignStep, DriverStep, AloneStep, PassStep, OwnUrlStep,
       LifeStep, DebtStep, PaidStep
       DEF DurableInv, TypeInv
  <1> QED
    BY <1>1, <1>2, PTL DEF Spec

\* accept answers 2xx only over a journal entry with the caller's url, and
\* report, finish and recovery let go of the entry only once Hull has heard: an
\* acknowledged dispatch that no other shares its tree with survives any crash.
THEOREM AcksAreDurable == ASSUME OneCallATree PROVE Spec => []AckIsDurable
  <1>1. DurableInv => AckIsDurable
    <2> SUFFICES ASSUME DurableInv, NEW c \in Calls, pc[c] = "acked"
                 PROVE  \/ Answered(c)
                        \/ target[c] \in entries /\ UrlOf[c] \in entryUrls[target[c]]
      BY DEF AckIsDurable, Acked
    <2>1. target[c] = c
      BY DEF DurableInv, AloneInv
    <2>2. CASE c \in entries
      BY <2>1, <2>2 DEF DurableInv, OwnUrlInv
    <2>3. CASE ~Silent(c)
      <3>1. PICK m \in told : m[2] = c
        BY <2>3 DEF Silent
      <3>2. m = <<UrlOf[c], c, m[3]>> /\ m[3] \in Statuses
        BY <3>1 DEF DurableInv, TypeInv, TypeOK, OwnUrlInv
      <3> QED
        BY <2>1, <3>1, <3>2 DEF Answered
    <2> QED
      BY <2>2, <2>3 DEF DurableInv, DebtInv, Started
  <1> QED
    BY <1>1, DurableInvariant, PTL

\* report forgets the entry of what it delivered, and neither the creator's nor
\* the driver's journal write comes after it: a restart does not answer a paid job.
THEOREM PaidAreForgotten == ASSUME OneCallATree PROVE Spec => []PaidIsForgotten
  <1>1. PaidInv => PaidIsForgotten
    BY DEF PaidInv, PaidIsForgotten, AtRest, Active
  <1> QED
    BY <1>1, DurableInvariant, PTL

\* finish journals its verdict before it sends it, so that what recovery answers
\* after a crash is what senders told Hull before it, or they told it nothing.
THEOREM OneAnswerAJob == ASSUME OneCallATree, ~JournalFails PROVE Spec => []OneAnswer
  <1> DEFINE AInv == DurableInv /\ TruthInv /\ AnswerInv /\ OneAnswer
  <1>1. Init => AInv
    <2>1. Init => CopyInv /\ NoFabricatedVerdict
      BY DEF Init, CopyInv, NoFabricatedVerdict, Tasks
    <2> QED
      BY <2>1, AloneInitially DEF TruthInv, DurableInv
  <1>2. AInv /\ [Next]_vars => AInv'
    BY TypeStep, PostForeignStep, DriverStep, CopyStep, FabricateStep, AloneStep,
       PassStep, OwnUrlStep, LifeStep, DebtStep, AnswerStep, OneAnswerStep
       DEF DurableInv, TypeInv, TruthInv
  <1>3. AInv => OneAnswer
    OBVIOUS
  <1> HIDE DEF AInv
  <1> QED
    BY <1>1, <1>2, <1>3, PTL DEF Spec

-----------------------------------------------------------------------------
\* A service in which all calls on one tree carry one url, while retention takes
\* nothing, the journal takes every write and nothing crashes.

OneUrlATree == \A c, d \in Calls : TreeOf[c] = TreeOf[d] => UrlOf[c] = UrlOf[d]

Undisturbed == ~Evicts /\ ~JournalFails /\ MaxCrashes = 0 /\ OneUrlATree

\* Hull has heard of job j at its creator's url.
Fed(j) == \E v \in Statuses : <<UrlOf[j], j, v>> \in told

Tried == {"reported", "report_failed"}

\* A call that was admitted is about a job on its own tree, whose creator goes
\* on to its driver.
AdmitInv ==
  /\ phase = "serving" /\ recovering = {}
  /\ \A c \in Calls :
       /\ pc[c] \notin {"undo", "unclaim", "refused", "lost"}
       /\ pc[c] = "evicted" => todo[c] = {}
       /\ pc[c] \notin {"idle", "evicted"} =>
            /\ TreeOf[target[c]] = TreeOf[c]
            /\ target[target[c]] = target[c]
            /\ pc[target[c]] \notin {"idle", "evicted"}
       /\ pc[c] \in Started /\ target[c] = c => drv[c] # "none"
  /\ \A t \in Trees, j \in Calls : byKey[t] = j =>
       TreeOf[j] = t /\ target[j] = j /\ pc[j] \notin {"idle", "evicted"}

\* A record carries its creator's url and nothing else, and so does every copy.
SharedUrlInv ==
  /\ \A j \in Calls :
       /\ urls[j] \subseteq {UrlOf[j]}
       /\ claimUrls[j] \subseteq {UrlOf[j]}
       /\ Here(j) => UrlOf[j] \in urls[j]
       /\ HasVerdict(state[j]) => verdict[j] # NoVerdict
  /\ \A t \in Tasks : queue[t] \subseteq {UrlOf[t[2]]}

\* Somebody holds a delivery claim that is taken, and a delivery that has ended
\* left its outcome on the record.
DeliveryInv ==
  /\ \A j \in Calls :
       /\ j \in delivering => \E t \in Tasks : t[2] = j /\ Active(t)
       /\ drv[j] = "done" => state[j] \in Tried \/ j \in delivering
  /\ \A t \in Tasks : at[t] \in {"forget", "release"} => state[t[2]] \in Tried

\* What a sender or a record takes for delivered Hull has heard.
FedInv ==
  /\ \A j \in Calls : state[j] = "reported" => Fed(j)
  /\ \A t \in landed : Fed(t[2])

RestInv == QuietInv /\ AdmitInv /\ SharedUrlInv /\ DeliveryInv /\ FedInv

\* Nothing fails, and every record is its creator's.
LEMMA NothingFails ==
  ASSUME Undisturbed, TypeInv, CallInv, AdmitInv
  PROVE  /\ \A c \in Calls : ~(RefuseNotDurable(c) \/ UndoRecord(c) \/ UndoClaim(c)
                                 \/ RecordForeign(c))
         /\ ~(Crash \/ Recover \/ Serve)
  <1>1. ~Crash
    BY DEF Crash, Undisturbed, TypeInv, TypeOK
  <1>2. ~(Recover \/ Serve)
    BY DEF Recover, Serve, AdmitInv
  <1> QED
    BY <1>1, <1>2 DEF RefuseNotDurable, UndoRecord, UndoClaim, RecordForeign,
       Undisturbed, CallInv, AdmitInv

\* Starting a sender keeps deliveries claimed: the claim it takes is its own.
LEMMA StartsDelivery ==
  ASSUME DeliveryInv, NEW s \in Tasks, NEW j \in Calls, s[2] = j,
         at \in [Tasks -> SenderPC], StartSender(s, j), state' = state,
         \A i \in Calls : drv'[i] = "done" => drv[i] = "done" \/ i = j
  PROVE  DeliveryInv'
  <1>1. at'[s] = "merge" /\ \A t \in Tasks \ {s} : at'[t] = at[t]
    BY DEF StartSender
  <1>2. delivering' = delivering \cup {j}
    BY DEF StartSender
  <1>3. \A i \in Calls : i \in delivering' => \E t \in Tasks : t[2] = i /\ at'[t] # "off"
    <2> SUFFICES ASSUME NEW i \in Calls, i \in delivering'
                 PROVE  \E t \in Tasks : t[2] = i /\ at'[t] # "off"
      OBVIOUS
    <2>1. CASE i = j
      BY <1>1, <2>1
    <2>2. CASE i # j
      <3>1. PICK t \in Tasks : t[2] = i /\ at[t] # "off"
        BY <1>2, <2>2 DEF DeliveryInv, Active
      <3> QED
        BY <1>1, <2>2, <3>1
    <2> QED
      BY <2>1, <2>2
  <1>4. \A i \in Calls : drv'[i] = "done" => state'[i] \in Tried \/ i \in delivering'
    BY <1>2 DEF DeliveryInv
  <1>5. \A t \in Tasks : at'[t] \in {"forget", "release"} => state'[t[2]] \in Tried
    BY <1>1 DEF DeliveryInv
  <1> QED
    BY <1>3, <1>4, <1>5 DEF DeliveryInv, Active, Tried

\* Every step keeps calls on the trees they ask about.
LEMMA AdmitStep == Undisturbed /\ RestInv /\ [Next]_vars => AdmitInv'
  <1> SUFFICES ASSUME Undisturbed, RestInv, [Next]_vars PROVE AdmitInv'
    OBVIOUS
  <1> USE DEF outVars, entryVars, procVars, jobVars, claimVars,
              callVars, drvVars, sndVars
  <1>1. CASE UNCHANGED <<phase, recovering, pc, todo, target, drv, byKey>>
    BY <1>1 DEF RestInv, QuietInv, TypeInv, TypeOK, DriverInv, AdmitInv,
       Started
  <1>2. CASE UNCHANGED vars
    BY <1>1, <1>2 DEF vars
  <1>3. ASSUME NEW t \in Tasks,
              Merge(t) \/ Read(t) \/ Post(t) \/ SettleReport(t) \/ ForgetEntry(t)
              \/ Release(t)
        PROVE  AdmitInv'
    BY <1>1, <1>3 DEF Merge, Read, Post, SettleReport, ForgetEntry,
       ForgetEntryOf, Release
  <1>4. ASSUME Crash \/ Recover \/ Serve PROVE AdmitInv'
    BY <1>4, NothingFails DEF RestInv, QuietInv
  <1>5. ASSUME NEW c \in Calls,
              RefuseNotDurable(c) \/ UndoRecord(c) \/ UndoClaim(c)
              \/ RecordForeign(c)
        PROVE  AdmitInv'
    BY <1>5, NothingFails DEF RestInv, QuietInv
  <1>6. ASSUME NEW c \in Calls, Arrive(c) PROVE AdmitInv'
    BY <1>6 DEF Arrive, Evictable, RemoveRecords, Undisturbed, RestInv,
       QuietInv, TypeInv, TypeOK, DriverInv, AdmitInv, Started
  <1>7. ASSUME NEW c \in Calls, ForgetEvicted(c) PROVE AdmitInv'
    BY <1>7 DEF ForgetEvicted, ForgetClaim, RestInv, QuietInv, TypeInv,
       TypeOK, DriverInv, AdmitInv, Started
  <1>8. ASSUME NEW c \in Calls, AdmitCreated(c) PROVE AdmitInv'
    BY <1>8, OutboxAssumption, NoJobAssumption DEF AdmitCreated, Undisturbed,
       RestInv, QuietInv, TypeInv, TypeOK, DriverInv, AdmitInv, Started
  <1>9. ASSUME NEW c \in Calls, AdmitAttached(c) PROVE AdmitInv'
    <2>1. PICK j \in Calls : j = byKey[TreeOf[c]]
      BY <1>9, OutboxAssumption DEF AdmitAttached, RestInv, QuietInv, TypeInv, TypeOK
    <2>2. TreeOf[j] = TreeOf[c] /\ target[j] = j /\ pc[j] \notin {"idle", "evicted"}
      BY <2>1, OutboxAssumption DEF RestInv, AdmitInv
    <2>3. /\ pc' = [pc EXCEPT ![c] = "attach"] /\ target' = [target EXCEPT ![c] = j]
          /\ pc[c] = "evicted" /\ UNCHANGED <<phase, recovering, todo, drv, byKey>>
      BY <1>9, <2>1 DEF AdmitAttached
    <2> QED
      BY <2>2, <2>3 DEF RestInv, QuietInv, TypeInv, TypeOK, AdmitInv, Started
  <1>10. ASSUME NEW c \in Calls, Insert(c) PROVE AdmitInv'
    BY <1>10 DEF Insert, RestInv, QuietInv, TypeInv, TypeOK, DriverInv,
       AdmitInv, Started
  <1>11. ASSUME NEW c \in Calls, AttachHere(c) PROVE AdmitInv'
    BY <1>11 DEF AttachHere, RestInv, QuietInv, TypeInv, TypeOK, DriverInv,
       AdmitInv, Started
  <1>12. ASSUME NEW c \in Calls, AttachElsewhere(c) PROVE AdmitInv'
    BY <1>12 DEF AttachElsewhere, CallInv, RestInv, QuietInv, TypeInv, TypeOK,
       DriverInv, AdmitInv, Started
  <1>13. ASSUME NEW c \in Calls, Snapshot(c) PROVE AdmitInv'
    BY <1>13 DEF Snapshot, RestInv, QuietInv, TypeInv, TypeOK, DriverInv,
       AdmitInv, Started
  <1>14. ASSUME NEW c \in Calls, WriteIntent(c) PROVE AdmitInv'
    BY <1>14 DEF WriteIntent, RecordEntry, RestInv, QuietInv, TypeInv, TypeOK,
       DriverInv, AdmitInv, Started
  <1>15. ASSUME NEW c \in Calls, Start(c) PROVE AdmitInv'
    BY <1>15 DEF Start, RestInv, QuietInv, TypeInv, TypeOK, DriverInv,
       AdmitInv, Started
  <1>16. ASSUME NEW c \in Calls, ReReport(c) PROVE AdmitInv'
    BY <1>16 DEF ReReport, StartSender, MayDeliver, RecordInv, CallInv,
       RestInv, QuietInv, TypeInv, TypeOK, DriverInv, AdmitInv, Started
  <1>17. ASSUME NEW c \in Calls, Scan(c) PROVE AdmitInv'
    BY <1>17 DEF Scan, RestInv, QuietInv, TypeInv, TypeOK, DriverInv, AdmitInv,
       Started
  <1>18. ASSUME NEW c \in Calls, Redeliver(c) PROVE AdmitInv'
    BY <1>18 DEF Redeliver, StartSender, Parked, RestInv, QuietInv, TypeInv,
       TypeOK, DriverInv, AdmitInv, Started
  <1>19. ASSUME NEW c \in Calls, Ack(c) PROVE AdmitInv'
    BY <1>19 DEF Ack, RestInv, QuietInv, TypeInv, TypeOK, DriverInv, AdmitInv,
       Started
  <1>20. ASSUME NEW j \in Calls, Decide(j) PROVE AdmitInv'
    BY <1>20 DEF Decide, RestInv, QuietInv, TypeInv, TypeOK, DriverInv,
       AdmitInv, Started
  <1>21. ASSUME NEW j \in Calls, Settle(j) PROVE AdmitInv'
    BY <1>21 DEF Settle, RestInv, QuietInv, TypeInv, TypeOK, DriverInv,
       AdmitInv, Started
  <1>22. ASSUME NEW j \in Calls, SnapshotVerdict(j) PROVE AdmitInv'
    BY <1>22 DEF SnapshotVerdict, RestInv, QuietInv, TypeInv, TypeOK,
       DriverInv, AdmitInv, Started
  <1>23. ASSUME NEW j \in Calls, WriteVerdict(j) PROVE AdmitInv'
    BY <1>23 DEF WriteVerdict, RecordEntry, RestInv, QuietInv, TypeInv, TypeOK,
       DriverInv, AdmitInv, Started
  <1>24. ASSUME NEW j \in Calls, Send(j) PROVE AdmitInv'
    BY <1>24 DEF Send, StartSender, MayDeliver, RestInv, QuietInv, TypeInv,
       TypeOK, DriverInv, AdmitInv, Started
  <1> QED
    BY <1>1, <1>2, <1>3, <1>4, <1>5, <1>6, <1>7, <1>8, <1>9, <1>10, <1>11,
       <1>12, <1>13, <1>14, <1>15, <1>16, <1>17, <1>18, <1>19, <1>20, <1>21,
       <1>22, <1>23, <1>24
       DEF Next, Accept, Drive, Report

\* Every step copies a job's one url.
LEMMA SharedUrlStep == Undisturbed /\ RestInv /\ [Next]_vars => SharedUrlInv'
  <1> SUFFICES ASSUME Undisturbed, RestInv, [Next]_vars PROVE SharedUrlInv'
    OBVIOUS
  <1> USE DEF outVars, entryVars, procVars, jobVars, claimVars,
              callVars, drvVars, sndVars
  <1>1. CASE UNCHANGED <<urls, claimUrls, state, verdict, queue>>
    BY <1>1 DEF RestInv, QuietInv, TypeInv, TypeOK, CallInv, AdmitInv,
       SharedUrlInv, Here, HasVerdict
  <1>2. CASE UNCHANGED vars
    BY <1>1, <1>2 DEF vars
  <1>3. ASSUME NEW c \in Calls,
              AttachElsewhere(c) \/ Snapshot(c) \/ WriteIntent(c) \/ Start(c)
              \/ ReReport(c) \/ Scan(c) \/ Redeliver(c) \/ Ack(c)
        PROVE  SharedUrlInv'
    BY <1>1, <1>3 DEF AttachElsewhere, Snapshot, WriteIntent, RecordEntry,
       Start, ReReport, StartSender, MayDeliver, Scan, Redeliver, StartSender,
       Parked, Ack
  <1>4. ASSUME NEW j \in Calls,
              Settle(j) \/ SnapshotVerdict(j) \/ WriteVerdict(j) \/ Send(j)
        PROVE  SharedUrlInv'
    BY <1>1, <1>4 DEF Settle, SnapshotVerdict, WriteVerdict, RecordEntry,
       Send, StartSender, MayDeliver
  <1>5. ASSUME NEW t \in Tasks, ForgetEntry(t)
        PROVE  SharedUrlInv'
    BY <1>1, <1>5 DEF ForgetEntry, ForgetEntryOf
  <1>6. ASSUME Crash \/ Recover \/ Serve PROVE SharedUrlInv'
    BY <1>6, NothingFails DEF RestInv, QuietInv
  <1>7. ASSUME NEW c \in Calls,
              RefuseNotDurable(c) \/ UndoRecord(c) \/ UndoClaim(c)
              \/ RecordForeign(c)
        PROVE  SharedUrlInv'
    BY <1>7, NothingFails DEF RestInv, QuietInv
  <1>8. ASSUME NEW c \in Calls, Arrive(c) PROVE SharedUrlInv'
    BY <1>8 DEF Arrive, Evictable, RemoveRecords, Undisturbed, RestInv,
       QuietInv, TypeInv, TypeOK, CallInv, AdmitInv, SharedUrlInv, Here,
       HasVerdict
  <1>9. ASSUME NEW c \in Calls, ForgetEvicted(c) PROVE SharedUrlInv'
    BY <1>9 DEF ForgetEvicted, ForgetClaim, RestInv, QuietInv, TypeInv,
       TypeOK, CallInv, AdmitInv, SharedUrlInv, Here, HasVerdict
  <1>10. ASSUME NEW c \in Calls, AdmitCreated(c) PROVE SharedUrlInv'
    BY <1>10, OutboxAssumption DEF AdmitCreated, RestInv, QuietInv, TypeInv,
       TypeOK, CallInv, AdmitInv, SharedUrlInv, Here, HasVerdict
  <1>11. ASSUME NEW c \in Calls, AdmitAttached(c) PROVE SharedUrlInv'
    <2>1. PICK j \in Calls : j = byKey[TreeOf[c]]
      BY <1>11, OutboxAssumption DEF AdmitAttached, RestInv, QuietInv, TypeInv, TypeOK
    <2>2. UrlOf[c] = UrlOf[j]
      BY <2>1, OutboxAssumption DEF RestInv, AdmitInv, Undisturbed, OneUrlATree
    <2>3. /\ claimUrls' = [claimUrls EXCEPT ![j] = @ \cup {UrlOf[c]}]
          /\ UNCHANGED <<urls, state, verdict, queue>>
      BY <1>11, <2>1 DEF AdmitAttached
    <2>4. \A i \in Calls : claimUrls'[i] \subseteq claimUrls[i] \cup {UrlOf[i]}
      BY <2>2, <2>3 DEF RestInv, QuietInv, TypeInv, TypeOK
    <2>5. /\ \A i \in Calls : claimUrls'[i] \subseteq {UrlOf[i]}
          /\ UNCHANGED <<urls, state, verdict, queue>>
      BY <2>3, <2>4 DEF RestInv, SharedUrlInv
    <2> QED
      BY <2>5 DEF RestInv, SharedUrlInv, Here
  <1>12. ASSUME NEW c \in Calls, Insert(c) PROVE SharedUrlInv'
    BY <1>12, OutboxAssumption DEF Insert, Statuses, RestInv, QuietInv,
       TypeInv, TypeOK, CallInv, AdmitInv, SharedUrlInv, Here, HasVerdict
  <1>13. ASSUME NEW c \in Calls, AttachHere(c) PROVE SharedUrlInv'
    <2>1. PICK j \in Calls : j = target[c]
      BY DEF RestInv, QuietInv, TypeInv, TypeOK
    <2>2. pc[c] = "attach" /\ TreeOf[j] = TreeOf[c]
      BY <1>13, <2>1 DEF AttachHere, RestInv, AdmitInv
    <2>3. UrlOf[c] = UrlOf[j]
      BY <2>2 DEF Undisturbed, OneUrlATree
    <2>4. /\ urls' = [urls EXCEPT ![j] = @ \cup {UrlOf[c]}]
          /\ UNCHANGED <<claimUrls, state, verdict, queue>>
      BY <1>13, <2>1 DEF AttachHere
    <2>5. \A i \in Calls : urls[i] \subseteq urls'[i] /\ urls'[i] \subseteq urls[i] \cup {UrlOf[i]}
      BY <2>3, <2>4 DEF RestInv, QuietInv, TypeInv, TypeOK
    <2>6. \A i \in Calls : urls'[i] \subseteq {UrlOf[i]} /\ (Here(i) => UrlOf[i] \in urls'[i])
      BY <2>5 DEF RestInv, SharedUrlInv
    <2> QED
      BY <2>4, <2>6 DEF RestInv, SharedUrlInv, Here
  <1>14. ASSUME NEW j \in Calls, Decide(j) PROVE SharedUrlInv'
    BY <1>14, OutboxAssumption DEF Decide, JobTransition, JobEdge, Statuses,
       NoVerdict, RestInv, QuietInv, TypeInv, TypeOK, CallInv, AdmitInv,
       SharedUrlInv, Here, HasVerdict
  <1>15. ASSUME NEW t \in Tasks, Merge(t) PROVE SharedUrlInv'
    BY <1>15 DEF Merge, RestInv, QuietInv, TypeInv, TypeOK, CallInv, AdmitInv,
       SharedUrlInv, Here, HasVerdict
  <1>16. ASSUME NEW t \in Tasks, Read(t) PROVE SharedUrlInv'
    BY <1>16 DEF Read, Tasks, RestInv, QuietInv, TypeInv, TypeOK, CallInv,
       AdmitInv, SharedUrlInv, Here, HasVerdict
  <1>17. ASSUME NEW t \in Tasks, Post(t) PROVE SharedUrlInv'
    BY <1>17 DEF Post, RestInv, QuietInv, TypeInv, TypeOK, CallInv, AdmitInv,
       SharedUrlInv, Here, HasVerdict
  <1>18. ASSUME NEW t \in Tasks, SettleReport(t) PROVE SharedUrlInv'
    BY <1>18 DEF SettleReport, JobTransition, JobEdge, Statuses, Tasks,
       RestInv, QuietInv, TypeInv, TypeOK, CallInv, AdmitInv, SharedUrlInv,
       Here, HasVerdict
  <1>19. ASSUME NEW t \in Tasks, Release(t) PROVE SharedUrlInv'
    BY <1>19 DEF Release, RestInv, QuietInv, TypeInv, TypeOK, CallInv,
       AdmitInv, SharedUrlInv, Here, HasVerdict
  <1> QED
    BY <1>1, <1>2, <1>3, <1>4, <1>5, <1>6, <1>7, <1>8, <1>9, <1>10, <1>11,
       <1>12, <1>13, <1>14, <1>15, <1>16, <1>17, <1>18, <1>19
       DEF Next, Accept, Drive, Report

\* Every step keeps deliveries claimed, and their outcome on the record.
LEMMA DeliveryStep == Undisturbed /\ RestInv /\ [Next]_vars => DeliveryInv'
  <1> SUFFICES ASSUME Undisturbed, RestInv, [Next]_vars PROVE DeliveryInv'
    OBVIOUS
  <1> USE DEF outVars, entryVars, procVars, jobVars, claimVars,
              callVars, drvVars, sndVars
  <1>1. CASE UNCHANGED <<state, delivering, drv, at>>
    BY <1>1 DEF RestInv, DeliveryInv, Active, Tried
  <1>2. CASE UNCHANGED vars
    BY <1>1, <1>2 DEF vars
  <1>3. ASSUME NEW c \in Calls,
              ForgetEvicted(c) \/ AdmitCreated(c) \/ AdmitAttached(c)
              \/ AttachHere(c) \/ AttachElsewhere(c) \/ Snapshot(c)
              \/ WriteIntent(c) \/ Scan(c) \/ Ack(c)
        PROVE  DeliveryInv'
    BY <1>1, <1>3 DEF ForgetEvicted, ForgetClaim, AdmitCreated, AdmitAttached,
       AttachHere, AttachElsewhere, Snapshot, WriteIntent, RecordEntry, Scan,
       Ack
  <1>4. ASSUME Crash \/ Recover \/ Serve PROVE DeliveryInv'
    BY <1>4, NothingFails DEF RestInv, QuietInv
  <1>5. ASSUME NEW c \in Calls,
              RefuseNotDurable(c) \/ UndoRecord(c) \/ UndoClaim(c)
              \/ RecordForeign(c)
        PROVE  DeliveryInv'
    BY <1>5, NothingFails DEF RestInv, QuietInv
  <1>6. ASSUME NEW c \in Calls, Arrive(c) PROVE DeliveryInv'
    BY <1>6 DEF Arrive, Evictable, RemoveRecords, Undisturbed, RestInv,
       QuietInv, TypeInv, TypeOK, CallInv, RecordInv, SenderInv, SharedUrlInv,
       DeliveryInv, Active, Tried, HasVerdict, Statuses, Tasks
  <1>7. ASSUME NEW c \in Calls, Insert(c) PROVE DeliveryInv'
    <2>1. drv[c] = "none" /\ ~HasVerdict(state[c])
      BY <1>7 DEF Insert, RestInv, QuietInv, DriverInv, RecordInv, Started
    <2>2. \A t \in Tasks : Active(t) => t[2] # c
      BY <2>1 DEF RestInv, QuietInv, SenderInv
    <2>3. c \notin delivering
      BY <2>2 DEF RestInv, DeliveryInv
    <2>4. UNCHANGED <<delivering, drv, at>>
      BY <1>7, <2>3 DEF Insert, RestInv, QuietInv, TypeInv, TypeOK
    <2>5. \A i \in Calls \ {c} : state'[i] = state[i]
      BY <1>7 DEF Insert, RestInv, QuietInv, TypeInv, TypeOK
    <2>6. \A i \in Calls : drv[i] = "done" => i # c
      BY <2>1
    <2>7. \A t \in Tasks : t[2] \in Calls
      BY DEF Tasks
    <2> QED
      BY <2>2, <2>4, <2>5, <2>6, <2>7 DEF RestInv, DeliveryInv, Active, Tried
  <1>8. ASSUME NEW c \in Calls, Start(c) PROVE DeliveryInv'
    BY <1>8 DEF Start, RestInv, QuietInv, TypeInv, TypeOK, CallInv, RecordInv,
       SenderInv, SharedUrlInv, DeliveryInv, Active, Tried, HasVerdict,
       Statuses, Tasks
  <1>9. ASSUME NEW c \in Calls, ReReport(c) PROVE DeliveryInv'
    <2>1. UNCHANGED <<state, drv>>
      BY <1>9 DEF ReReport
    <2>2. CASE MayDeliver(target[c])
      <3>1. PICK j \in Calls : j = target[c]
        BY DEF RestInv, QuietInv, TypeInv, TypeOK
      <3>2. PICK s \in Tasks : s = <<c, j>>
        BY DEF Tasks
      <3>3. StartSender(s, j)
        BY <1>9, <2>2, <3>1, <3>2 DEF ReReport
      <3> QED
        BY <2>1, <3>2, <3>3, StartsDelivery DEF RestInv, QuietInv, TypeInv, TypeOK
    <2>3. CASE ~MayDeliver(target[c])
      BY <1>9, <1>1, <2>1, <2>3 DEF ReReport
    <2> QED
      BY <2>2, <2>3
  <1>10. ASSUME NEW c \in Calls, Redeliver(c) PROVE DeliveryInv'
    BY <1>10 DEF Redeliver, StartSender, Parked, RestInv, QuietInv, TypeInv,
       TypeOK, CallInv, RecordInv, SenderInv, SharedUrlInv, DeliveryInv,
       Active, Tried, HasVerdict, Statuses, Tasks
  <1>11. ASSUME NEW j \in Calls, Decide(j) PROVE DeliveryInv'
    BY <1>11 DEF Decide, JobTransition, JobEdge, RestInv, QuietInv, TypeInv,
       TypeOK, CallInv, RecordInv, SenderInv, SharedUrlInv, DeliveryInv,
       Active, Tried, HasVerdict, Statuses, Tasks
  <1>12. ASSUME NEW j \in Calls, Settle(j) PROVE DeliveryInv'
    BY <1>12 DEF Settle, RestInv, QuietInv, TypeInv, TypeOK, CallInv,
       RecordInv, SenderInv, SharedUrlInv, DeliveryInv, Active, Tried,
       HasVerdict, Statuses, Tasks
  <1>13. ASSUME NEW j \in Calls, SnapshotVerdict(j) PROVE DeliveryInv'
    BY <1>13 DEF SnapshotVerdict, RestInv, QuietInv, TypeInv, TypeOK, CallInv,
       RecordInv, SenderInv, SharedUrlInv, DeliveryInv, Active, Tried,
       HasVerdict, Statuses, Tasks
  <1>14. ASSUME NEW j \in Calls, WriteVerdict(j) PROVE DeliveryInv'
    BY <1>14 DEF WriteVerdict, RecordEntry, RestInv, QuietInv, TypeInv, TypeOK,
       CallInv, RecordInv, SenderInv, SharedUrlInv, DeliveryInv, Active,
       Tried, HasVerdict, Statuses, Tasks
  <1>15. ASSUME NEW j \in Calls, Send(j) PROVE DeliveryInv'
    <2>1. state' = state /\ drv' = [drv EXCEPT ![j] = "done"] /\ drv[j] = "send"
      BY <1>15 DEF Send
    <2>2. Here(j)
      BY <2>1 DEF RestInv, QuietInv, RecordInv, HasVerdict, Statuses, Here
    <2>3. CASE MayDeliver(j)
      <3>1. PICK s \in Tasks : s = <<j, j>>
        BY DEF Tasks
      <3>2. StartSender(s, j)
        BY <1>15, <2>3, <3>1 DEF Send
      <3> QED
        BY <2>1, <3>1, <3>2, StartsDelivery DEF RestInv, QuietInv, TypeInv, TypeOK
    <2>4. CASE ~MayDeliver(j)
      <3>1. j \in delivering /\ UNCHANGED <<delivering, at>>
        BY <1>15, <2>2, <2>4 DEF Send, MayDeliver
      <3>2. \A i \in Calls : drv'[i] = "done" => drv[i] = "done" \/ i = j
        BY <2>1 DEF RestInv, QuietInv, TypeInv, TypeOK
      <3> QED
        BY <2>1, <3>1, <3>2 DEF RestInv, DeliveryInv, Active, Tried
    <2> QED
      BY <2>3, <2>4
  <1>16. ASSUME NEW t \in Tasks, Merge(t) PROVE DeliveryInv'
    BY <1>16 DEF Merge, RestInv, QuietInv, TypeInv, TypeOK, CallInv, RecordInv,
       SenderInv, SharedUrlInv, DeliveryInv, Active, Tried, HasVerdict,
       Statuses, Tasks
  <1>17. ASSUME NEW t \in Tasks, Read(t) PROVE DeliveryInv'
    <2>1. PICK j \in Calls : j = t[2]
      BY DEF Tasks
    <2>2. at[t] = "read" /\ UNCHANGED <<state, drv, delivering>>
      BY <1>17 DEF Read
    <2>3. HasVerdict(state[j])
      BY <2>1, <2>2 DEF RestInv, QuietInv, SenderInv, Active
    <2>4. verdict[j] # NoVerdict /\ UrlOf[j] \in urls[j]
      BY <2>3 DEF RestInv, SharedUrlInv, Here, HasVerdict, Statuses
    <2>5. at' \in {[at EXCEPT ![t] = "post"], [at EXCEPT ![t] = "settle"]}
      BY <1>17, <2>1, <2>4 DEF Read
    <2> QED
      BY <2>2, <2>5 DEF RestInv, QuietInv, TypeInv, TypeOK, DeliveryInv, Active
  <1>18. ASSUME NEW t \in Tasks, Post(t) PROVE DeliveryInv'
    BY <1>18 DEF Post, RestInv, QuietInv, TypeInv, TypeOK, CallInv, RecordInv,
       SenderInv, SharedUrlInv, DeliveryInv, Active, Tried, HasVerdict,
       Statuses, Tasks
  <1>19. ASSUME NEW t \in Tasks, SettleReport(t) PROVE DeliveryInv'
    BY <1>19 DEF SettleReport, JobTransition, JobEdge, RestInv, QuietInv,
       TypeInv, TypeOK, CallInv, RecordInv, SenderInv, SharedUrlInv,
       DeliveryInv, Active, Tried, HasVerdict, Statuses, Tasks
  <1>20. ASSUME NEW t \in Tasks, ForgetEntry(t) PROVE DeliveryInv'
    BY <1>20 DEF ForgetEntry, ForgetEntryOf, RestInv, QuietInv, TypeInv,
       TypeOK, CallInv, RecordInv, SenderInv, SharedUrlInv, DeliveryInv,
       Active, Tried, HasVerdict, Statuses, Tasks
  <1>21. ASSUME NEW t \in Tasks, Release(t) PROVE DeliveryInv'
    BY <1>21 DEF Release, RestInv, QuietInv, TypeInv, TypeOK, CallInv,
       RecordInv, SenderInv, SharedUrlInv, DeliveryInv, Active, Tried,
       HasVerdict, Statuses, Tasks
  <1> QED
    BY <1>1, <1>2, <1>3, <1>4, <1>5, <1>6, <1>7, <1>8, <1>9, <1>10, <1>11,
       <1>12, <1>13, <1>14, <1>15, <1>16, <1>17, <1>18, <1>19, <1>20, <1>21
       DEF Next, Accept, Drive, Report

\* Every step keeps what was delivered heard.
LEMMA FedStep == Undisturbed /\ RestInv /\ [Next]_vars => FedInv'
  <1> SUFFICES ASSUME Undisturbed, RestInv, [Next]_vars PROVE FedInv'
    OBVIOUS
  <1> USE DEF outVars, entryVars, procVars, jobVars, claimVars,
              callVars, drvVars, sndVars
  <1>1. CASE UNCHANGED <<state, told, landed>>
    BY <1>1 DEF RestInv, FedInv, Fed
  <1>2. CASE UNCHANGED vars
    BY <1>1, <1>2 DEF vars
  <1>3. ASSUME NEW c \in Calls,
              ForgetEvicted(c) \/ AdmitCreated(c) \/ AdmitAttached(c)
              \/ AttachHere(c) \/ AttachElsewhere(c) \/ Snapshot(c)
              \/ WriteIntent(c) \/ Start(c) \/ ReReport(c) \/ Scan(c)
              \/ Redeliver(c) \/ Ack(c)
        PROVE  FedInv'
    BY <1>1, <1>3 DEF ForgetEvicted, ForgetClaim, AdmitCreated, AdmitAttached,
       AttachHere, AttachElsewhere, Snapshot, WriteIntent, RecordEntry, Start,
       ReReport, StartSender, MayDeliver, Scan, Redeliver, StartSender,
       Parked, Ack
  <1>4. ASSUME NEW j \in Calls,
              Settle(j) \/ SnapshotVerdict(j) \/ WriteVerdict(j) \/ Send(j)
        PROVE  FedInv'
    BY <1>1, <1>4 DEF Settle, SnapshotVerdict, WriteVerdict, RecordEntry,
       Send, StartSender, MayDeliver
  <1>5. ASSUME NEW t \in Tasks, Merge(t) \/ Read(t) \/ ForgetEntry(t)
        PROVE  FedInv'
    BY <1>1, <1>5 DEF Merge, Read, ForgetEntry, ForgetEntryOf
  <1>6. ASSUME Crash \/ Recover \/ Serve PROVE FedInv'
    BY <1>6, NothingFails DEF RestInv, QuietInv
  <1>7. ASSUME NEW c \in Calls,
              RefuseNotDurable(c) \/ UndoRecord(c) \/ UndoClaim(c)
              \/ RecordForeign(c)
        PROVE  FedInv'
    BY <1>7, NothingFails DEF RestInv, QuietInv
  <1>8. ASSUME NEW c \in Calls, Arrive(c) PROVE FedInv'
    <2>1. state' = state
      BY <1>8 DEF Arrive, Evictable, RemoveRecords, Undisturbed, RestInv, QuietInv,
         TypeInv, TypeOK
    <2>2. UNCHANGED <<told, landed>>
      BY <1>8 DEF Arrive
    <2> QED
      BY <1>1, <2>1, <2>2
  <1>9. ASSUME NEW c \in Calls, Insert(c) PROVE FedInv'
    BY <1>9 DEF Insert, CallInv, RestInv, QuietInv, TypeInv, TypeOK, FedInv,
       Fed, Tasks
  <1>10. ASSUME NEW j \in Calls, Decide(j) PROVE FedInv'
    <2>1. \A i \in Calls : state'[i] = "reported" => state[i] = "reported"
      BY <1>10, OutboxAssumption DEF Decide, JobTransition, JobEdge, Statuses, RestInv,
         QuietInv, TypeInv, TypeOK
    <2>2. UNCHANGED <<told, landed>>
      BY <1>10 DEF Decide
    <2> QED
      BY <2>1, <2>2 DEF RestInv, FedInv, Fed
  <1>11. ASSUME NEW t \in Tasks, Post(t) PROVE FedInv'
    <2>1. PICK u \in queue[t] :
            \/ told' = told \cup {<<u, t[2], carried[t]>>} /\ landed' = landed \cup {t}
            \/ told' = told \cup {<<u, t[2], carried[t]>>} /\ landed' = landed
            \/ told' = told /\ landed' = landed
      BY <1>11 DEF Post
    <2>2. u = UrlOf[t[2]] /\ carried[t] \in Statuses
      BY <1>11 DEF Post, RestInv, QuietInv, SharedUrlInv, TypeInv, TypeOK, PostInv, Verdicts
    <2>3. \A j \in Calls : Fed(j) => Fed(j)'
      BY <2>1 DEF Fed
    <2>4. t \in landed' => t \in landed \/ Fed(t[2])'
      BY <2>1, <2>2 DEF Fed
    <2>5. \A s \in Tasks : s[2] \in Calls
      BY DEF Tasks
    <2>6. state' = state /\ landed \subseteq Tasks
      BY <1>11 DEF Post, RestInv, QuietInv, TypeInv, TypeOK
    <2>7. landed' \subseteq landed \cup {t}
      BY <2>1
    <2> HIDE DEF Fed
    <2> QED
      BY <2>3, <2>4, <2>5, <2>6, <2>7 DEF RestInv, FedInv
  <1>12. ASSUME NEW t \in Tasks, SettleReport(t) PROVE FedInv'
    BY <1>12 DEF SettleReport, JobTransition, JobEdge, Statuses, RestInv,
       QuietInv, TypeInv, TypeOK, CallInv, FedInv, Fed, Tasks
  <1>13. ASSUME NEW t \in Tasks, Release(t) PROVE FedInv'
    BY <1>13 DEF Release, RestInv, QuietInv, TypeInv, TypeOK, CallInv, FedInv,
       Fed, Tasks
  <1> QED
    BY <1>1, <1>2, <1>3, <1>4, <1>5, <1>6, <1>7, <1>8, <1>9, <1>10, <1>11,
       <1>12, <1>13
       DEF Next, Accept, Drive, Report

LEMMA RestInvariant == ASSUME Undisturbed PROVE Spec => []RestInv
  <1>1. Init => AdmitInv /\ SharedUrlInv /\ DeliveryInv /\ FedInv
    BY NoJobAssumption DEF Init, AdmitInv, SharedUrlInv, DeliveryInv, FedInv, Started,
       Here, HasVerdict, Statuses
  <1>2. QuietInv /\ AdmitInv /\ SharedUrlInv /\ DeliveryInv /\ FedInv /\ [Next]_vars
          => (AdmitInv /\ SharedUrlInv /\ DeliveryInv /\ FedInv)'
    BY AdmitStep, SharedUrlStep, DeliveryStep, FedStep DEF RestInv
  <1>3. Spec => []QuietInv
    BY QuietInvariant DEF Undisturbed
  <1> QED
    BY <1>1, <1>2, <1>3, PTL DEF Spec, RestInv

\* accept spawns a driver for every job it creates, finish and claim_delivery a
\* sender for every verdict, and report records what came of it: when all of them
\* have ended, Hull has heard of every acknowledged dispatch, or its job is parked
\* where drain_undelivered finds it.
THEOREM NothingIsLost == ASSUME Undisturbed PROVE Spec => []NothingLostAtRest
  <1>1. RestInv => NothingLostAtRest
    <2> SUFFICES ASSUME RestInv, AtRest, NEW c \in Calls, pc[c] = "acked"
                 PROVE  Answered(c) \/ Parked(target[c])
      BY DEF NothingLostAtRest, Acked
    <2>1. PICK j \in Calls : j = target[c]
      BY DEF RestInv, QuietInv, TypeInv, TypeOK
    <2>2. /\ TreeOf[j] = TreeOf[c] /\ target[j] = j /\ pc[j] = "acked"
      BY <2>1 DEF RestInv, AdmitInv, AtRest, Over
    <2>3. UrlOf[j] = UrlOf[c]
      BY <2>2 DEF Undisturbed, OneUrlATree
    <2>4. drv[j] = "done"
      BY <2>2 DEF RestInv, AdmitInv, AtRest, Started
    <2>5. j \notin delivering
      BY DEF RestInv, DeliveryInv, AtRest
    <2>6. state[j] \in Tried
      BY <2>4, <2>5 DEF RestInv, DeliveryInv
    <2>7. CASE state[j] = "reported"
      BY <2>1, <2>3, <2>7 DEF RestInv, FedInv, Fed, Answered
    <2>8. CASE state[j] = "report_failed"
      BY <2>1, <2>5, <2>8 DEF Parked
    <2> QED
      BY <2>6, <2>7, <2>8 DEF Tried
  <1> QED
    BY <1>1, RestInvariant, PTL
=============================================================================
