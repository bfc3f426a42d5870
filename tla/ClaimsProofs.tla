---------------------------- MODULE ClaimsProofs ----------------------------
(***************************************************************************)
(* Proofs about module Claims, for any replicas, dispatches, trees, plans, *)
(* leases, clocks and number of mishaps.                                   *)
(*                                                                         *)
(* Two arguments carry the module.  Fencing: a row, a lease and a step     *)
(* claim all carry the fence the job won, so what holds a row is what won  *)
(* it last (RowInv, LeaseInv, StepRowInv), and a punctual driver renews    *)
(* before its row expires (BeatInv).  Delivery: an acked destination was   *)
(* told, or is with a sender that has still to post, or is on a row that   *)
(* is unsettled or about to be read (CountedInv); so when a row goes, by   *)
(* eviction or by age, nobody on it is owed anything (EndInv, DropInv,     *)
(* TimeInv).                                                               *)
(***************************************************************************)
EXTENDS Claims, TLAPS

Fresh(c) == pc[c] \in {"idle", "evicted"}
Unstarted(c) == pc[c] \in {"idle", "evicted", "won"}

\* A row belongs to a job of its tree, won by the replica that owns the row under
\* the row's fence; a tree without a row has nothing recorded.
RowInv ==
  \A t \in Trees :
    /\ rowJob[t] = NoJob => rowUrls[t] = {} /\ rowVerdict[t] = NoVerdict
    /\ rowJob[t] # NoJob =>
         /\ TreeOf[rowJob[t]] = t /\ ~Fresh(rowJob[t])
         /\ rowOwner[t] = ReplicaOf[rowJob[t]] /\ rowFence[t] = fence[rowJob[t]]

\* A dispatch has a fence once it has won a row.
FenceInv ==
  \A c \in Calls : (Fresh(c) => fence[c] = 0) /\ (pc[c] = "won" => fence[c] # 0)

\* Nothing is known of a job whose driver has not started.
UnstartedInv ==
  \A c \in Calls : Unstarted(c) =>
    drv[c] = "none" /\ \A r \in Replicas : rec[r][c] = "absent" /\ snd[r][c] = "off"

\* A row has no verdict before its driver settles it, and what a dispatch saw on
\* a row was the verdict of a job that had started.
UnsettledInv ==
  \A t \in Trees : rowVerdict[t] # NoVerdict =>
    ~Unstarted(rowJob[t]) /\ drv[rowJob[t]] \notin {"drive", "settle"}
SeenInv ==
  \A c \in Calls : seen[c] # NoVerdict =>
    ~Unstarted(target[c]) /\ drv[target[c]] \notin {"drive", "settle"}

\* A record fits its state, and only a record with a verdict is delivered.
RecInv ==
  \A r \in Replicas, j \in Calls :
    /\ rec[r][j] = "absent" => recUrls[r][j] = {} /\ recVerdict[r][j] = NoVerdict
    /\ rec[r][j] = "running" =>
         recVerdict[r][j] = NoVerdict /\ snd[r][j] = "off" /\ drv[j] = "drive" /\ r = ReplicaOf[j]
    /\ rec[r][j] \in {"decided", "reported"} => recVerdict[r][j] \in Statuses

\* A lease is the driver's own, under the fence it won; so is a step claim.
LeaseInv ==
  \A r \in Replicas : \A l \in leases[r] :
    ReplicaOf[l[1]] = r /\ l[2] = fence[l[1]] /\ ~Unstarted(l[1])
StepRowInv ==
  \A k \in stepRows : k[3] = ReplicaOf[k[1]] /\ k[4] = fence[k[1]] /\ ~Unstarted(k[1])

\* A step on its way to the fleet is under a claim, or was when the claim was lost.
ClaimedInv ==
  \A j \in Calls, s \in Steps :
    step[j][s] = "claimed" => Claimed(j) \/ <<j, s>> \in inFlightWhenLost

\* A driver that has not stalled beats on time, and its row expires no earlier
\* than the lease after its last renewal.
Stalled(j) == missed[j] >= Lease + Skew[ReplicaOf[j]]
Punctual(j) ==
  /\ pc[j] = "won" => rowExpires[TreeOf[j]] >= Clock(ReplicaOf[j]) + Lease
  /\ drv[j] = "drive" /\ Leased(ReplicaOf[j], j) =>
       /\ beat[j] >= now
       /\ rowExpires[TreeOf[j]] + (missed[j] + 1) * Every >= beat[j] + Skew[ReplicaOf[j]] + Lease
BeatInv ==
  \A j \in Calls :
    /\ life[ReplicaOf[j]] = "stalled" => Stalled(j)
    /\ life[ReplicaOf[j]] = "down" => pc[j] # "won" /\ ~Leased(ReplicaOf[j], j)
    /\ Up(ReplicaOf[j]) /\ rowJob[TreeOf[j]] = j /\ ~Stalled(j) => Punctual(j)

-----------------------------------------------------------------------------
\* Deliveries.  A job is excepted, and its tree with it, when something happened to
\* it that the properties make an exception of.
Excepted(j) == j \in excused \cup raced
Excused(t) == \E j \in Calls : Excepted(j) /\ TreeOf[j] = t

\* What a dispatch is bound to.
BoundInv ==
  /\ \A c \in Calls : TreeOf[target[c]] = TreeOf[c]
  /\ \A c \in Calls : \A j \in dropping[c] : ~Unstarted(j)

\* While a job drives its record is running; while it is delivered there is one.
DriveInv == \A j \in Calls : drv[j] = "drive" => rec[ReplicaOf[j]][j] = "running"
Delivering(r, j) == snd[r][j] # "off" \/ (r = ReplicaOf[j] /\ drv[j] \in {"settle", "journal"})
PresentInv ==
  \A r \in Replicas, j \in Calls : Delivering(r, j) /\ ~Excepted(j) => Present(r, j)

\* A replica that stopped delivering is excused.
StoppedInv == \A r \in Replicas : ~Up(r) => Unsent(r) \subseteq excused

\* What was posted is told.
TriedInv == \A r \in Replicas, j \in Calls : \A u \in tried[r][j] : Told(u, TreeOf[j])

\* A driver whose row was not taken has its lease.
LeaseHeldInv ==
  \A j \in Calls : rowJob[TreeOf[j]] = j /\ drv[j] \in {"drive", "settle"} =>
    <<j, fence[j]>> \in leases[ReplicaOf[j]]

\* The row of a job that has been settled somewhere has its verdict.
Settled(t) == rowVerdict[t] # NoVerdict
Deciding(r, j) == r = ReplicaOf[j] /\ drv[j] \in {"drive", "settle"}
SeenSettledInv ==
  \A c \in Calls : seen[c] # NoVerdict /\ rowJob[TreeOf[c]] = target[c] => Settled(TreeOf[c])
SettledInv ==
  \A j \in Calls : rowJob[TreeOf[j]] = j /\ ~Excepted(j) =>
    /\ drv[j] \in {"journal", "done"} => Settled(TreeOf[j])
    /\ \A r \in Replicas : Present(r, j) /\ ~Deciding(r, j) => Settled(TreeOf[j])

\* The verdict of j is on its way to everybody on its row: the driver's sender is to
\* start, or some sender is to read the row.
Pending(j) == drv[j] = "journal" \/ \E r \in Replicas : snd[r][j] = "pass"

\* A settled row has told its destinations, or will; except those that were put on
\* it later by a dispatch not acked (yet).
Late(u, t) ==
  \/ Unacked(u, t)
  \/ \E d \in Calls : /\ TreeOf[d] = t /\ UrlOf[d] = u /\ pc[d] = "attached"
                      /\ target[d] = rowJob[t] /\ seen[d] # NoVerdict
DueInv ==
  \A t \in Trees : Settled(t) /\ ~Excepted(rowJob[t]) =>
    \A u \in rowUrls[t] : Told(u, t) \/ Pending(rowJob[t]) \/ Late(u, t)

\* A dispatch that was acked, or will be without a record of its own.
Counted(c) == pc[c] \in {"won", "acked"} \/ (pc[c] = "attached" /\ seen[c] = NoVerdict)

\* Hull has been told at u, or a sender is about to post there.
Carried(u, t) ==
  \E r \in Replicas, j \in Calls : TreeOf[j] = t /\ u \in recUrls[r][j] /\ snd[r][j] = "pass"
Served(u, t) == Told(u, t) \/ Carried(u, t)
AllServed(t) == \A c \in Calls : Counted(c) /\ TreeOf[c] = t => Served(UrlOf[c], t)

\* Until it is served, it is on a row that is unsettled or pending.
OnRow(u, t) == u \in rowUrls[t] /\ (~Settled(t) \/ Pending(rowJob[t]))
CountedInv ==
  \A c \in Calls : Counted(c) /\ ~Excused(TreeOf[c]) =>
    Served(UrlOf[c], TreeOf[c]) \/ OnRow(UrlOf[c], TreeOf[c])

\* Everybody is served once a sender is through, once the job was evicted, and once
\* time has passed since the row was settled.
Through(r, j) ==
  /\ ~(r = ReplicaOf[j] /\ drv[j] \in {"settle", "journal"})
  /\ snd[r][j] = "end" \/ (rec[r][j] = "reported" /\ snd[r][j] = "off")
Finished(t) == Settled(t) /\ AllServed(t)
EndInv ==
  \A r \in Replicas, j \in Calls :
    rowJob[TreeOf[j]] = j /\ ~Excused(TreeOf[j]) /\ Through(r, j) => Finished(TreeOf[j])
DropInv ==
  \A c \in Calls : \A j \in dropping[c] :
    rowJob[TreeOf[j]] = j /\ ~Excused(TreeOf[j]) => Finished(TreeOf[j])
TimeInv ==
  \A t \in Trees :
    /\ rowJob[t] # NoJob /\ ~Excused(t) /\ Settled(t)
    /\ rowSettled[t] < Clock(ReplicaOf[rowJob[t]])
    => AllServed(t)

-----------------------------------------------------------------------------
\* What the constants and the types give.
LEMMA CallFacts ==
  ASSUME NEW c \in Calls
  PROVE  ReplicaOf[c] \in Replicas /\ TreeOf[c] \in Trees /\ UrlOf[c] \in Urls /\ c # NoJob
BY ClaimsAssumption, ClaimsNames

\* A clock reads a number of ticks.
LEMMA ClockNat ==
  ASSUME TypeOK, NEW r \in Replicas
  PROVE  Clock(r) \in Nat /\ Clock(r) + Lease \in Nat
BY ClaimsAssumption DEF TypeOK, ProcTypes, Clock

\* What the claim store returns are destinations.
LEMMA DestinationTypes ==
  ASSUME TypeOK, NEW j PROVE Destinations(j) \subseteq Urls
BY DEF Destinations, TypeOK, RowTypes

\* The fence of a lease is a number.
LEMMA FenceTypes ==
  ASSUME TypeOK, NEW r \in Replicas, NEW j \in Calls, Leased(r, j)
  PROVE  FenceOf(r, j) \in Nat
PROOF
  <1>1. \A l \in leases[r] : l[1] \in Calls /\ l[2] \in Nat
    BY DEF TypeOK, ProcTypes
  <1> QED
    BY <1>1 DEF FenceOf, Leased

\* One pass of report: X is what the record holds after the read of the claim.
LEMMA PassEffect ==
  ASSUME TypeOK, NEW r \in Replicas, NEW j \in Calls, Pass(r, j)
  PROVE  \E X \in SUBSET Urls :
           /\ recUrls' = [recUrls EXCEPT ![r][j] = X] /\ recUrls[r][j] \subseteq X
           /\ snd' = [snd EXCEPT ![r][j] = IF X \subseteq tried[r][j] THEN "end" ELSE @]
           /\ tried' = [tried EXCEPT ![r][j] = X]
           /\ told' = told \cup {<<u, j, recVerdict[r][j]>> : u \in X \ tried[r][j]}
           /\ Present(r, j) /\ j \notin excused' => Destinations(j) \subseteq X
           /\ ~Present(r, j) => X = recUrls[r][j]
PROOF
  <1> DEFINE D == IF Present(r, j) THEN Destinations(j) ELSE {}
  <1>1. D \subseteq Urls
    BY DestinationTypes
  <1>2. recUrls[r][j] \subseteq Urls /\ recUrls \in [Replicas -> [Calls -> SUBSET Urls]]
    BY DEF TypeOK, RecTypes
  <1>3. CASE recUrls' = [recUrls EXCEPT ![r][j] = @ \cup D]
    <2> HIDE DEF D
    <2>1. recUrls'[r][j] = recUrls[r][j] \cup D
      BY <1>2, <1>3
    <2>2. recUrls' = [recUrls EXCEPT ![r][j] = recUrls[r][j] \cup D]
      BY <1>2, <1>3
    <2> QED
      BY <1>1, <1>2, <2>1, <2>2 DEF Pass, D
  <1>4. CASE recUrls' = recUrls /\ j \in excused'
    <2>1. recUrls' = [recUrls EXCEPT ![r][j] = recUrls[r][j]]
      BY <1>2, <1>4
    <2> QED
      BY <1>2, <1>4, <2>1 DEF Pass
  <1> QED
    BY <1>3, <1>4 DEF Pass

\* The row of j goes, with its step claims.
RowGone(j) ==
  /\ rowJob[TreeOf[j]] = j
  /\ rowJob' = [rowJob EXCEPT ![TreeOf[j]] = NoJob]
  /\ rowOwner' = [rowOwner EXCEPT ![TreeOf[j]] = NoOwner]
  /\ rowFence' = [rowFence EXCEPT ![TreeOf[j]] = 0]
  /\ rowExpires' = [rowExpires EXCEPT ![TreeOf[j]] = 0]
  /\ rowUrls' = [rowUrls EXCEPT ![TreeOf[j]] = {}]
  /\ rowVerdict' = [rowVerdict EXCEPT ![TreeOf[j]] = NoVerdict]
  /\ rowSettled' = [rowSettled EXCEPT ![TreeOf[j]] = 0]
  /\ stepRows' = {k \in stepRows : k[1] # j}
  /\ inFlightWhenLost' = inFlightWhenLost \cup InFlight({j})

\* forget takes the row of j, if its owner asks or it has a verdict, and no other.
LEMMA ForgetEffect ==
  ASSUME TypeOK, RowInv, NEW r \in Replicas, NEW j \in Calls, Forget(r, j)
  PROVE  UNCHANGED <<rowVars, stepRows, inFlightWhenLost>> \/ RowGone(j)
PROOF
  <1> DEFINE gone == {t \in Trees : rowJob[t] = j /\ (rowVerdict[t] # NoVerdict \/ rowOwner[t] = r)}
  <1>1. gone \subseteq {TreeOf[j]}
    BY CallFacts DEF RowInv
  <1>2. CASE gone = {}
    BY <1>2 DEF Forget, rowVars, TypeOK, RowTypes
  <1>3. CASE gone = {TreeOf[j]}
    <2>1. TreeOf[j] \in Trees /\ rowJob[TreeOf[j]] = j
      BY <1>3
    <2> HIDE DEF gone
    <2>2. /\ rowJob' = [t \in Trees |-> IF t \in gone THEN NoJob ELSE rowJob[t]]
          /\ rowOwner' = [t \in Trees |-> IF t \in gone THEN NoOwner ELSE rowOwner[t]]
          /\ rowFence' = [t \in Trees |-> IF t \in gone THEN 0 ELSE rowFence[t]]
          /\ rowExpires' = [t \in Trees |-> IF t \in gone THEN 0 ELSE rowExpires[t]]
          /\ rowUrls' = [t \in Trees |-> IF t \in gone THEN {} ELSE rowUrls[t]]
          /\ rowVerdict' = [t \in Trees |-> IF t \in gone THEN NoVerdict ELSE rowVerdict[t]]
          /\ rowSettled' = [t \in Trees |-> IF t \in gone THEN 0 ELSE rowSettled[t]]
          /\ gone # {} => /\ stepRows' = {k \in stepRows : k[1] # j}
                          /\ inFlightWhenLost' = inFlightWhenLost \cup InFlight({j})
      BY DEF Forget, gone
    <2> QED
      BY <1>3, <2>1, <2>2 DEF TypeOK, RowTypes, RowGone
  <1> QED
    BY <1>1, <1>2, <1>3

\* The same for an evicted job,
LEMMA ForgetEvictedEffect ==
  ASSUME TypeOK, RowInv, NEW c \in Calls, ForgetEvicted(c)
  PROVE  \E j \in Calls :
           /\ j \in dropping[c] /\ dropping' = [dropping EXCEPT ![c] = @ \ {j}]
           /\ UNCHANGED <<rowVars, stepRows, inFlightWhenLost>> \/ RowGone(j)
PROOF
  <1>1. PICK j \in dropping[c] :
          /\ dropping' = [dropping EXCEPT ![c] = @ \ {j}]
          /\ Forget(ReplicaOf[c], j) \/ UNCHANGED <<rowVars, stepRows, inFlightWhenLost>>
    BY DEF ForgetEvicted
  <1>2. j \in Calls /\ ReplicaOf[c] \in Replicas
    BY CallFacts DEF TypeOK, CallTypes
  <1> QED
    BY <1>1, <1>2, ForgetEffect

\* and for a job whose journal entry failed.
LEMMA NotDurableEffect ==
  ASSUME TypeOK, RowInv, NEW c \in Calls, NotDurable(c)
  PROVE  UNCHANGED <<rowVars, stepRows, inFlightWhenLost>> \/ RowGone(c)
BY ForgetEffect, CallFacts DEF NotDurable

-----------------------------------------------------------------------------

\* A claim that is forgotten leaves its row empty.
LEMMA ForgetTypes ==
  ASSUME RowTypes, NEW r \in Replicas, NEW j \in Calls, Forget(r, j)
  PROVE  RowTypes'
PROOF
  <1> DEFINE gone == {t \in Trees : rowJob[t] = j /\ (rowVerdict[t] # NoVerdict \/ rowOwner[t] = r)}
  <1>1. /\ rowJob' = [t \in Trees |-> IF t \in gone THEN NoJob ELSE rowJob[t]]
        /\ rowOwner' = [t \in Trees |-> IF t \in gone THEN NoOwner ELSE rowOwner[t]]
        /\ rowFence' = [t \in Trees |-> IF t \in gone THEN 0 ELSE rowFence[t]]
        /\ rowExpires' = [t \in Trees |-> IF t \in gone THEN 0 ELSE rowExpires[t]]
    BY DEF Forget
  <1>2. /\ rowUrls' = [t \in Trees |-> IF t \in gone THEN {} ELSE rowUrls[t]]
        /\ rowVerdict' = [t \in Trees |-> IF t \in gone THEN NoVerdict ELSE rowVerdict[t]]
        /\ rowSettled' = [t \in Trees |-> IF t \in gone THEN 0 ELSE rowSettled[t]]
        /\ stepRows' \subseteq stepRows
    BY DEF Forget
  <1> HIDE DEF gone
  <1> QED
    BY <1>1, <1>2 DEF RowTypes, Verdicts

\* Types, in groups.
LEMMA RowTypesStep ==
  ASSUME TypeOK, [Next]_vars
  PROVE  RowTypes'
PROOF
  <1>1. ASSUME NEW c \in Calls, Evict(c) PROVE RowTypes'
    BY <1>1 DEF Evict, rowVars, TypeOK, RowTypes
  <1>2. ASSUME NEW c \in Calls, ForgetEvicted(c) PROVE RowTypes'
    <2>1. PICK j \in dropping[c] :
            Forget(ReplicaOf[c], j) \/ UNCHANGED <<rowVars, stepRows>>
      BY <1>2 DEF ForgetEvicted
    <2>2. RowTypes /\ j \in Calls /\ ReplicaOf[c] \in Replicas
      BY CallFacts DEF TypeOK, CallTypes
    <2>3. CASE UNCHANGED <<rowVars, stepRows>>
      BY <2>2, <2>3 DEF rowVars, RowTypes
    <2> QED
      BY <2>1, <2>2, <2>3, ForgetTypes
  <1>3. ASSUME NEW c \in Calls, AdmitWon(c) PROVE RowTypes'
    BY <1>3, CallFacts, ClockNat, ClaimsAssumption DEF AdmitWon, RowWon, rowVars, TypeOK,
       RowTypes, Verdicts
  <1>4. ASSUME NEW c \in Calls, AdmitAttached(c) PROVE RowTypes'
    BY <1>4, CallFacts DEF AdmitAttached, rowVars, TypeOK, RowTypes
  <1>5. ASSUME NEW c \in Calls, AdmitFails(c) PROVE RowTypes'
    BY <1>5 DEF AdmitFails, rowVars, TypeOK, RowTypes
  <1>6. ASSUME NEW c \in Calls, Start(c) PROVE RowTypes'
    BY <1>6 DEF Start, rowVars, TypeOK, RowTypes
  <1>7. ASSUME NEW c \in Calls, NotDurable(c) PROVE RowTypes'
    BY <1>7, CallFacts, ForgetTypes DEF NotDurable, rowVars, TypeOK, RowTypes
  <1>8. ASSUME NEW c \in Calls, Attach(c) PROVE RowTypes'
    BY <1>8 DEF Attach, rowVars, TypeOK, RowTypes
  <1>9. ASSUME NEW r \in Replicas, NEW j \in Calls, NEW s \in Steps, ClaimStep(r, j, s)
        PROVE  RowTypes'
    BY <1>9 DEF ClaimStep, rowVars, TypeOK, RowTypes
  <1>10. ASSUME NEW r \in Replicas, NEW j \in Calls, NEW s \in Steps, Assign(r, j, s)
         PROVE  RowTypes'
    BY <1>10 DEF Assign, rowVars, TypeOK, RowTypes
  <1>11. ASSUME NEW r \in Replicas, NEW j \in Calls, NEW s \in Steps, NoCapacity(r, j, s)
         PROVE  RowTypes'
    BY <1>11 DEF NoCapacity, rowVars, TypeOK, RowTypes
  <1>12. ASSUME NEW r \in Replicas, NEW j \in Calls, Renew(r, j) PROVE RowTypes'
    BY <1>12, CallFacts, ClockNat DEF Renew, rowVars, TypeOK, RowTypes
  <1>13. ASSUME NEW r \in Replicas, NEW j \in Calls, Decide(r, j) PROVE RowTypes'
    BY <1>13 DEF Decide, rowVars, TypeOK, RowTypes
  <1>14. ASSUME NEW r \in Replicas, NEW j \in Calls, Settle(r, j) PROVE RowTypes'
    <2>1. recVerdict[r][j] \in Verdicts /\ Clock(r) \in Nat
      BY ClockNat DEF TypeOK, RecTypes
    <2>2. rowVerdict' \in [Trees -> Verdicts]
      BY <1>14, <2>1 DEF Settle, TypeOK, RowTypes
    <2>3. rowSettled' \in [Trees -> Nat]
      BY <1>14, <2>1 DEF Settle, TypeOK, RowTypes
    <2> QED
      BY <1>14, <2>2, <2>3 DEF Settle, TypeOK, RowTypes
  <1>15. ASSUME NEW r \in Replicas, NEW j \in Calls, Retire(r, j) PROVE RowTypes'
    BY <1>15 DEF Retire, rowVars, TypeOK, RowTypes
  <1>16. ASSUME NEW r \in Replicas, NEW j \in Calls, Pass(r, j) PROVE RowTypes'
    BY <1>16 DEF Pass, rowVars, TypeOK, RowTypes
  <1>17. ASSUME NEW r \in Replicas, NEW j \in Calls, Reported(r, j) PROVE RowTypes'
    BY <1>17 DEF Reported, rowVars, TypeOK, RowTypes
  <1>18. ASSUME NEW r \in Replicas, Stall(r) PROVE RowTypes'
    BY <1>18 DEF Stall, rowVars, TypeOK, RowTypes
  <1>19. ASSUME NEW r \in Replicas, Wake(r) PROVE RowTypes'
    BY <1>19 DEF Wake, rowVars, TypeOK, RowTypes
  <1>20. ASSUME NEW r \in Replicas, Crash(r) PROVE RowTypes'
    BY <1>20 DEF Crash, rowVars, TypeOK, RowTypes
  <1>21. ASSUME NEW r \in Replicas, Restart(r) PROVE RowTypes'
    BY <1>21 DEF Restart, rowVars, TypeOK, RowTypes
  <1>22. CASE Tick
    BY <1>22 DEF Tick, rowVars, TypeOK, RowTypes
  <1>23. CASE UNCHANGED vars
    BY <1>23 DEF vars, rowVars, TypeOK, RowTypes
  <1> QED
    BY <1>1, <1>2, <1>3, <1>4, <1>5, <1>6, <1>7, <1>8, <1>9, <1>10, <1>11, <1>12, <1>13, <1>14,
       <1>15, <1>16, <1>17, <1>18, <1>19, <1>20, <1>21, <1>22, <1>23 DEF Next

\* Every step keeps RecTypes.
LEMMA RecTypesStep ==
  ASSUME TypeOK, [Next]_vars
  PROVE  RecTypes'
PROOF
  <1>1. ASSUME NEW c \in Calls, Evict(c) PROVE RecTypes'
    BY <1>1, CallFacts DEF Evict, recVars, jnlVars, TypeOK, RecTypes, Verdicts
  <1>2. ASSUME NEW c \in Calls, ForgetEvicted(c) PROVE RecTypes'
    BY <1>2 DEF ForgetEvicted, recVars, jnlVars, TypeOK, RecTypes
  <1>3. ASSUME NEW c \in Calls, AdmitWon(c) PROVE RecTypes'
    BY <1>3 DEF AdmitWon, recVars, jnlVars, TypeOK, RecTypes
  <1>4. ASSUME NEW c \in Calls, AdmitAttached(c) PROVE RecTypes'
    BY <1>4 DEF AdmitAttached, recVars, jnlVars, TypeOK, RecTypes
  <1>5. ASSUME NEW c \in Calls, AdmitFails(c) PROVE RecTypes'
    BY <1>5 DEF AdmitFails, recVars, jnlVars, TypeOK, RecTypes
  <1>6. ASSUME NEW c \in Calls, Start(c) PROVE RecTypes'
    BY <1>6, CallFacts DEF Start, recVars, jnlVars, TypeOK, RecTypes
  <1>7. ASSUME NEW c \in Calls, NotDurable(c) PROVE RecTypes'
    BY <1>7 DEF NotDurable, recVars, jnlVars, TypeOK, RecTypes
  <1>8. ASSUME NEW c \in Calls, Attach(c) PROVE RecTypes'
    BY <1>8, CallFacts DEF Attach, recVars, jnlVars, TypeOK, RecTypes, CallTypes, Verdicts
  <1>9. ASSUME NEW r \in Replicas, NEW j \in Calls, NEW s \in Steps, ClaimStep(r, j, s)
        PROVE  RecTypes'
    BY <1>9 DEF ClaimStep, recVars, jnlVars, TypeOK, RecTypes
  <1>10. ASSUME NEW r \in Replicas, NEW j \in Calls, NEW s \in Steps, Assign(r, j, s)
         PROVE  RecTypes'
    BY <1>10 DEF Assign, recVars, jnlVars, TypeOK, RecTypes
  <1>11. ASSUME NEW r \in Replicas, NEW j \in Calls, NEW s \in Steps, NoCapacity(r, j, s)
         PROVE  RecTypes'
    BY <1>11 DEF NoCapacity, recVars, jnlVars, TypeOK, RecTypes
  <1>12. ASSUME NEW r \in Replicas, NEW j \in Calls, Renew(r, j) PROVE RecTypes'
    BY <1>12 DEF Renew, recVars, jnlVars, TypeOK, RecTypes
  <1>13. ASSUME NEW r \in Replicas, NEW j \in Calls, Decide(r, j) PROVE RecTypes'
    BY <1>13, CallFacts, ClaimsAssumption DEF Decide, recVars, jnlVars, TypeOK, RecTypes, Verdicts
  <1>14. ASSUME NEW r \in Replicas, NEW j \in Calls, Settle(r, j) PROVE RecTypes'
    BY <1>14 DEF Settle, recVars, jnlVars, TypeOK, RecTypes
  <1>15. ASSUME NEW r \in Replicas, NEW j \in Calls, Retire(r, j) PROVE RecTypes'
    BY <1>15, CallFacts DEF Retire, recVars, jnlVars, TypeOK, RecTypes
  <1>16. ASSUME NEW r \in Replicas, NEW j \in Calls, Pass(r, j) PROVE RecTypes'
    <2> PICK X \in SUBSET Urls :
          /\ recUrls' = [recUrls EXCEPT ![r][j] = X] /\ recUrls[r][j] \subseteq X
          /\ snd' = [snd EXCEPT ![r][j] = IF X \subseteq tried[r][j] THEN "end" ELSE @]
          /\ tried' = [tried EXCEPT ![r][j] = X]
          /\ told' = told \cup {<<u, j, recVerdict[r][j]>> : u \in X \ tried[r][j]}
          /\ Present(r, j) /\ j \notin excused' => Destinations(j) \subseteq X
          /\ ~Present(r, j) => X = recUrls[r][j]
      BY PassEffect, <1>16
    <2> QED
      BY <1>16 DEF Pass, jnlVars, TypeOK, RecTypes
  <1>17. ASSUME NEW r \in Replicas, NEW j \in Calls, Reported(r, j) PROVE RecTypes'
    BY <1>17, CallFacts DEF Reported, recVars, jnlVars, TypeOK, RecTypes
  <1>18. ASSUME NEW r \in Replicas, Stall(r) PROVE RecTypes'
    BY <1>18 DEF Stall, recVars, jnlVars, TypeOK, RecTypes
  <1>19. ASSUME NEW r \in Replicas, Wake(r) PROVE RecTypes'
    BY <1>19 DEF Wake, recVars, jnlVars, TypeOK, RecTypes
  <1>20. ASSUME NEW r \in Replicas, Crash(r) PROVE RecTypes'
    BY <1>20, CallFacts DEF Crash, recVars, jnlVars, TypeOK, RecTypes, Verdicts
  <1>21. ASSUME NEW r \in Replicas, Restart(r) PROVE RecTypes'
    BY <1>21, CallFacts DEF Restart, recVars, jnlVars, TypeOK, RecTypes
  <1>22. CASE Tick
    BY <1>22 DEF Tick, recVars, jnlVars, TypeOK, RecTypes
  <1>23. CASE UNCHANGED vars
    BY <1>23 DEF vars, recVars, jnlVars, TypeOK, RecTypes
  <1> QED
    BY <1>1, <1>2, <1>3, <1>4, <1>5, <1>6, <1>7, <1>8, <1>9, <1>10, <1>11, <1>12, <1>13, <1>14,
       <1>15, <1>16, <1>17, <1>18, <1>19, <1>20, <1>21, <1>22, <1>23 DEF Next

\* Every step keeps CallTypes.
LEMMA CallTypesStep ==
  ASSUME TypeOK, [Next]_vars
  PROVE  CallTypes'
PROOF
  <1>1. ASSUME NEW c \in Calls, Evict(c) PROVE CallTypes'
    BY <1>1, CallFacts DEF Evict, callVars, TypeOK, CallTypes
  <1>2. ASSUME NEW c \in Calls, ForgetEvicted(c) PROVE CallTypes'
    BY <1>2, CallFacts DEF ForgetEvicted, callVars, TypeOK, CallTypes
  <1>3. ASSUME NEW c \in Calls, AdmitWon(c) PROVE CallTypes'
    BY <1>3, CallFacts DEF AdmitWon, callVars, TypeOK, CallTypes, RowTypes, RowWon
  <1>4. ASSUME NEW c \in Calls, AdmitAttached(c) PROVE CallTypes'
    BY <1>4, CallFacts DEF AdmitAttached, callVars, TypeOK, CallTypes, RowTypes
  <1>5. ASSUME NEW c \in Calls, AdmitFails(c) PROVE CallTypes'
    BY <1>5, CallFacts DEF AdmitFails, callVars, TypeOK, CallTypes
  <1>6. ASSUME NEW c \in Calls, Start(c) PROVE CallTypes'
    BY <1>6, CallFacts DEF Start, callVars, TypeOK, CallTypes
  <1>7. ASSUME NEW c \in Calls, NotDurable(c) PROVE CallTypes'
    BY <1>7, CallFacts DEF NotDurable, callVars, TypeOK, CallTypes
  <1>8. ASSUME NEW c \in Calls, Attach(c) PROVE CallTypes'
    BY <1>8, CallFacts DEF Attach, callVars, TypeOK, CallTypes, Verdicts
  <1>9. ASSUME NEW r \in Replicas, NEW j \in Calls, NEW s \in Steps, ClaimStep(r, j, s)
        PROVE  CallTypes'
    BY <1>9 DEF ClaimStep, callVars, TypeOK, CallTypes
  <1>10. ASSUME NEW r \in Replicas, NEW j \in Calls, NEW s \in Steps, Assign(r, j, s)
         PROVE  CallTypes'
    BY <1>10 DEF Assign, callVars, TypeOK, CallTypes
  <1>11. ASSUME NEW r \in Replicas, NEW j \in Calls, NEW s \in Steps, NoCapacity(r, j, s)
         PROVE  CallTypes'
    BY <1>11 DEF NoCapacity, callVars, TypeOK, CallTypes
  <1>12. ASSUME NEW r \in Replicas, NEW j \in Calls, Renew(r, j) PROVE CallTypes'
    BY <1>12 DEF Renew, callVars, TypeOK, CallTypes
  <1>13. ASSUME NEW r \in Replicas, NEW j \in Calls, Decide(r, j) PROVE CallTypes'
    BY <1>13 DEF Decide, callVars, TypeOK, CallTypes
  <1>14. ASSUME NEW r \in Replicas, NEW j \in Calls, Settle(r, j) PROVE CallTypes'
    BY <1>14 DEF Settle, callVars, TypeOK, CallTypes
  <1>15. ASSUME NEW r \in Replicas, NEW j \in Calls, Retire(r, j) PROVE CallTypes'
    BY <1>15 DEF Retire, callVars, TypeOK, CallTypes
  <1>16. ASSUME NEW r \in Replicas, NEW j \in Calls, Pass(r, j) PROVE CallTypes'
    BY <1>16 DEF Pass, callVars, TypeOK, CallTypes
  <1>17. ASSUME NEW r \in Replicas, NEW j \in Calls, Reported(r, j) PROVE CallTypes'
    BY <1>17 DEF Reported, callVars, TypeOK, CallTypes
  <1>18. ASSUME NEW r \in Replicas, Stall(r) PROVE CallTypes'
    BY <1>18 DEF Stall, callVars, TypeOK, CallTypes
  <1>19. ASSUME NEW r \in Replicas, Wake(r) PROVE CallTypes'
    BY <1>19 DEF Wake, callVars, TypeOK, CallTypes
  <1>20. ASSUME NEW r \in Replicas, Crash(r) PROVE CallTypes'
    BY <1>20, CallFacts DEF Crash, callVars, TypeOK, CallTypes
  <1>21. ASSUME NEW r \in Replicas, Restart(r) PROVE CallTypes'
    BY <1>21 DEF Restart, callVars, TypeOK, CallTypes
  <1>22. CASE Tick
    BY <1>22 DEF Tick, callVars, TypeOK, CallTypes
  <1>23. CASE UNCHANGED vars
    BY <1>23 DEF vars, callVars, TypeOK, CallTypes
  <1> QED
    BY <1>1, <1>2, <1>3, <1>4, <1>5, <1>6, <1>7, <1>8, <1>9, <1>10, <1>11, <1>12, <1>13, <1>14,
       <1>15, <1>16, <1>17, <1>18, <1>19, <1>20, <1>21, <1>22, <1>23 DEF Next

\* Every step keeps DrvTypes.
LEMMA DrvTypesStep ==
  ASSUME TypeOK, [Next]_vars
  PROVE  DrvTypes'
PROOF
  <1>1. ASSUME NEW c \in Calls, Evict(c) PROVE DrvTypes'
    BY <1>1 DEF Evict, drvVars, TypeOK, DrvTypes
  <1>2. ASSUME NEW c \in Calls, ForgetEvicted(c) PROVE DrvTypes'
    BY <1>2 DEF ForgetEvicted, drvVars, TypeOK, DrvTypes
  <1>3. ASSUME NEW c \in Calls, AdmitWon(c) PROVE DrvTypes'
    BY <1>3 DEF AdmitWon, drvVars, TypeOK, DrvTypes
  <1>4. ASSUME NEW c \in Calls, AdmitAttached(c) PROVE DrvTypes'
    BY <1>4 DEF AdmitAttached, drvVars, TypeOK, DrvTypes
  <1>5. ASSUME NEW c \in Calls, AdmitFails(c) PROVE DrvTypes'
    BY <1>5 DEF AdmitFails, drvVars, TypeOK, DrvTypes
  <1>6. ASSUME NEW c \in Calls, Start(c) PROVE DrvTypes'
    BY <1>6, ClaimsAssumption DEF Start, drvVars, TypeOK, DrvTypes, ProcTypes
  <1>7. ASSUME NEW c \in Calls, NotDurable(c) PROVE DrvTypes'
    BY <1>7 DEF NotDurable, drvVars, TypeOK, DrvTypes
  <1>8. ASSUME NEW c \in Calls, Attach(c) PROVE DrvTypes'
    BY <1>8 DEF Attach, drvVars, TypeOK, DrvTypes
  <1>9. ASSUME NEW r \in Replicas, NEW j \in Calls, NEW s \in Steps, ClaimStep(r, j, s)
        PROVE  DrvTypes'
    <2>1. \/ step' = [step EXCEPT ![j][s] = "claimed"]
          \/ UNCHANGED step
      BY <1>9 DEF ClaimStep
    <2>2. UNCHANGED <<drv, beat, missed>>
      BY <1>9 DEF ClaimStep
    <2> QED
      BY <2>1, <2>2 DEF TypeOK, DrvTypes
  <1>10. ASSUME NEW r \in Replicas, NEW j \in Calls, NEW s \in Steps, Assign(r, j, s)
         PROVE  DrvTypes'
    BY <1>10, ClaimsAssumption DEF Assign, drvVars, TypeOK, DrvTypes
  <1>11. ASSUME NEW r \in Replicas, NEW j \in Calls, NEW s \in Steps, NoCapacity(r, j, s)
         PROVE  DrvTypes'
    BY <1>11, ClaimsAssumption DEF NoCapacity, drvVars, TypeOK, DrvTypes
  <1>12. ASSUME NEW r \in Replicas, NEW j \in Calls, Renew(r, j) PROVE DrvTypes'
    <2>1. now + Every \in Nat /\ missed[j] + 1 \in Nat
      BY ClaimsAssumption DEF TypeOK, ProcTypes, DrvTypes
    <2>2. missed' \in [Calls -> Nat]
      BY <1>12, <2>1 DEF Renew, TypeOK, DrvTypes
    <2> QED
      BY <1>12, <2>1, <2>2 DEF Renew, TypeOK, DrvTypes
  <1>13. ASSUME NEW r \in Replicas, NEW j \in Calls, Decide(r, j) PROVE DrvTypes'
    BY <1>13, ClaimsAssumption DEF Decide, drvVars, TypeOK, DrvTypes
  <1>14. ASSUME NEW r \in Replicas, NEW j \in Calls, Settle(r, j) PROVE DrvTypes'
    BY <1>14, ClaimsAssumption DEF Settle, drvVars, TypeOK, DrvTypes
  <1>15. ASSUME NEW r \in Replicas, NEW j \in Calls, Retire(r, j) PROVE DrvTypes'
    BY <1>15, ClaimsAssumption DEF Retire, drvVars, TypeOK, DrvTypes
  <1>16. ASSUME NEW r \in Replicas, NEW j \in Calls, Pass(r, j) PROVE DrvTypes'
    BY <1>16 DEF Pass, drvVars, TypeOK, DrvTypes
  <1>17. ASSUME NEW r \in Replicas, NEW j \in Calls, Reported(r, j) PROVE DrvTypes'
    BY <1>17 DEF Reported, drvVars, TypeOK, DrvTypes
  <1>18. ASSUME NEW r \in Replicas, Stall(r) PROVE DrvTypes'
    BY <1>18, ClaimsAssumption DEF Stall, drvVars, TypeOK, DrvTypes
  <1>19. ASSUME NEW r \in Replicas, Wake(r) PROVE DrvTypes'
    BY <1>19 DEF Wake, drvVars, TypeOK, DrvTypes
  <1>20. ASSUME NEW r \in Replicas, Crash(r) PROVE DrvTypes'
    BY <1>20, ClaimsAssumption DEF Crash, drvVars, TypeOK, DrvTypes
  <1>21. ASSUME NEW r \in Replicas, Restart(r) PROVE DrvTypes'
    BY <1>21 DEF Restart, drvVars, TypeOK, DrvTypes
  <1>22. CASE Tick
    BY <1>22 DEF Tick, drvVars, TypeOK, DrvTypes
  <1>23. CASE UNCHANGED vars
    BY <1>23 DEF vars, drvVars, TypeOK, DrvTypes
  <1> QED
    BY <1>1, <1>2, <1>3, <1>4, <1>5, <1>6, <1>7, <1>8, <1>9, <1>10, <1>11, <1>12, <1>13, <1>14,
       <1>15, <1>16, <1>17, <1>18, <1>19, <1>20, <1>21, <1>22, <1>23 DEF Next

\* Every step keeps SndTypes.
LEMMA SndTypesStep ==
  ASSUME TypeOK, RecInv, [Next]_vars
  PROVE  SndTypes'
PROOF
  <1>1. ASSUME NEW c \in Calls, Evict(c) PROVE SndTypes'
    BY <1>1 DEF Evict, sndVars, histVars, TypeOK, SndTypes
  <1>2. ASSUME NEW c \in Calls, ForgetEvicted(c) PROVE SndTypes'
    BY <1>2 DEF ForgetEvicted, sndVars, histVars, TypeOK, SndTypes
  <1>3. ASSUME NEW c \in Calls, AdmitWon(c) PROVE SndTypes'
    BY <1>3 DEF AdmitWon, sndVars, histVars, TypeOK, SndTypes
  <1>4. ASSUME NEW c \in Calls, AdmitAttached(c) PROVE SndTypes'
    BY <1>4 DEF AdmitAttached, sndVars, histVars, TypeOK, SndTypes
  <1>5. ASSUME NEW c \in Calls, AdmitFails(c) PROVE SndTypes'
    BY <1>5 DEF AdmitFails, sndVars, histVars, TypeOK, SndTypes
  <1>6. ASSUME NEW c \in Calls, Start(c) PROVE SndTypes'
    BY <1>6 DEF Start, sndVars, histVars, TypeOK, SndTypes
  <1>7. ASSUME NEW c \in Calls, NotDurable(c) PROVE SndTypes'
    BY <1>7 DEF NotDurable, sndVars, histVars, TypeOK, SndTypes
  <1>8. ASSUME NEW c \in Calls, Attach(c) PROVE SndTypes'
    BY <1>8, CallFacts DEF Attach, sndVars, histVars, TypeOK, SndTypes, CallTypes
  <1>9. ASSUME NEW r \in Replicas, NEW j \in Calls, NEW s \in Steps, ClaimStep(r, j, s)
        PROVE  SndTypes'
    BY <1>9 DEF ClaimStep, sndVars, histVars, TypeOK, SndTypes
  <1>10. ASSUME NEW r \in Replicas, NEW j \in Calls, NEW s \in Steps, Assign(r, j, s)
         PROVE  SndTypes'
    BY <1>10 DEF Assign, sndVars, histVars, TypeOK, SndTypes
  <1>11. ASSUME NEW r \in Replicas, NEW j \in Calls, NEW s \in Steps, NoCapacity(r, j, s)
         PROVE  SndTypes'
    BY <1>11 DEF NoCapacity, sndVars, histVars, TypeOK, SndTypes
  <1>12. ASSUME NEW r \in Replicas, NEW j \in Calls, Renew(r, j) PROVE SndTypes'
    BY <1>12 DEF Renew, sndVars, histVars, TypeOK, SndTypes
  <1>13. ASSUME NEW r \in Replicas, NEW j \in Calls, Decide(r, j) PROVE SndTypes'
    BY <1>13 DEF Decide, sndVars, histVars, TypeOK, SndTypes
  <1>14. ASSUME NEW r \in Replicas, NEW j \in Calls, Settle(r, j) PROVE SndTypes'
    BY <1>14 DEF Settle, sndVars, histVars, TypeOK, SndTypes
  <1>15. ASSUME NEW r \in Replicas, NEW j \in Calls, Retire(r, j) PROVE SndTypes'
    BY <1>15, CallFacts DEF Retire, sndVars, histVars, TypeOK, SndTypes
  <1>16. ASSUME NEW r \in Replicas, NEW j \in Calls, Pass(r, j) PROVE SndTypes'
    <2> PICK X \in SUBSET Urls :
          /\ recUrls' = [recUrls EXCEPT ![r][j] = X] /\ recUrls[r][j] \subseteq X
          /\ snd' = [snd EXCEPT ![r][j] = IF X \subseteq tried[r][j] THEN "end" ELSE @]
          /\ tried' = [tried EXCEPT ![r][j] = X]
          /\ told' = told \cup {<<u, j, recVerdict[r][j]>> : u \in X \ tried[r][j]}
          /\ Present(r, j) /\ j \notin excused' => Destinations(j) \subseteq X
          /\ ~Present(r, j) => X = recUrls[r][j]
      BY PassEffect, <1>16
    <2>1. rec[r][j] \in {"absent", "running", "decided", "reported"}
      BY DEF TypeOK, RecTypes
    <2>2. X \ tried[r][j] # {} => recVerdict[r][j] \in Statuses
      BY <1>16, <2>1 DEF Pass, RecInv, Present
    <2> QED
      BY <2>2 DEF TypeOK, SndTypes
  <1>17. ASSUME NEW r \in Replicas, NEW j \in Calls, Reported(r, j) PROVE SndTypes'
    BY <1>17, CallFacts DEF Reported, sndVars, histVars, TypeOK, SndTypes
  <1>18. ASSUME NEW r \in Replicas, Stall(r) PROVE SndTypes'
    BY <1>18 DEF Stall, sndVars, histVars, TypeOK, SndTypes
  <1>19. ASSUME NEW r \in Replicas, Wake(r) PROVE SndTypes'
    BY <1>19 DEF Wake, sndVars, histVars, TypeOK, SndTypes
  <1>20. ASSUME NEW r \in Replicas, Crash(r) PROVE SndTypes'
    BY <1>20, CallFacts DEF Crash, sndVars, histVars, TypeOK, SndTypes
  <1>21. ASSUME NEW r \in Replicas, Restart(r) PROVE SndTypes'
    <2>1. \A i \in Calls : jnlUrls[i] \subseteq Urls /\ jnlVerdict[i] \in Verdicts
      BY DEF TypeOK, RecTypes
    <2> QED
      BY <1>21, <2>1 DEF Restart, sndVars, TypeOK, SndTypes, Verdicts, Statuses
  <1>22. CASE Tick
    BY <1>22 DEF Tick, sndVars, histVars, TypeOK, SndTypes
  <1>23. CASE UNCHANGED vars
    BY <1>23 DEF vars, sndVars, histVars, TypeOK, SndTypes
  <1> QED
    BY <1>1, <1>2, <1>3, <1>4, <1>5, <1>6, <1>7, <1>8, <1>9, <1>10, <1>11, <1>12, <1>13, <1>14,
       <1>15, <1>16, <1>17, <1>18, <1>19, <1>20, <1>21, <1>22, <1>23 DEF Next

\* Every step keeps ProcTypes.
LEMMA ProcTypesStep ==
  ASSUME TypeOK, [Next]_vars
  PROVE  ProcTypes'
PROOF
  <1>1. ASSUME NEW c \in Calls, Evict(c) PROVE ProcTypes'
    BY <1>1 DEF Evict, TypeOK, ProcTypes
  <1>2. ASSUME NEW c \in Calls, ForgetEvicted(c) PROVE ProcTypes'
    BY <1>2, CallFacts DEF ForgetEvicted, Forget, Mishap, TypeOK, ProcTypes
  <1>3. ASSUME NEW c \in Calls, AdmitWon(c) PROVE ProcTypes'
    BY <1>3, CallFacts DEF AdmitWon, Mishap, TypeOK, ProcTypes, Swept
  <1>4. ASSUME NEW c \in Calls, AdmitAttached(c) PROVE ProcTypes'
    BY <1>4, CallFacts DEF AdmitAttached, Mishap, TypeOK, ProcTypes
  <1>5. ASSUME NEW c \in Calls, AdmitFails(c) PROVE ProcTypes'
    BY <1>5, CallFacts DEF AdmitFails, Mishap, TypeOK, ProcTypes
  <1>6. ASSUME NEW c \in Calls, Start(c) PROVE ProcTypes'
    BY <1>6, CallFacts DEF Start, TypeOK, ProcTypes, CallTypes
  <1>7. ASSUME NEW c \in Calls, NotDurable(c) PROVE ProcTypes'
    BY <1>7, CallFacts DEF NotDurable, Forget, TypeOK, ProcTypes
  <1>8. ASSUME NEW c \in Calls, Attach(c) PROVE ProcTypes'
    BY <1>8 DEF Attach, TypeOK, ProcTypes
  <1>9. ASSUME NEW r \in Replicas, NEW j \in Calls, NEW s \in Steps, ClaimStep(r, j, s)
        PROVE  ProcTypes'
    BY <1>9, CallFacts, FenceTypes DEF ClaimStep, Mishap, WithoutLease, TypeOK, ProcTypes
  <1>10. ASSUME NEW r \in Replicas, NEW j \in Calls, NEW s \in Steps, Assign(r, j, s)
         PROVE  ProcTypes'
    BY <1>10 DEF Assign, TypeOK, ProcTypes
  <1>11. ASSUME NEW r \in Replicas, NEW j \in Calls, NEW s \in Steps, NoCapacity(r, j, s)
         PROVE  ProcTypes'
    BY <1>11, CallFacts DEF NoCapacity, Mishap, TypeOK, ProcTypes
  <1>12. ASSUME NEW r \in Replicas, NEW j \in Calls, Renew(r, j) PROVE ProcTypes'
    BY <1>12, CallFacts DEF Renew, Mishap, WithoutLease, TypeOK, ProcTypes
  <1>13. ASSUME NEW r \in Replicas, NEW j \in Calls, Decide(r, j) PROVE ProcTypes'
    BY <1>13 DEF Decide, TypeOK, ProcTypes
  <1>14. ASSUME NEW r \in Replicas, NEW j \in Calls, Settle(r, j) PROVE ProcTypes'
    BY <1>14, CallFacts DEF Settle, Mishap, TypeOK, ProcTypes
  <1>15. ASSUME NEW r \in Replicas, NEW j \in Calls, Retire(r, j) PROVE ProcTypes'
    BY <1>15, CallFacts DEF Retire, WithoutLease, TypeOK, ProcTypes
  <1>16. ASSUME NEW r \in Replicas, NEW j \in Calls, Pass(r, j) PROVE ProcTypes'
    BY <1>16, CallFacts DEF Pass, Mishap, TypeOK, ProcTypes
  <1>17. ASSUME NEW r \in Replicas, NEW j \in Calls, Reported(r, j) PROVE ProcTypes'
    BY <1>17 DEF Reported, TypeOK, ProcTypes
  <1>18. ASSUME NEW r \in Replicas, Stall(r) PROVE ProcTypes'
    BY <1>18, CallFacts DEF Stall, Mishap, TypeOK, ProcTypes
  <1>19. ASSUME NEW r \in Replicas, Wake(r) PROVE ProcTypes'
    BY <1>19, CallFacts DEF Wake, TypeOK, ProcTypes
  <1>20. ASSUME NEW r \in Replicas, Crash(r) PROVE ProcTypes'
    BY <1>20, CallFacts DEF Crash, Mishap, TypeOK, ProcTypes
  <1>21. ASSUME NEW r \in Replicas, Restart(r) PROVE ProcTypes'
    BY <1>21, CallFacts DEF Restart, TypeOK, ProcTypes
  <1>22. CASE Tick
    BY <1>22, CallFacts DEF Tick, TypeOK, ProcTypes
  <1>23. CASE UNCHANGED vars
    BY <1>23 DEF vars, TypeOK, ProcTypes
  <1> QED
    BY <1>1, <1>2, <1>3, <1>4, <1>5, <1>6, <1>7, <1>8, <1>9, <1>10, <1>11, <1>12, <1>13, <1>14,
       <1>15, <1>16, <1>17, <1>18, <1>19, <1>20, <1>21, <1>22, <1>23 DEF Next

\* Every step keeps HistTypes.
LEMMA HistTypesStep ==
  ASSUME TypeOK, [Next]_vars
  PROVE  HistTypes'
PROOF
  <1>1. ASSUME NEW c \in Calls, Evict(c) PROVE HistTypes'
    BY <1>1, CallFacts DEF Evict, histVars, TypeOK, HistTypes
  <1>2. ASSUME NEW c \in Calls, ForgetEvicted(c) PROVE HistTypes'
    BY <1>2, CallFacts DEF ForgetEvicted, Forget, histVars, TypeOK, HistTypes, CallTypes, InFlight
  <1>3. ASSUME NEW c \in Calls, AdmitWon(c) PROVE HistTypes'
    BY <1>3, CallFacts DEF AdmitWon, Superseded, histVars, TypeOK, HistTypes, InFlight
  <1>4. ASSUME NEW c \in Calls, AdmitAttached(c) PROVE HistTypes'
    BY <1>4 DEF AdmitAttached, histVars, TypeOK, HistTypes
  <1>5. ASSUME NEW c \in Calls, AdmitFails(c) PROVE HistTypes'
    BY <1>5 DEF AdmitFails, histVars, TypeOK, HistTypes
  <1>6. ASSUME NEW c \in Calls, Start(c) PROVE HistTypes'
    BY <1>6 DEF Start, histVars, TypeOK, HistTypes
  <1>7. ASSUME NEW c \in Calls, NotDurable(c) PROVE HistTypes'
    BY <1>7, CallFacts DEF NotDurable, Forget, histVars, TypeOK, HistTypes, InFlight
  <1>8. ASSUME NEW c \in Calls, Attach(c) PROVE HistTypes'
    BY <1>8, CallFacts DEF Attach, histVars, TypeOK, HistTypes, CallTypes
  <1>9. ASSUME NEW r \in Replicas, NEW j \in Calls, NEW s \in Steps, ClaimStep(r, j, s)
        PROVE  HistTypes'
    BY <1>9, CallFacts DEF ClaimStep, histVars, TypeOK, HistTypes
  <1>10. ASSUME NEW r \in Replicas, NEW j \in Calls, NEW s \in Steps, Assign(r, j, s)
         PROVE  HistTypes'
    BY <1>10, CallFacts DEF Assign, histVars, TypeOK, HistTypes
  <1>11. ASSUME NEW r \in Replicas, NEW j \in Calls, NEW s \in Steps, NoCapacity(r, j, s)
         PROVE  HistTypes'
    BY <1>11, CallFacts DEF NoCapacity, histVars, TypeOK, HistTypes
  <1>12. ASSUME NEW r \in Replicas, NEW j \in Calls, Renew(r, j) PROVE HistTypes'
    BY <1>12 DEF Renew, histVars, TypeOK, HistTypes
  <1>13. ASSUME NEW r \in Replicas, NEW j \in Calls, Decide(r, j) PROVE HistTypes'
    BY <1>13 DEF Decide, histVars, TypeOK, HistTypes
  <1>14. ASSUME NEW r \in Replicas, NEW j \in Calls, Settle(r, j) PROVE HistTypes'
    BY <1>14, CallFacts DEF Settle, histVars, TypeOK, HistTypes
  <1>15. ASSUME NEW r \in Replicas, NEW j \in Calls, Retire(r, j) PROVE HistTypes'
    BY <1>15, CallFacts DEF Retire, histVars, TypeOK, HistTypes
  <1>16. ASSUME NEW r \in Replicas, NEW j \in Calls, Pass(r, j) PROVE HistTypes'
    BY <1>16, CallFacts DEF Pass, histVars, TypeOK, HistTypes
  <1>17. ASSUME NEW r \in Replicas, NEW j \in Calls, Reported(r, j) PROVE HistTypes'
    BY <1>17 DEF Reported, histVars, TypeOK, HistTypes
  <1>18. ASSUME NEW r \in Replicas, Stall(r) PROVE HistTypes'
    BY <1>18, CallFacts DEF Stall, histVars, TypeOK, HistTypes, Unsent
  <1>19. ASSUME NEW r \in Replicas, Wake(r) PROVE HistTypes'
    BY <1>19 DEF Wake, histVars, TypeOK, HistTypes
  <1>20. ASSUME NEW r \in Replicas, Crash(r) PROVE HistTypes'
    BY <1>20, CallFacts DEF Crash, histVars, TypeOK, HistTypes, Unsent
  <1>21. ASSUME NEW r \in Replicas, Restart(r) PROVE HistTypes'
    BY <1>21 DEF Restart, histVars, TypeOK, HistTypes
  <1>22. CASE Tick
    BY <1>22 DEF Tick, histVars, TypeOK, HistTypes
  <1>23. CASE UNCHANGED vars
    BY <1>23 DEF vars, histVars, TypeOK, HistTypes
  <1> QED
    BY <1>1, <1>2, <1>3, <1>4, <1>5, <1>6, <1>7, <1>8, <1>9, <1>10, <1>11, <1>12, <1>13, <1>14,
       <1>15, <1>16, <1>17, <1>18, <1>19, <1>20, <1>21, <1>22, <1>23 DEF Next

\* The rows.
LEMMA RowInvStep ==
  ASSUME TypeOK, RowInv, FenceInv, [Next]_vars
  PROVE  RowInv'
PROOF
  <1>1. ASSUME NEW c \in Calls, Evict(c) PROVE RowInv'
    BY <1>1, CallFacts, ClaimsNames DEF Evict, rowVars, callVars, RowInv, Fresh, TypeOK,
       CallTypes, RowTypes
  <1>2. ASSUME NEW c \in Calls, ForgetEvicted(c) PROVE RowInv'
    <2> PICK j \in Calls :
          /\ j \in dropping[c] /\ dropping' = [dropping EXCEPT ![c] = @ \ {j}]
          /\ UNCHANGED <<rowVars, stepRows, inFlightWhenLost>> \/ RowGone(j)
      BY ForgetEvictedEffect, <1>2
    <2> QED
      BY <1>2, CallFacts, ClaimsNames DEF ForgetEvicted, RowGone, rowVars, RowInv, Fresh, TypeOK,
         RowTypes
  <1>3. ASSUME NEW c \in Calls, AdmitWon(c) PROVE RowInv'
    BY <1>3, CallFacts, ClaimsNames DEF AdmitWon, RowWon, rowVars, callVars, RowInv, Fresh,
       Admitting, TypeOK, RowTypes, CallTypes
  <1>4. ASSUME NEW c \in Calls, AdmitAttached(c) PROVE RowInv'
    BY <1>4, CallFacts, ClaimsNames DEF AdmitAttached, rowVars, callVars, RowInv, Fresh,
       Admitting, TypeOK, RowTypes, CallTypes
  <1>5. ASSUME NEW c \in Calls, AdmitFails(c) PROVE RowInv'
    BY <1>5, CallFacts, ClaimsNames DEF AdmitFails, rowVars, callVars, RowInv, Fresh, Admitting,
       TypeOK, RowTypes, CallTypes
  <1>6. ASSUME NEW c \in Calls, Start(c) PROVE RowInv'
    BY <1>6, CallFacts, ClaimsNames DEF Start, rowVars, callVars, RowInv, Fresh, TypeOK, RowTypes,
       CallTypes
  <1>7. ASSUME NEW c \in Calls, NotDurable(c) PROVE RowInv'
    <2>1. pc[c] = "won" /\ pc' = [pc EXCEPT ![c] = "refused"] /\ UNCHANGED <<fence, drvVars>>
      BY <1>7 DEF NotDurable
    <2>2. CASE UNCHANGED <<rowVars, stepRows, inFlightWhenLost>>
      BY <2>1, <2>2, CallFacts, ClaimsNames DEF RowGone, rowVars, RowInv, Fresh, TypeOK, RowTypes,
         CallTypes
    <2>3. CASE RowGone(c)
      BY <2>1, <2>3, CallFacts, ClaimsNames DEF RowGone, rowVars, RowInv, Fresh, TypeOK, RowTypes,
         CallTypes
    <2> QED
      BY <1>7, <2>2, <2>3, NotDurableEffect
  <1>8. ASSUME NEW c \in Calls, Attach(c) PROVE RowInv'
    BY <1>8, CallFacts, ClaimsNames DEF Attach, rowVars, callVars, RowInv, Fresh, TypeOK,
       RowTypes, CallTypes
  <1>9. ASSUME NEW r \in Replicas, NEW j \in Calls, NEW s \in Steps, ClaimStep(r, j, s)
        PROVE  RowInv'
    BY <1>9 DEF ClaimStep, rowVars, callVars, RowInv, Fresh
  <1>10. ASSUME NEW r \in Replicas, NEW j \in Calls, NEW s \in Steps, Assign(r, j, s)
         PROVE  RowInv'
    BY <1>10 DEF Assign, rowVars, callVars, RowInv, Fresh
  <1>11. ASSUME NEW r \in Replicas, NEW j \in Calls, NEW s \in Steps, NoCapacity(r, j, s)
         PROVE  RowInv'
    BY <1>11 DEF NoCapacity, rowVars, callVars, RowInv, Fresh
  <1>12. ASSUME NEW r \in Replicas, NEW j \in Calls, Renew(r, j) PROVE RowInv'
    BY <1>12, CallFacts, ClaimsNames DEF Renew, rowVars, callVars, RowInv, Fresh
  <1>13. ASSUME NEW r \in Replicas, NEW j \in Calls, Decide(r, j) PROVE RowInv'
    BY <1>13 DEF Decide, rowVars, callVars, RowInv, Fresh
  <1>14. ASSUME NEW r \in Replicas, NEW j \in Calls, Settle(r, j) PROVE RowInv'
    BY <1>14, CallFacts, ClaimsNames DEF Settle, rowVars, callVars, RowInv, Fresh, TypeOK, RowTypes
  <1>15. ASSUME NEW r \in Replicas, NEW j \in Calls, Retire(r, j) PROVE RowInv'
    BY <1>15 DEF Retire, rowVars, callVars, RowInv, Fresh
  <1>16. ASSUME NEW r \in Replicas, NEW j \in Calls, Pass(r, j) PROVE RowInv'
    BY <1>16 DEF Pass, rowVars, callVars, RowInv, Fresh
  <1>17. ASSUME NEW r \in Replicas, NEW j \in Calls, Reported(r, j) PROVE RowInv'
    BY <1>17 DEF Reported, rowVars, callVars, RowInv, Fresh
  <1>18. ASSUME NEW r \in Replicas, Stall(r) PROVE RowInv'
    BY <1>18 DEF Stall, rowVars, callVars, RowInv, Fresh
  <1>19. ASSUME NEW r \in Replicas, Wake(r) PROVE RowInv'
    BY <1>19 DEF Wake, rowVars, callVars, RowInv, Fresh
  <1>20. ASSUME NEW r \in Replicas, Crash(r) PROVE RowInv'
    BY <1>20, CallFacts, ClaimsNames DEF Crash, rowVars, callVars, RowInv, Fresh, TypeOK,
       RowTypes, CallTypes
  <1>21. ASSUME NEW r \in Replicas, Restart(r) PROVE RowInv'
    BY <1>21 DEF Restart, rowVars, callVars, RowInv, Fresh
  <1>22. CASE Tick
    BY <1>22 DEF Tick, rowVars, callVars, RowInv, Fresh
  <1>23. CASE UNCHANGED vars
    BY <1>23 DEF vars, rowVars, callVars, RowInv, Fresh
  <1> QED
    BY <1>1, <1>2, <1>3, <1>4, <1>5, <1>6, <1>7, <1>8, <1>9, <1>10, <1>11, <1>12, <1>13, <1>14,
       <1>15, <1>16, <1>17, <1>18, <1>19, <1>20, <1>21, <1>22, <1>23 DEF Next

\* Every step keeps FenceInv.
LEMMA FenceInvStep ==
  ASSUME TypeOK, RowInv, FenceInv, [Next]_vars
  PROVE  FenceInv'
PROOF
  <1>1. ASSUME NEW c \in Calls, Evict(c) PROVE FenceInv'
    BY <1>1, CallFacts DEF Evict, callVars, FenceInv, Fresh, TypeOK, CallTypes
  <1>2. ASSUME NEW c \in Calls, ForgetEvicted(c) PROVE FenceInv'
    BY <1>2 DEF ForgetEvicted, callVars, FenceInv, Fresh, TypeOK, CallTypes
  <1>3. ASSUME NEW c \in Calls, AdmitWon(c) PROVE FenceInv'
    BY <1>3, CallFacts DEF AdmitWon, callVars, FenceInv, Fresh, TypeOK, CallTypes, Admitting,
       RowWon, RowTypes
  <1>4. ASSUME NEW c \in Calls, AdmitAttached(c) PROVE FenceInv'
    BY <1>4, CallFacts DEF AdmitAttached, callVars, FenceInv, Fresh, TypeOK, CallTypes
  <1>5. ASSUME NEW c \in Calls, AdmitFails(c) PROVE FenceInv'
    BY <1>5, CallFacts DEF AdmitFails, callVars, FenceInv, Fresh, TypeOK, CallTypes
  <1>6. ASSUME NEW c \in Calls, Start(c) PROVE FenceInv'
    BY <1>6, CallFacts DEF Start, callVars, FenceInv, Fresh, TypeOK, CallTypes
  <1>7. ASSUME NEW c \in Calls, NotDurable(c) PROVE FenceInv'
    BY <1>7, CallFacts DEF NotDurable, callVars, FenceInv, Fresh, TypeOK, CallTypes
  <1>8. ASSUME NEW c \in Calls, Attach(c) PROVE FenceInv'
    BY <1>8, CallFacts DEF Attach, callVars, FenceInv, Fresh, TypeOK, CallTypes
  <1>9. ASSUME NEW r \in Replicas, NEW j \in Calls, NEW s \in Steps, ClaimStep(r, j, s)
        PROVE  FenceInv'
    BY <1>9 DEF ClaimStep, callVars, FenceInv, Fresh, TypeOK, CallTypes
  <1>10. ASSUME NEW r \in Replicas, NEW j \in Calls, NEW s \in Steps, Assign(r, j, s)
         PROVE  FenceInv'
    BY <1>10 DEF Assign, callVars, FenceInv, Fresh, TypeOK, CallTypes
  <1>11. ASSUME NEW r \in Replicas, NEW j \in Calls, NEW s \in Steps, NoCapacity(r, j, s)
         PROVE  FenceInv'
    BY <1>11 DEF NoCapacity, callVars, FenceInv, Fresh, TypeOK, CallTypes
  <1>12. ASSUME NEW r \in Replicas, NEW j \in Calls, Renew(r, j) PROVE FenceInv'
    BY <1>12 DEF Renew, callVars, FenceInv, Fresh, TypeOK, CallTypes
  <1>13. ASSUME NEW r \in Replicas, NEW j \in Calls, Decide(r, j) PROVE FenceInv'
    BY <1>13 DEF Decide, callVars, FenceInv, Fresh, TypeOK, CallTypes
  <1>14. ASSUME NEW r \in Replicas, NEW j \in Calls, Settle(r, j) PROVE FenceInv'
    BY <1>14 DEF Settle, callVars, FenceInv, Fresh, TypeOK, CallTypes
  <1>15. ASSUME NEW r \in Replicas, NEW j \in Calls, Retire(r, j) PROVE FenceInv'
    BY <1>15 DEF Retire, callVars, FenceInv, Fresh, TypeOK, CallTypes
  <1>16. ASSUME NEW r \in Replicas, NEW j \in Calls, Pass(r, j) PROVE FenceInv'
    BY <1>16 DEF Pass, callVars, FenceInv, Fresh, TypeOK, CallTypes
  <1>17. ASSUME NEW r \in Replicas, NEW j \in Calls, Reported(r, j) PROVE FenceInv'
    BY <1>17 DEF Reported, callVars, FenceInv, Fresh, TypeOK, CallTypes
  <1>18. ASSUME NEW r \in Replicas, Stall(r) PROVE FenceInv'
    BY <1>18 DEF Stall, callVars, FenceInv, Fresh, TypeOK, CallTypes
  <1>19. ASSUME NEW r \in Replicas, Wake(r) PROVE FenceInv'
    BY <1>19 DEF Wake, callVars, FenceInv, Fresh, TypeOK, CallTypes
  <1>20. ASSUME NEW r \in Replicas, Crash(r) PROVE FenceInv'
    BY <1>20, CallFacts DEF Crash, callVars, FenceInv, Fresh, TypeOK, CallTypes
  <1>21. ASSUME NEW r \in Replicas, Restart(r) PROVE FenceInv'
    BY <1>21 DEF Restart, callVars, FenceInv, Fresh, TypeOK, CallTypes
  <1>22. CASE Tick
    BY <1>22 DEF Tick, callVars, FenceInv, Fresh, TypeOK, CallTypes
  <1>23. CASE UNCHANGED vars
    BY <1>23 DEF vars, callVars, FenceInv, Fresh, TypeOK, CallTypes
  <1> QED
    BY <1>1, <1>2, <1>3, <1>4, <1>5, <1>6, <1>7, <1>8, <1>9, <1>10, <1>11, <1>12, <1>13, <1>14,
       <1>15, <1>16, <1>17, <1>18, <1>19, <1>20, <1>21, <1>22, <1>23 DEF Next

\* Every step keeps UnstartedInv.
LEMMA UnstartedInvStep ==
  ASSUME TypeOK, RowInv, SeenInv, UnstartedInv, [Next]_vars
  PROVE  UnstartedInv'
PROOF
  <1>1. ASSUME NEW c \in Calls, Evict(c) PROVE UnstartedInv'
    BY <1>1, CallFacts DEF Evict, recVars, callVars, drvVars, sndVars, UnstartedInv, Unstarted,
       TypeOK, CallTypes, RecTypes
  <1>2. ASSUME NEW c \in Calls, ForgetEvicted(c) PROVE UnstartedInv'
    BY <1>2 DEF ForgetEvicted, recVars, callVars, drvVars, sndVars, UnstartedInv, Unstarted,
       TypeOK, CallTypes
  <1>3. ASSUME NEW c \in Calls, AdmitWon(c) PROVE UnstartedInv'
    BY <1>3, CallFacts DEF AdmitWon, recVars, callVars, drvVars, sndVars, UnstartedInv, Unstarted,
       TypeOK, CallTypes, Admitting
  <1>4. ASSUME NEW c \in Calls, AdmitAttached(c) PROVE UnstartedInv'
    BY <1>4, CallFacts DEF AdmitAttached, recVars, callVars, drvVars, sndVars, UnstartedInv,
       Unstarted, TypeOK, CallTypes, Admitting
  <1>5. ASSUME NEW c \in Calls, AdmitFails(c) PROVE UnstartedInv'
    BY <1>5, CallFacts DEF AdmitFails, recVars, callVars, drvVars, sndVars, UnstartedInv,
       Unstarted, TypeOK, CallTypes, Admitting
  <1>6. ASSUME NEW c \in Calls, Start(c) PROVE UnstartedInv'
    BY <1>6, CallFacts DEF Start, recVars, callVars, drvVars, sndVars, UnstartedInv, Unstarted,
       TypeOK, CallTypes, RecTypes, DrvTypes
  <1>7. ASSUME NEW c \in Calls, NotDurable(c) PROVE UnstartedInv'
    BY <1>7, CallFacts DEF NotDurable, recVars, callVars, drvVars, sndVars, UnstartedInv,
       Unstarted, TypeOK, CallTypes
  <1>8. ASSUME NEW c \in Calls, Attach(c) PROVE UnstartedInv'
    <2>1. target[c] \in Calls /\ ReplicaOf[c] \in Replicas
      BY CallFacts DEF TypeOK, CallTypes
    <2>2. ASSUME NEW i \in Calls, Unstarted(i)', NEW q \in Replicas
          PROVE  rec'[q][i] = "absent" /\ snd'[q][i] = "off"
      <3>1. Unstarted(i)
        BY <1>8, <2>2 DEF Attach, Unstarted, TypeOK, CallTypes
      <3>2. rec[q][i] = "absent" /\ snd[q][i] = "off"
        BY <3>1 DEF UnstartedInv
      <3>3. i = target[c] => seen[c] = NoVerdict
        BY <3>1 DEF SeenInv
      <3> QED
        BY <1>8, <2>1, <3>2, <3>3 DEF Attach, TypeOK, RecTypes, SndTypes
    <2> QED
      BY <1>8, <2>2 DEF Attach, UnstartedInv, Unstarted, drvVars, TypeOK, CallTypes
  <1>9. ASSUME NEW r \in Replicas, NEW j \in Calls, NEW s \in Steps, ClaimStep(r, j, s)
        PROVE  UnstartedInv'
    BY <1>9 DEF ClaimStep, recVars, callVars, drvVars, sndVars, UnstartedInv, Unstarted, TypeOK,
       CallTypes
  <1>10. ASSUME NEW r \in Replicas, NEW j \in Calls, NEW s \in Steps, Assign(r, j, s)
         PROVE  UnstartedInv'
    BY <1>10 DEF Assign, recVars, callVars, drvVars, sndVars, UnstartedInv, Unstarted, TypeOK,
       CallTypes
  <1>11. ASSUME NEW r \in Replicas, NEW j \in Calls, NEW s \in Steps, NoCapacity(r, j, s)
         PROVE  UnstartedInv'
    BY <1>11 DEF NoCapacity, recVars, callVars, drvVars, sndVars, UnstartedInv, Unstarted, TypeOK,
       CallTypes
  <1>12. ASSUME NEW r \in Replicas, NEW j \in Calls, Renew(r, j) PROVE UnstartedInv'
    BY <1>12 DEF Renew, recVars, callVars, drvVars, sndVars, UnstartedInv, Unstarted, TypeOK,
       CallTypes
  <1>13. ASSUME NEW r \in Replicas, NEW j \in Calls, Decide(r, j) PROVE UnstartedInv'
    BY <1>13, CallFacts DEF Decide, recVars, callVars, drvVars, sndVars, UnstartedInv, Unstarted,
       TypeOK, CallTypes, RecTypes, DrvTypes
  <1>14. ASSUME NEW r \in Replicas, NEW j \in Calls, Settle(r, j) PROVE UnstartedInv'
    BY <1>14, CallFacts DEF Settle, recVars, callVars, drvVars, sndVars, UnstartedInv, Unstarted,
       TypeOK, CallTypes, DrvTypes
  <1>15. ASSUME NEW r \in Replicas, NEW j \in Calls, Retire(r, j) PROVE UnstartedInv'
    BY <1>15, CallFacts DEF Retire, recVars, callVars, drvVars, sndVars, UnstartedInv, Unstarted,
       TypeOK, CallTypes, DrvTypes, SndTypes
  <1>16. ASSUME NEW r \in Replicas, NEW j \in Calls, Pass(r, j) PROVE UnstartedInv'
    BY <1>16, CallFacts DEF Pass, recVars, callVars, drvVars, sndVars, UnstartedInv, Unstarted,
       TypeOK, CallTypes, SndTypes
  <1>17. ASSUME NEW r \in Replicas, NEW j \in Calls, Reported(r, j) PROVE UnstartedInv'
    BY <1>17, CallFacts DEF Reported, recVars, callVars, drvVars, sndVars, UnstartedInv,
       Unstarted, TypeOK, CallTypes, Present, RecTypes, SndTypes
  <1>18. ASSUME NEW r \in Replicas, Stall(r) PROVE UnstartedInv'
    BY <1>18 DEF Stall, recVars, callVars, drvVars, sndVars, UnstartedInv, Unstarted, TypeOK,
       CallTypes
  <1>19. ASSUME NEW r \in Replicas, Wake(r) PROVE UnstartedInv'
    BY <1>19 DEF Wake, recVars, callVars, drvVars, sndVars, UnstartedInv, Unstarted, TypeOK,
       CallTypes
  <1>20. ASSUME NEW r \in Replicas, Crash(r) PROVE UnstartedInv'
    BY <1>20, CallFacts DEF Crash, recVars, callVars, drvVars, sndVars, UnstartedInv, Unstarted,
       TypeOK, CallTypes, RecTypes, SndTypes, DrvTypes
  <1>21. ASSUME NEW r \in Replicas, Restart(r) PROVE UnstartedInv'
    BY <1>21 DEF Restart, recVars, callVars, drvVars, sndVars, UnstartedInv, Unstarted, TypeOK,
       CallTypes
  <1>22. CASE Tick
    BY <1>22 DEF Tick, recVars, callVars, drvVars, sndVars, UnstartedInv, Unstarted, TypeOK,
       CallTypes
  <1>23. CASE UNCHANGED vars
    BY <1>23 DEF vars, recVars, callVars, drvVars, sndVars, UnstartedInv, Unstarted, TypeOK,
       CallTypes
  <1> QED
    BY <1>1, <1>2, <1>3, <1>4, <1>5, <1>6, <1>7, <1>8, <1>9, <1>10, <1>11, <1>12, <1>13, <1>14,
       <1>15, <1>16, <1>17, <1>18, <1>19, <1>20, <1>21, <1>22, <1>23 DEF Next

\* Every step keeps UnsettledInv.
LEMMA UnsettledInvStep ==
  ASSUME TypeOK, RowInv, UnstartedInv, UnsettledInv, [Next]_vars
  PROVE  UnsettledInv'
PROOF
  <1>1. ASSUME NEW c \in Calls, Evict(c) PROVE UnsettledInv'
    BY <1>1, CallFacts, ClaimsNames DEF Evict, rowVars, callVars, drvVars, UnsettledInv,
       Unstarted, TypeOK, RowTypes, CallTypes
  <1>2. ASSUME NEW c \in Calls, ForgetEvicted(c) PROVE UnsettledInv'
    <2> PICK j \in Calls :
          /\ j \in dropping[c] /\ dropping' = [dropping EXCEPT ![c] = @ \ {j}]
          /\ UNCHANGED <<rowVars, stepRows, inFlightWhenLost>> \/ RowGone(j)
      BY ForgetEvictedEffect, <1>2
    <2> QED
      BY <1>2, CallFacts, ClaimsNames DEF ForgetEvicted, RowGone, rowVars, drvVars, UnsettledInv,
         Unstarted, TypeOK, RowTypes
  <1>3. ASSUME NEW c \in Calls, AdmitWon(c) PROVE UnsettledInv'
    BY <1>3, CallFacts, ClaimsNames DEF AdmitWon, RowWon, rowVars, callVars, drvVars,
       UnsettledInv, Unstarted, Admitting, RowInv, Fresh, TypeOK, RowTypes, CallTypes
  <1>4. ASSUME NEW c \in Calls, AdmitAttached(c) PROVE UnsettledInv'
    BY <1>4, CallFacts, ClaimsNames DEF AdmitAttached, rowVars, callVars, drvVars, UnsettledInv,
       Unstarted, Admitting, RowInv, Fresh, TypeOK, RowTypes, CallTypes
  <1>5. ASSUME NEW c \in Calls, AdmitFails(c) PROVE UnsettledInv'
    BY <1>5, CallFacts, ClaimsNames DEF AdmitFails, rowVars, callVars, drvVars, UnsettledInv,
       Unstarted, TypeOK, RowTypes, CallTypes
  <1>6. ASSUME NEW c \in Calls, Start(c) PROVE UnsettledInv'
    BY <1>6, CallFacts, ClaimsNames DEF Start, rowVars, callVars, drvVars, UnsettledInv,
       Unstarted, RowInv, TypeOK, RowTypes, CallTypes, DrvTypes
  <1>7. ASSUME NEW c \in Calls, NotDurable(c) PROVE UnsettledInv'
    <2>1. pc[c] = "won" /\ pc' = [pc EXCEPT ![c] = "refused"] /\ UNCHANGED <<fence, drvVars>>
      BY <1>7 DEF NotDurable
    <2>2. CASE UNCHANGED <<rowVars, stepRows, inFlightWhenLost>>
      BY <2>1, <2>2, CallFacts, ClaimsNames DEF RowGone, rowVars, drvVars, UnsettledInv,
         Unstarted, TypeOK, RowTypes, CallTypes
    <2>3. CASE RowGone(c)
      BY <2>1, <2>3, CallFacts, ClaimsNames DEF RowGone, rowVars, drvVars, UnsettledInv,
         Unstarted, TypeOK, RowTypes, CallTypes
    <2> QED
      BY <1>7, <2>2, <2>3, NotDurableEffect
  <1>8. ASSUME NEW c \in Calls, Attach(c) PROVE UnsettledInv'
    BY <1>8, CallFacts, ClaimsNames DEF Attach, rowVars, callVars, drvVars, UnsettledInv,
       Unstarted, TypeOK, RowTypes, CallTypes
  <1>9. ASSUME NEW r \in Replicas, NEW j \in Calls, NEW s \in Steps, ClaimStep(r, j, s)
        PROVE  UnsettledInv'
    BY <1>9 DEF ClaimStep, rowVars, callVars, drvVars, UnsettledInv, Unstarted
  <1>10. ASSUME NEW r \in Replicas, NEW j \in Calls, NEW s \in Steps, Assign(r, j, s)
         PROVE  UnsettledInv'
    BY <1>10 DEF Assign, rowVars, callVars, drvVars, UnsettledInv, Unstarted
  <1>11. ASSUME NEW r \in Replicas, NEW j \in Calls, NEW s \in Steps, NoCapacity(r, j, s)
         PROVE  UnsettledInv'
    BY <1>11 DEF NoCapacity, rowVars, callVars, drvVars, UnsettledInv, Unstarted
  <1>12. ASSUME NEW r \in Replicas, NEW j \in Calls, Renew(r, j) PROVE UnsettledInv'
    BY <1>12 DEF Renew, rowVars, callVars, drvVars, UnsettledInv, Unstarted
  <1>13. ASSUME NEW r \in Replicas, NEW j \in Calls, Decide(r, j) PROVE UnsettledInv'
    BY <1>13, CallFacts, ClaimsNames DEF Decide, rowVars, callVars, drvVars, UnsettledInv,
       Unstarted, RowInv, TypeOK, RowTypes, DrvTypes
  <1>14. ASSUME NEW r \in Replicas, NEW j \in Calls, Settle(r, j) PROVE UnsettledInv'
    <2>1. ASSUME NEW t \in Trees, rowVerdict'[t] # NoVerdict
          PROVE  ~Unstarted(rowJob[t]) /\ drv'[rowJob[t]] \notin {"drive", "settle"}
      <3>1. rowJob[t] = j \/ rowVerdict'[t] = rowVerdict[t]
        BY <1>14 DEF Settle, TypeOK, RowTypes
      <3>2. drv[j] = "settle" /\ drv'[j] = "journal" /\ \A i \in Calls : i # j => drv'[i] = drv[i]
        BY <1>14 DEF Settle, TypeOK, DrvTypes
      <3>3. CASE rowJob[t] = j
        BY <3>2, <3>3 DEF UnstartedInv
      <3>4. CASE rowJob[t] # j /\ rowVerdict[t] # NoVerdict
        <4>1. rowJob[t] \in Calls
          BY <3>4 DEF RowInv, TypeOK, RowTypes
        <4> QED
          BY <4>1, <3>2, <3>4 DEF UnsettledInv
      <3> QED
        BY <2>1, <3>1, <3>3, <3>4
    <2> QED
      BY <1>14, <2>1 DEF Settle, callVars, UnsettledInv, Unstarted
  <1>15. ASSUME NEW r \in Replicas, NEW j \in Calls, Retire(r, j) PROVE UnsettledInv'
    BY <1>15, CallFacts, ClaimsNames DEF Retire, rowVars, callVars, drvVars, UnsettledInv,
       Unstarted, RowInv, TypeOK, RowTypes, DrvTypes
  <1>16. ASSUME NEW r \in Replicas, NEW j \in Calls, Pass(r, j) PROVE UnsettledInv'
    BY <1>16 DEF Pass, rowVars, callVars, drvVars, UnsettledInv, Unstarted
  <1>17. ASSUME NEW r \in Replicas, NEW j \in Calls, Reported(r, j) PROVE UnsettledInv'
    BY <1>17 DEF Reported, rowVars, callVars, drvVars, UnsettledInv, Unstarted
  <1>18. ASSUME NEW r \in Replicas, Stall(r) PROVE UnsettledInv'
    BY <1>18 DEF Stall, rowVars, callVars, drvVars, UnsettledInv, Unstarted
  <1>19. ASSUME NEW r \in Replicas, Wake(r) PROVE UnsettledInv'
    BY <1>19 DEF Wake, rowVars, callVars, drvVars, UnsettledInv, Unstarted
  <1>20. ASSUME NEW r \in Replicas, Crash(r) PROVE UnsettledInv'
    <2>1. ASSUME NEW t \in Trees, rowVerdict[t] # NoVerdict
          PROVE  ~Unstarted(rowJob[t])' /\ drv'[rowJob[t]] \notin {"drive", "settle"}
      <3>1. rowJob[t] \in Calls
        BY <2>1 DEF RowInv, TypeOK, RowTypes
      <3>2. ~Unstarted(rowJob[t]) /\ drv[rowJob[t]] \notin {"drive", "settle"}
        BY <2>1 DEF UnsettledInv
      <3> QED
        BY <1>20, <3>1, <3>2 DEF Crash, rowVars, Unstarted
    <2> QED
      BY <1>20, <2>1 DEF Crash, rowVars, UnsettledInv
  <1>21. ASSUME NEW r \in Replicas, Restart(r) PROVE UnsettledInv'
    BY <1>21 DEF Restart, rowVars, callVars, drvVars, UnsettledInv, Unstarted
  <1>22. CASE Tick
    BY <1>22 DEF Tick, rowVars, callVars, drvVars, UnsettledInv, Unstarted
  <1>23. CASE UNCHANGED vars
    BY <1>23 DEF vars, rowVars, callVars, drvVars, UnsettledInv, Unstarted
  <1> QED
    BY <1>1, <1>2, <1>3, <1>4, <1>5, <1>6, <1>7, <1>8, <1>9, <1>10, <1>11, <1>12, <1>13, <1>14,
       <1>15, <1>16, <1>17, <1>18, <1>19, <1>20, <1>21, <1>22, <1>23 DEF Next

\* Every step keeps SeenInv.
LEMMA SeenInvStep ==
  ASSUME TypeOK, RowInv, UnstartedInv, UnsettledInv, SeenInv, [Next]_vars
  PROVE  SeenInv'
PROOF
  <1>1. ASSUME NEW c \in Calls, Evict(c) PROVE SeenInv'
    BY <1>1, CallFacts, ClaimsNames DEF Evict, callVars, drvVars, SeenInv, Unstarted, TypeOK,
       CallTypes
  <1>2. ASSUME NEW c \in Calls, ForgetEvicted(c) PROVE SeenInv'
    BY <1>2 DEF ForgetEvicted, callVars, drvVars, SeenInv, Unstarted, TypeOK, CallTypes
  <1>3. ASSUME NEW c \in Calls, AdmitWon(c) PROVE SeenInv'
    BY <1>3, CallFacts, ClaimsNames DEF AdmitWon, callVars, drvVars, SeenInv, Unstarted, TypeOK,
       CallTypes, Admitting
  <1>4. ASSUME NEW c \in Calls, AdmitAttached(c) PROVE SeenInv'
    BY <1>4, CallFacts, ClaimsNames DEF AdmitAttached, callVars, drvVars, SeenInv, Unstarted,
       TypeOK, CallTypes, RowTypes, UnsettledInv, RowInv, Fresh, Admitting
  <1>5. ASSUME NEW c \in Calls, AdmitFails(c) PROVE SeenInv'
    BY <1>5, CallFacts, ClaimsNames DEF AdmitFails, callVars, drvVars, SeenInv, Unstarted, TypeOK,
       CallTypes
  <1>6. ASSUME NEW c \in Calls, Start(c) PROVE SeenInv'
    BY <1>6, CallFacts, ClaimsNames DEF Start, callVars, drvVars, SeenInv, Unstarted, TypeOK,
       CallTypes, DrvTypes
  <1>7. ASSUME NEW c \in Calls, NotDurable(c) PROVE SeenInv'
    BY <1>7, CallFacts, ClaimsNames DEF NotDurable, callVars, drvVars, SeenInv, Unstarted, TypeOK,
       CallTypes
  <1>8. ASSUME NEW c \in Calls, Attach(c) PROVE SeenInv'
    BY <1>8, CallFacts, ClaimsNames DEF Attach, callVars, drvVars, SeenInv, Unstarted, TypeOK,
       CallTypes
  <1>9. ASSUME NEW r \in Replicas, NEW j \in Calls, NEW s \in Steps, ClaimStep(r, j, s)
        PROVE  SeenInv'
    BY <1>9 DEF ClaimStep, callVars, drvVars, SeenInv, Unstarted, TypeOK, CallTypes
  <1>10. ASSUME NEW r \in Replicas, NEW j \in Calls, NEW s \in Steps, Assign(r, j, s)
         PROVE  SeenInv'
    BY <1>10 DEF Assign, callVars, drvVars, SeenInv, Unstarted, TypeOK, CallTypes
  <1>11. ASSUME NEW r \in Replicas, NEW j \in Calls, NEW s \in Steps, NoCapacity(r, j, s)
         PROVE  SeenInv'
    BY <1>11 DEF NoCapacity, callVars, drvVars, SeenInv, Unstarted, TypeOK, CallTypes
  <1>12. ASSUME NEW r \in Replicas, NEW j \in Calls, Renew(r, j) PROVE SeenInv'
    BY <1>12 DEF Renew, callVars, drvVars, SeenInv, Unstarted, TypeOK, CallTypes
  <1>13. ASSUME NEW r \in Replicas, NEW j \in Calls, Decide(r, j) PROVE SeenInv'
    BY <1>13, CallFacts, ClaimsNames DEF Decide, callVars, drvVars, SeenInv, Unstarted, TypeOK,
       CallTypes, DrvTypes
  <1>14. ASSUME NEW r \in Replicas, NEW j \in Calls, Settle(r, j) PROVE SeenInv'
    BY <1>14, CallFacts, ClaimsNames DEF Settle, callVars, drvVars, SeenInv, Unstarted, TypeOK,
       CallTypes, DrvTypes
  <1>15. ASSUME NEW r \in Replicas, NEW j \in Calls, Retire(r, j) PROVE SeenInv'
    BY <1>15, CallFacts, ClaimsNames DEF Retire, callVars, drvVars, SeenInv, Unstarted, TypeOK,
       CallTypes, DrvTypes
  <1>16. ASSUME NEW r \in Replicas, NEW j \in Calls, Pass(r, j) PROVE SeenInv'
    BY <1>16 DEF Pass, callVars, drvVars, SeenInv, Unstarted, TypeOK, CallTypes
  <1>17. ASSUME NEW r \in Replicas, NEW j \in Calls, Reported(r, j) PROVE SeenInv'
    BY <1>17 DEF Reported, callVars, drvVars, SeenInv, Unstarted, TypeOK, CallTypes
  <1>18. ASSUME NEW r \in Replicas, Stall(r) PROVE SeenInv'
    BY <1>18 DEF Stall, callVars, drvVars, SeenInv, Unstarted, TypeOK, CallTypes
  <1>19. ASSUME NEW r \in Replicas, Wake(r) PROVE SeenInv'
    BY <1>19 DEF Wake, callVars, drvVars, SeenInv, Unstarted, TypeOK, CallTypes
  <1>20. ASSUME NEW r \in Replicas, Crash(r) PROVE SeenInv'
    BY <1>20, CallFacts, ClaimsNames DEF Crash, callVars, drvVars, SeenInv, Unstarted, TypeOK,
       CallTypes, DrvTypes
  <1>21. ASSUME NEW r \in Replicas, Restart(r) PROVE SeenInv'
    BY <1>21 DEF Restart, callVars, drvVars, SeenInv, Unstarted, TypeOK, CallTypes
  <1>22. CASE Tick
    BY <1>22 DEF Tick, callVars, drvVars, SeenInv, Unstarted, TypeOK, CallTypes
  <1>23. CASE UNCHANGED vars
    BY <1>23 DEF vars, callVars, drvVars, SeenInv, Unstarted, TypeOK, CallTypes
  <1> QED
    BY <1>1, <1>2, <1>3, <1>4, <1>5, <1>6, <1>7, <1>8, <1>9, <1>10, <1>11, <1>12, <1>13, <1>14,
       <1>15, <1>16, <1>17, <1>18, <1>19, <1>20, <1>21, <1>22, <1>23 DEF Next

\* Every step keeps RecInv.
LEMMA RecInvStep ==
  ASSUME TypeOK, UnstartedInv, RecInv, [Next]_vars
  PROVE  RecInv'
PROOF
  <1>1. ASSUME NEW c \in Calls, Evict(c) PROVE RecInv'
    BY <1>1, CallFacts DEF Evict, recVars, drvVars, sndVars, RecInv, TypeOK, RecTypes
  <1>2. ASSUME NEW c \in Calls, ForgetEvicted(c) PROVE RecInv'
    BY <1>2 DEF ForgetEvicted, recVars, drvVars, sndVars, RecInv, TypeOK, RecTypes
  <1>3. ASSUME NEW c \in Calls, AdmitWon(c) PROVE RecInv'
    BY <1>3 DEF AdmitWon, recVars, drvVars, sndVars, RecInv, TypeOK, RecTypes
  <1>4. ASSUME NEW c \in Calls, AdmitAttached(c) PROVE RecInv'
    BY <1>4 DEF AdmitAttached, recVars, drvVars, sndVars, RecInv, TypeOK, RecTypes
  <1>5. ASSUME NEW c \in Calls, AdmitFails(c) PROVE RecInv'
    BY <1>5 DEF AdmitFails, recVars, drvVars, sndVars, RecInv, TypeOK, RecTypes
  <1>6. ASSUME NEW c \in Calls, Start(c) PROVE RecInv'
    BY <1>6, CallFacts DEF Start, recVars, drvVars, sndVars, RecInv, TypeOK, RecTypes,
       UnstartedInv, Unstarted, DrvTypes
  <1>7. ASSUME NEW c \in Calls, NotDurable(c) PROVE RecInv'
    BY <1>7 DEF NotDurable, recVars, drvVars, sndVars, RecInv, TypeOK, RecTypes
  <1>8. ASSUME NEW c \in Calls, Attach(c) PROVE RecInv'
    <2>1. target[c] \in Calls /\ ReplicaOf[c] \in Replicas /\ seen[c] \in Verdicts
      BY CallFacts DEF TypeOK, CallTypes
    <2> DEFINE q == ReplicaOf[c]
               i == target[c]
               was == rec[q][i]
               new0 == IF was = "absent" /\ seen[c] # NoVerdict THEN "decided" ELSE was
    <2>2. /\ rec' = [rec EXCEPT ![q][i] = new0]
          /\ recVerdict' = [recVerdict EXCEPT ![q][i] = IF was # "absent" THEN @ ELSE seen[c]]
          /\ UNCHANGED drv
      BY <1>8 DEF Attach, Present, drvVars
    <2>3. rec'[q][i] = new0
      BY <2>1, <2>2 DEF TypeOK, RecTypes
    <2>4. /\ recUrls' = [recUrls EXCEPT ![q][i] = IF new0 = "absent" THEN @ ELSE @ \cup {UrlOf[c]}]
          /\ snd' = [snd EXCEPT ![q][i] =
                       IF @ = "off" /\ new0 \in {"decided", "reported"} THEN "pass" ELSE @]
      BY <1>8, <2>3 DEF Attach
    <2>5. ASSUME NEW r \in Replicas, NEW j \in Calls, r # q \/ j # i
          PROVE  /\ rec'[r][j] = rec[r][j] /\ recVerdict'[r][j] = recVerdict[r][j]
                 /\ recUrls'[r][j] = recUrls[r][j] /\ snd'[r][j] = snd[r][j]
      BY <2>1, <2>2, <2>4, <2>5 DEF TypeOK, RecTypes, SndTypes
    <2>6. /\ recVerdict'[q][i] = IF was # "absent" THEN recVerdict[q][i] ELSE seen[c]
          /\ new0 = "absent" => recUrls'[q][i] = recUrls[q][i]
          /\ new0 = "running" => snd'[q][i] = snd[q][i]
      BY <2>1, <2>2, <2>4 DEF TypeOK, RecTypes, SndTypes
    <2>7. /\ new0 = "absent" => recUrls'[q][i] = {} /\ recVerdict'[q][i] = NoVerdict
          /\ new0 = "running" => recVerdict'[q][i] = NoVerdict /\ snd'[q][i] = "off" /\ drv[i] = "drive"
                                /\ q = ReplicaOf[i]
          /\ new0 \in {"decided", "reported"} => recVerdict'[q][i] \in Statuses
      BY <2>1, <2>6 DEF RecInv, Verdicts
    <2> QED
      BY <2>1, <2>2, <2>3, <2>5, <2>7 DEF RecInv
  <1>9. ASSUME NEW r \in Replicas, NEW j \in Calls, NEW s \in Steps, ClaimStep(r, j, s)
        PROVE  RecInv'
    BY <1>9 DEF ClaimStep, recVars, drvVars, sndVars, RecInv, TypeOK, RecTypes
  <1>10. ASSUME NEW r \in Replicas, NEW j \in Calls, NEW s \in Steps, Assign(r, j, s)
         PROVE  RecInv'
    BY <1>10 DEF Assign, recVars, drvVars, sndVars, RecInv, TypeOK, RecTypes
  <1>11. ASSUME NEW r \in Replicas, NEW j \in Calls, NEW s \in Steps, NoCapacity(r, j, s)
         PROVE  RecInv'
    BY <1>11 DEF NoCapacity, recVars, drvVars, sndVars, RecInv, TypeOK, RecTypes
  <1>12. ASSUME NEW r \in Replicas, NEW j \in Calls, Renew(r, j) PROVE RecInv'
    BY <1>12 DEF Renew, recVars, drvVars, sndVars, RecInv, TypeOK, RecTypes
  <1>13. ASSUME NEW r \in Replicas, NEW j \in Calls, Decide(r, j) PROVE RecInv'
    BY <1>13, CallFacts, ClaimsAssumption DEF Decide, recVars, drvVars, sndVars, RecInv, TypeOK,
       RecTypes, DrvTypes, Statuses, NoVerdict
  <1>14. ASSUME NEW r \in Replicas, NEW j \in Calls, Settle(r, j) PROVE RecInv'
    BY <1>14, CallFacts DEF Settle, recVars, drvVars, sndVars, RecInv, TypeOK, RecTypes, DrvTypes
  <1>15. ASSUME NEW r \in Replicas, NEW j \in Calls, Retire(r, j) PROVE RecInv'
    BY <1>15, CallFacts DEF Retire, recVars, drvVars, sndVars, RecInv, TypeOK, RecTypes, DrvTypes,
       SndTypes
  <1>16. ASSUME NEW r \in Replicas, NEW j \in Calls, Pass(r, j) PROVE RecInv'
    <2> PICK X \in SUBSET Urls :
          /\ recUrls' = [recUrls EXCEPT ![r][j] = X] /\ recUrls[r][j] \subseteq X
          /\ snd' = [snd EXCEPT ![r][j] = IF X \subseteq tried[r][j] THEN "end" ELSE @]
          /\ tried' = [tried EXCEPT ![r][j] = X]
          /\ told' = told \cup {<<u, j, recVerdict[r][j]>> : u \in X \ tried[r][j]}
          /\ Present(r, j) /\ j \notin excused' => Destinations(j) \subseteq X
          /\ ~Present(r, j) => X = recUrls[r][j]
      BY PassEffect, <1>16
    <2> QED
      BY <1>16 DEF Pass, Present, drvVars, RecInv, TypeOK, RecTypes, SndTypes
  <1>17. ASSUME NEW r \in Replicas, NEW j \in Calls, Reported(r, j) PROVE RecInv'
    BY <1>17, CallFacts DEF Reported, recVars, drvVars, sndVars, RecInv, TypeOK, RecTypes,
       Present, SndTypes
  <1>18. ASSUME NEW r \in Replicas, Stall(r) PROVE RecInv'
    BY <1>18 DEF Stall, recVars, drvVars, sndVars, RecInv, TypeOK, RecTypes
  <1>19. ASSUME NEW r \in Replicas, Wake(r) PROVE RecInv'
    BY <1>19 DEF Wake, recVars, drvVars, sndVars, RecInv, TypeOK, RecTypes
  <1>20. ASSUME NEW r \in Replicas, Crash(r) PROVE RecInv'
    BY <1>20, CallFacts DEF Crash, recVars, drvVars, sndVars, RecInv, TypeOK, RecTypes, DrvTypes,
       SndTypes
  <1>21. ASSUME NEW r \in Replicas, Restart(r) PROVE RecInv'
    BY <1>21 DEF Restart, recVars, drvVars, sndVars, RecInv, TypeOK, RecTypes
  <1>22. CASE Tick
    BY <1>22 DEF Tick, recVars, drvVars, sndVars, RecInv, TypeOK, RecTypes
  <1>23. CASE UNCHANGED vars
    BY <1>23 DEF vars, recVars, drvVars, sndVars, RecInv, TypeOK, RecTypes
  <1> QED
    BY <1>1, <1>2, <1>3, <1>4, <1>5, <1>6, <1>7, <1>8, <1>9, <1>10, <1>11, <1>12, <1>13, <1>14,
       <1>15, <1>16, <1>17, <1>18, <1>19, <1>20, <1>21, <1>22, <1>23 DEF Next

\* The lease of a job that holds its row is the row's.
LEMMA FenceOfFact ==
  ASSUME TypeOK, LeaseInv, NEW r \in Replicas, NEW j \in Calls, Leased(r, j)
  PROVE  FenceOf(r, j) = fence[j] /\ ReplicaOf[j] = r /\ ~Unstarted(j)
PROOF
  <1>1. \A l \in leases[r] : l[1] = j => l[2] = fence[j] /\ ReplicaOf[j] = r /\ ~Unstarted(j)
    BY DEF LeaseInv
  <1> QED
    BY <1>1 DEF FenceOf, Leased

\* Every step keeps LeaseInv.
LEMMA LeaseInvStep ==
  ASSUME TypeOK, FenceInv, LeaseInv, [Next]_vars
  PROVE  LeaseInv'
PROOF
  <1>1. ASSUME NEW c \in Calls, Evict(c) PROVE LeaseInv'
    BY <1>1, CallFacts DEF Evict, callVars, LeaseInv, Unstarted, TypeOK, ProcTypes
  <1>2. ASSUME NEW c \in Calls, ForgetEvicted(c) PROVE LeaseInv'
    BY <1>2 DEF ForgetEvicted, callVars, LeaseInv, Unstarted, TypeOK, ProcTypes
  <1>3. ASSUME NEW c \in Calls, AdmitWon(c) PROVE LeaseInv'
    BY <1>3, CallFacts DEF AdmitWon, callVars, LeaseInv, Unstarted, TypeOK, ProcTypes, Admitting,
       CallTypes
  <1>4. ASSUME NEW c \in Calls, AdmitAttached(c) PROVE LeaseInv'
    BY <1>4, CallFacts DEF AdmitAttached, callVars, LeaseInv, Unstarted, TypeOK, ProcTypes,
       Admitting, CallTypes
  <1>5. ASSUME NEW c \in Calls, AdmitFails(c) PROVE LeaseInv'
    BY <1>5, CallFacts DEF AdmitFails, callVars, LeaseInv, Unstarted, TypeOK, ProcTypes
  <1>6. ASSUME NEW c \in Calls, Start(c) PROVE LeaseInv'
    BY <1>6, CallFacts DEF Start, callVars, LeaseInv, Unstarted, TypeOK, ProcTypes, CallTypes
  <1>7. ASSUME NEW c \in Calls, NotDurable(c) PROVE LeaseInv'
    BY <1>7, CallFacts DEF NotDurable, callVars, LeaseInv, Unstarted, TypeOK, ProcTypes
  <1>8. ASSUME NEW c \in Calls, Attach(c) PROVE LeaseInv'
    BY <1>8, CallFacts DEF Attach, callVars, LeaseInv, Unstarted, TypeOK, ProcTypes
  <1>9. ASSUME NEW r \in Replicas, NEW j \in Calls, NEW s \in Steps, ClaimStep(r, j, s)
        PROVE  LeaseInv'
    BY <1>9, CallFacts DEF ClaimStep, WithoutLease, callVars, LeaseInv, Unstarted, TypeOK, ProcTypes
  <1>10. ASSUME NEW r \in Replicas, NEW j \in Calls, NEW s \in Steps, Assign(r, j, s)
         PROVE  LeaseInv'
    BY <1>10 DEF Assign, callVars, LeaseInv, Unstarted, TypeOK, ProcTypes
  <1>11. ASSUME NEW r \in Replicas, NEW j \in Calls, NEW s \in Steps, NoCapacity(r, j, s)
         PROVE  LeaseInv'
    BY <1>11 DEF NoCapacity, callVars, LeaseInv, Unstarted, TypeOK, ProcTypes
  <1>12. ASSUME NEW r \in Replicas, NEW j \in Calls, Renew(r, j) PROVE LeaseInv'
    BY <1>12, CallFacts DEF Renew, WithoutLease, callVars, LeaseInv, Unstarted, TypeOK, ProcTypes
  <1>13. ASSUME NEW r \in Replicas, NEW j \in Calls, Decide(r, j) PROVE LeaseInv'
    BY <1>13 DEF Decide, callVars, LeaseInv, Unstarted, TypeOK, ProcTypes
  <1>14. ASSUME NEW r \in Replicas, NEW j \in Calls, Settle(r, j) PROVE LeaseInv'
    BY <1>14 DEF Settle, callVars, LeaseInv, Unstarted, TypeOK, ProcTypes
  <1>15. ASSUME NEW r \in Replicas, NEW j \in Calls, Retire(r, j) PROVE LeaseInv'
    BY <1>15, CallFacts DEF Retire, WithoutLease, callVars, LeaseInv, Unstarted, TypeOK, ProcTypes
  <1>16. ASSUME NEW r \in Replicas, NEW j \in Calls, Pass(r, j) PROVE LeaseInv'
    BY <1>16 DEF Pass, callVars, LeaseInv, Unstarted, TypeOK, ProcTypes
  <1>17. ASSUME NEW r \in Replicas, NEW j \in Calls, Reported(r, j) PROVE LeaseInv'
    BY <1>17 DEF Reported, callVars, LeaseInv, Unstarted, TypeOK, ProcTypes
  <1>18. ASSUME NEW r \in Replicas, Stall(r) PROVE LeaseInv'
    BY <1>18 DEF Stall, callVars, LeaseInv, Unstarted, TypeOK, ProcTypes
  <1>19. ASSUME NEW r \in Replicas, Wake(r) PROVE LeaseInv'
    BY <1>19 DEF Wake, callVars, LeaseInv, Unstarted, TypeOK, ProcTypes
  <1>20. ASSUME NEW r \in Replicas, Crash(r) PROVE LeaseInv'
    BY <1>20, CallFacts DEF Crash, callVars, LeaseInv, Unstarted, TypeOK, ProcTypes
  <1>21. ASSUME NEW r \in Replicas, Restart(r) PROVE LeaseInv'
    BY <1>21 DEF Restart, callVars, LeaseInv, Unstarted, TypeOK, ProcTypes
  <1>22. CASE Tick
    BY <1>22 DEF Tick, callVars, LeaseInv, Unstarted, TypeOK, ProcTypes
  <1>23. CASE UNCHANGED vars
    BY <1>23 DEF vars, callVars, LeaseInv, Unstarted, TypeOK, ProcTypes
  <1> QED
    BY <1>1, <1>2, <1>3, <1>4, <1>5, <1>6, <1>7, <1>8, <1>9, <1>10, <1>11, <1>12, <1>13, <1>14,
       <1>15, <1>16, <1>17, <1>18, <1>19, <1>20, <1>21, <1>22, <1>23 DEF Next

\* Every step keeps StepRowInv.
LEMMA StepRowInvStep ==
  ASSUME TypeOK, RowInv, FenceInv, LeaseInv, StepRowInv, [Next]_vars
  PROVE  StepRowInv'
PROOF
  <1>1. ASSUME NEW c \in Calls, Evict(c) PROVE StepRowInv'
    BY <1>1, CallFacts DEF Evict, callVars, StepRowInv, Unstarted, TypeOK, ProcTypes
  <1>2. ASSUME NEW c \in Calls, ForgetEvicted(c) PROVE StepRowInv'
    BY <1>2, CallFacts DEF ForgetEvicted, Forget, callVars, StepRowInv, Unstarted, TypeOK, ProcTypes
  <1>3. ASSUME NEW c \in Calls, AdmitWon(c) PROVE StepRowInv'
    BY <1>3, CallFacts DEF AdmitWon, callVars, StepRowInv, Unstarted, TypeOK, ProcTypes,
       Admitting, CallTypes, Swept
  <1>4. ASSUME NEW c \in Calls, AdmitAttached(c) PROVE StepRowInv'
    BY <1>4, CallFacts DEF AdmitAttached, callVars, StepRowInv, Unstarted, TypeOK, ProcTypes,
       Admitting, CallTypes
  <1>5. ASSUME NEW c \in Calls, AdmitFails(c) PROVE StepRowInv'
    BY <1>5, CallFacts DEF AdmitFails, callVars, StepRowInv, Unstarted, TypeOK, ProcTypes
  <1>6. ASSUME NEW c \in Calls, Start(c) PROVE StepRowInv'
    BY <1>6, CallFacts DEF Start, callVars, StepRowInv, Unstarted, TypeOK, ProcTypes
  <1>7. ASSUME NEW c \in Calls, NotDurable(c) PROVE StepRowInv'
    BY <1>7, CallFacts DEF NotDurable, Forget, callVars, StepRowInv, Unstarted, TypeOK, ProcTypes
  <1>8. ASSUME NEW c \in Calls, Attach(c) PROVE StepRowInv'
    BY <1>8, CallFacts DEF Attach, callVars, StepRowInv, Unstarted, TypeOK, ProcTypes
  <1>9. ASSUME NEW r \in Replicas, NEW j \in Calls, NEW s \in Steps, ClaimStep(r, j, s)
        PROVE  StepRowInv'
    <2>1. FenceOf(r, j) = fence[j] /\ ReplicaOf[j] = r /\ ~Unstarted(j)
      BY <1>9, FenceOfFact DEF ClaimStep
    <2>2. stepRows' \subseteq stepRows \cup {<<j, s, r, fence[j]>>}
      BY <1>9, <2>1 DEF ClaimStep
    <2> QED
      BY <1>9, <2>1, <2>2 DEF ClaimStep, callVars, StepRowInv, Unstarted
  <1>10. ASSUME NEW r \in Replicas, NEW j \in Calls, NEW s \in Steps, Assign(r, j, s)
         PROVE  StepRowInv'
    BY <1>10 DEF Assign, callVars, StepRowInv, Unstarted, TypeOK, ProcTypes
  <1>11. ASSUME NEW r \in Replicas, NEW j \in Calls, NEW s \in Steps, NoCapacity(r, j, s)
         PROVE  StepRowInv'
    BY <1>11, CallFacts DEF NoCapacity, callVars, StepRowInv, Unstarted, TypeOK, ProcTypes
  <1>12. ASSUME NEW r \in Replicas, NEW j \in Calls, Renew(r, j) PROVE StepRowInv'
    BY <1>12 DEF Renew, callVars, StepRowInv, Unstarted, TypeOK, ProcTypes
  <1>13. ASSUME NEW r \in Replicas, NEW j \in Calls, Decide(r, j) PROVE StepRowInv'
    BY <1>13 DEF Decide, callVars, StepRowInv, Unstarted, TypeOK, ProcTypes
  <1>14. ASSUME NEW r \in Replicas, NEW j \in Calls, Settle(r, j) PROVE StepRowInv'
    BY <1>14 DEF Settle, callVars, StepRowInv, Unstarted, TypeOK, ProcTypes
  <1>15. ASSUME NEW r \in Replicas, NEW j \in Calls, Retire(r, j) PROVE StepRowInv'
    BY <1>15 DEF Retire, callVars, StepRowInv, Unstarted, TypeOK, ProcTypes
  <1>16. ASSUME NEW r \in Replicas, NEW j \in Calls, Pass(r, j) PROVE StepRowInv'
    BY <1>16 DEF Pass, callVars, StepRowInv, Unstarted, TypeOK, ProcTypes
  <1>17. ASSUME NEW r \in Replicas, NEW j \in Calls, Reported(r, j) PROVE StepRowInv'
    BY <1>17 DEF Reported, callVars, StepRowInv, Unstarted, TypeOK, ProcTypes
  <1>18. ASSUME NEW r \in Replicas, Stall(r) PROVE StepRowInv'
    BY <1>18 DEF Stall, callVars, StepRowInv, Unstarted, TypeOK, ProcTypes
  <1>19. ASSUME NEW r \in Replicas, Wake(r) PROVE StepRowInv'
    BY <1>19 DEF Wake, callVars, StepRowInv, Unstarted, TypeOK, ProcTypes
  <1>20. ASSUME NEW r \in Replicas, Crash(r) PROVE StepRowInv'
    BY <1>20, CallFacts DEF Crash, callVars, StepRowInv, Unstarted, TypeOK, ProcTypes
  <1>21. ASSUME NEW r \in Replicas, Restart(r) PROVE StepRowInv'
    BY <1>21 DEF Restart, callVars, StepRowInv, Unstarted, TypeOK, ProcTypes
  <1>22. CASE Tick
    BY <1>22 DEF Tick, callVars, StepRowInv, Unstarted, TypeOK, ProcTypes
  <1>23. CASE UNCHANGED vars
    BY <1>23 DEF vars, callVars, StepRowInv, Unstarted, TypeOK, ProcTypes
  <1> QED
    BY <1>1, <1>2, <1>3, <1>4, <1>5, <1>6, <1>7, <1>8, <1>9, <1>10, <1>11, <1>12, <1>13, <1>14,
       <1>15, <1>16, <1>17, <1>18, <1>19, <1>20, <1>21, <1>22, <1>23 DEF Next

\* Every step keeps ClaimedInv.
LEMMA ClaimedInvStep ==
  ASSUME TypeOK, RowInv, ClaimedInv, [Next]_vars
  PROVE  ClaimedInv'
PROOF
  <1>1. ASSUME NEW c \in Calls, Evict(c) PROVE ClaimedInv'
    BY <1>1 DEF Evict, rowVars, drvVars, histVars, ClaimedInv, Claimed, TypeOK, DrvTypes
  <1>2. ASSUME NEW c \in Calls, ForgetEvicted(c) PROVE ClaimedInv'
    <2> PICK j \in Calls :
          /\ j \in dropping[c] /\ dropping' = [dropping EXCEPT ![c] = @ \ {j}]
          /\ UNCHANGED <<rowVars, stepRows, inFlightWhenLost>> \/ RowGone(j)
      BY ForgetEvictedEffect, <1>2
    <2> QED
      BY <1>2, CallFacts, ClaimsNames DEF ForgetEvicted, RowGone, rowVars, drvVars, InFlight,
         ClaimedInv, Claimed, TypeOK, RowTypes, DrvTypes
  <1>3. ASSUME NEW c \in Calls, AdmitWon(c) PROVE ClaimedInv'
    <2> DEFINE t == TreeOf[c]
    <2>1. t \in Trees /\ rowJob' = [rowJob EXCEPT ![t] = c] /\ UNCHANGED step
      BY <1>3, CallFacts DEF AdmitWon, RowWon, drvVars
    <2>2. inFlightWhenLost' = inFlightWhenLost \cup InFlight({rowJob[t]} \cap Calls)
      BY <1>3 DEF AdmitWon, Superseded
    <2> HIDE DEF t
    <2>3. ASSUME NEW i \in Calls, NEW s \in Steps, step[i][s] = "claimed"
          PROVE  Claimed(i)' \/ <<i, s>> \in inFlightWhenLost'
      <3>1. CASE rowJob[t] = i
        BY <2>2, <2>3, <3>1 DEF InFlight
      <3>2. CASE rowJob[t] # i
        BY <2>1, <2>2, <2>3, <3>2 DEF ClaimedInv, Claimed, TypeOK, RowTypes
      <3> QED
        BY <3>1, <3>2
    <2> QED
      BY <2>1, <2>3 DEF ClaimedInv
  <1>4. ASSUME NEW c \in Calls, AdmitAttached(c) PROVE ClaimedInv'
    BY <1>4 DEF AdmitAttached, rowVars, drvVars, histVars, ClaimedInv, Claimed, TypeOK, DrvTypes
  <1>5. ASSUME NEW c \in Calls, AdmitFails(c) PROVE ClaimedInv'
    BY <1>5 DEF AdmitFails, rowVars, drvVars, histVars, ClaimedInv, Claimed, TypeOK, DrvTypes
  <1>6. ASSUME NEW c \in Calls, Start(c) PROVE ClaimedInv'
    BY <1>6 DEF Start, rowVars, drvVars, histVars, ClaimedInv, Claimed, TypeOK, DrvTypes
  <1>7. ASSUME NEW c \in Calls, NotDurable(c) PROVE ClaimedInv'
    <2>1. pc[c] = "won" /\ pc' = [pc EXCEPT ![c] = "refused"] /\ UNCHANGED <<fence, drvVars>>
      BY <1>7 DEF NotDurable
    <2>2. CASE UNCHANGED <<rowVars, stepRows, inFlightWhenLost>>
      BY <2>1, <2>2, CallFacts, ClaimsNames DEF RowGone, rowVars, drvVars, InFlight, ClaimedInv,
         Claimed, TypeOK, RowTypes, DrvTypes
    <2>3. CASE RowGone(c)
      BY <2>1, <2>3, CallFacts, ClaimsNames DEF RowGone, rowVars, drvVars, InFlight, ClaimedInv,
         Claimed, TypeOK, RowTypes, DrvTypes
    <2> QED
      BY <1>7, <2>2, <2>3, NotDurableEffect
  <1>8. ASSUME NEW c \in Calls, Attach(c) PROVE ClaimedInv'
    BY <1>8 DEF Attach, rowVars, drvVars, histVars, ClaimedInv, Claimed, TypeOK, DrvTypes
  <1>9. ASSUME NEW r \in Replicas, NEW j \in Calls, NEW s \in Steps, ClaimStep(r, j, s)
        PROVE  ClaimedInv'
    <2>1. \/ Holds(r, j, FenceOf(r, j)) /\ step' = [step EXCEPT ![j][s] = "claimed"]
          \/ UNCHANGED step
      BY <1>9 DEF ClaimStep
    <2>2. UNCHANGED <<rowJob, inFlightWhenLost>>
      BY <1>9 DEF ClaimStep, rowVars
    <2>3. Holds(r, j, FenceOf(r, j)) => Claimed(j)
      BY DEF Holds, Claimed
    <2> QED
      BY <2>1, <2>2, <2>3 DEF ClaimedInv, Claimed, TypeOK, DrvTypes
  <1>10. ASSUME NEW r \in Replicas, NEW j \in Calls, NEW s \in Steps, Assign(r, j, s)
         PROVE  ClaimedInv'
    BY <1>10, CallFacts DEF Assign, rowVars, drvVars, histVars, ClaimedInv, Claimed, TypeOK,
       DrvTypes
  <1>11. ASSUME NEW r \in Replicas, NEW j \in Calls, NEW s \in Steps, NoCapacity(r, j, s)
         PROVE  ClaimedInv'
    BY <1>11, CallFacts DEF NoCapacity, rowVars, drvVars, histVars, ClaimedInv, Claimed, TypeOK,
       DrvTypes
  <1>12. ASSUME NEW r \in Replicas, NEW j \in Calls, Renew(r, j) PROVE ClaimedInv'
    BY <1>12 DEF Renew, rowVars, drvVars, histVars, ClaimedInv, Claimed, TypeOK, DrvTypes
  <1>13. ASSUME NEW r \in Replicas, NEW j \in Calls, Decide(r, j) PROVE ClaimedInv'
    BY <1>13 DEF Decide, rowVars, drvVars, histVars, ClaimedInv, Claimed, TypeOK, DrvTypes
  <1>14. ASSUME NEW r \in Replicas, NEW j \in Calls, Settle(r, j) PROVE ClaimedInv'
    BY <1>14 DEF Settle, rowVars, drvVars, histVars, ClaimedInv, Claimed, TypeOK, DrvTypes
  <1>15. ASSUME NEW r \in Replicas, NEW j \in Calls, Retire(r, j) PROVE ClaimedInv'
    BY <1>15 DEF Retire, rowVars, drvVars, histVars, ClaimedInv, Claimed, TypeOK, DrvTypes
  <1>16. ASSUME NEW r \in Replicas, NEW j \in Calls, Pass(r, j) PROVE ClaimedInv'
    BY <1>16 DEF Pass, rowVars, drvVars, histVars, ClaimedInv, Claimed, TypeOK, DrvTypes
  <1>17. ASSUME NEW r \in Replicas, NEW j \in Calls, Reported(r, j) PROVE ClaimedInv'
    BY <1>17 DEF Reported, rowVars, drvVars, histVars, ClaimedInv, Claimed, TypeOK, DrvTypes
  <1>18. ASSUME NEW r \in Replicas, Stall(r) PROVE ClaimedInv'
    BY <1>18 DEF Stall, rowVars, drvVars, histVars, ClaimedInv, Claimed, TypeOK, DrvTypes
  <1>19. ASSUME NEW r \in Replicas, Wake(r) PROVE ClaimedInv'
    BY <1>19 DEF Wake, rowVars, drvVars, histVars, ClaimedInv, Claimed, TypeOK, DrvTypes
  <1>20. ASSUME NEW r \in Replicas, Crash(r) PROVE ClaimedInv'
    BY <1>20, CallFacts DEF Crash, rowVars, drvVars, histVars, ClaimedInv, Claimed, TypeOK, DrvTypes
  <1>21. ASSUME NEW r \in Replicas, Restart(r) PROVE ClaimedInv'
    BY <1>21 DEF Restart, rowVars, drvVars, histVars, ClaimedInv, Claimed, TypeOK, DrvTypes
  <1>22. CASE Tick
    BY <1>22 DEF Tick, rowVars, drvVars, histVars, ClaimedInv, Claimed, TypeOK, DrvTypes
  <1>23. CASE UNCHANGED vars
    BY <1>23 DEF vars, rowVars, drvVars, histVars, ClaimedInv, Claimed, TypeOK, DrvTypes
  <1> QED
    BY <1>1, <1>2, <1>3, <1>4, <1>5, <1>6, <1>7, <1>8, <1>9, <1>10, <1>11, <1>12, <1>13, <1>14,
       <1>15, <1>16, <1>17, <1>18, <1>19, <1>20, <1>21, <1>22, <1>23 DEF Next

\* What DispatchIsClaimed says.
LEMMA FencedStep ==
  ASSUME TypeOK, RowInv, ClaimedInv, FencedStopsDispatch, [Next]_vars
  PROVE  FencedStopsDispatch'
PROOF
  <1>1. ASSUME NEW c \in Calls, Evict(c) PROVE FencedStopsDispatch'
    BY <1>1 DEF Evict, histVars, FencedStopsDispatch
  <1>2. ASSUME NEW c \in Calls, ForgetEvicted(c) PROVE FencedStopsDispatch'
    BY <1>2, CallFacts DEF ForgetEvicted, Forget, histVars, FencedStopsDispatch
  <1>3. ASSUME NEW c \in Calls, AdmitWon(c) PROVE FencedStopsDispatch'
    BY <1>3, CallFacts DEF AdmitWon, Superseded, histVars, FencedStopsDispatch
  <1>4. ASSUME NEW c \in Calls, AdmitAttached(c) PROVE FencedStopsDispatch'
    BY <1>4 DEF AdmitAttached, histVars, FencedStopsDispatch
  <1>5. ASSUME NEW c \in Calls, AdmitFails(c) PROVE FencedStopsDispatch'
    BY <1>5 DEF AdmitFails, histVars, FencedStopsDispatch
  <1>6. ASSUME NEW c \in Calls, Start(c) PROVE FencedStopsDispatch'
    BY <1>6 DEF Start, histVars, FencedStopsDispatch
  <1>7. ASSUME NEW c \in Calls, NotDurable(c) PROVE FencedStopsDispatch'
    BY <1>7, CallFacts DEF NotDurable, Forget, histVars, FencedStopsDispatch
  <1>8. ASSUME NEW c \in Calls, Attach(c) PROVE FencedStopsDispatch'
    BY <1>8 DEF Attach, histVars, FencedStopsDispatch
  <1>9. ASSUME NEW r \in Replicas, NEW j \in Calls, NEW s \in Steps, ClaimStep(r, j, s)
        PROVE  FencedStopsDispatch'
    BY <1>9 DEF ClaimStep, histVars, FencedStopsDispatch
  <1>10. ASSUME NEW r \in Replicas, NEW j \in Calls, NEW s \in Steps, Assign(r, j, s)
         PROVE  FencedStopsDispatch'
    BY <1>10, CallFacts DEF Assign, histVars, FencedStopsDispatch, ClaimedInv
  <1>11. ASSUME NEW r \in Replicas, NEW j \in Calls, NEW s \in Steps, NoCapacity(r, j, s)
         PROVE  FencedStopsDispatch'
    BY <1>11 DEF NoCapacity, histVars, FencedStopsDispatch
  <1>12. ASSUME NEW r \in Replicas, NEW j \in Calls, Renew(r, j) PROVE FencedStopsDispatch'
    BY <1>12 DEF Renew, histVars, FencedStopsDispatch
  <1>13. ASSUME NEW r \in Replicas, NEW j \in Calls, Decide(r, j) PROVE FencedStopsDispatch'
    BY <1>13 DEF Decide, histVars, FencedStopsDispatch
  <1>14. ASSUME NEW r \in Replicas, NEW j \in Calls, Settle(r, j) PROVE FencedStopsDispatch'
    BY <1>14 DEF Settle, histVars, FencedStopsDispatch
  <1>15. ASSUME NEW r \in Replicas, NEW j \in Calls, Retire(r, j) PROVE FencedStopsDispatch'
    BY <1>15 DEF Retire, histVars, FencedStopsDispatch
  <1>16. ASSUME NEW r \in Replicas, NEW j \in Calls, Pass(r, j) PROVE FencedStopsDispatch'
    BY <1>16 DEF Pass, histVars, FencedStopsDispatch
  <1>17. ASSUME NEW r \in Replicas, NEW j \in Calls, Reported(r, j) PROVE FencedStopsDispatch'
    BY <1>17 DEF Reported, histVars, FencedStopsDispatch
  <1>18. ASSUME NEW r \in Replicas, Stall(r) PROVE FencedStopsDispatch'
    BY <1>18 DEF Stall, histVars, FencedStopsDispatch
  <1>19. ASSUME NEW r \in Replicas, Wake(r) PROVE FencedStopsDispatch'
    BY <1>19 DEF Wake, histVars, FencedStopsDispatch
  <1>20. ASSUME NEW r \in Replicas, Crash(r) PROVE FencedStopsDispatch'
    BY <1>20 DEF Crash, histVars, FencedStopsDispatch
  <1>21. ASSUME NEW r \in Replicas, Restart(r) PROVE FencedStopsDispatch'
    BY <1>21 DEF Restart, histVars, FencedStopsDispatch
  <1>22. CASE Tick
    BY <1>22 DEF Tick, histVars, FencedStopsDispatch
  <1>23. CASE UNCHANGED vars
    BY <1>23 DEF vars, histVars, FencedStopsDispatch
  <1> QED
    BY <1>1, <1>2, <1>3, <1>4, <1>5, <1>6, <1>7, <1>8, <1>9, <1>10, <1>11, <1>12, <1>13, <1>14,
       <1>15, <1>16, <1>17, <1>18, <1>19, <1>20, <1>21, <1>22, <1>23 DEF Next

\* Every step keeps Used.
LEMMA UsedStep ==
  ASSUME TypeOK, FenceInv, LeaseInv, StepRowInv, ClaimIsUsed, [Next]_vars
  PROVE  ClaimIsUsed'
PROOF
  <1>1. ASSUME NEW c \in Calls, Evict(c) PROVE ClaimIsUsed'
    BY <1>1 DEF Evict, drvVars, histVars, ClaimIsUsed, Leased, TypeOK, ProcTypes, DrvTypes
  <1>2. ASSUME NEW c \in Calls, ForgetEvicted(c) PROVE ClaimIsUsed'
    BY <1>2, CallFacts DEF ForgetEvicted, Forget, drvVars, histVars, ClaimIsUsed, Leased, TypeOK,
       ProcTypes, DrvTypes
  <1>3. ASSUME NEW c \in Calls, AdmitWon(c) PROVE ClaimIsUsed'
    BY <1>3, CallFacts DEF AdmitWon, drvVars, histVars, ClaimIsUsed, Leased, TypeOK, ProcTypes,
       DrvTypes, Swept
  <1>4. ASSUME NEW c \in Calls, AdmitAttached(c) PROVE ClaimIsUsed'
    BY <1>4 DEF AdmitAttached, drvVars, histVars, ClaimIsUsed, Leased, TypeOK, ProcTypes, DrvTypes
  <1>5. ASSUME NEW c \in Calls, AdmitFails(c) PROVE ClaimIsUsed'
    BY <1>5 DEF AdmitFails, drvVars, histVars, ClaimIsUsed, Leased, TypeOK, ProcTypes, DrvTypes
  <1>6. ASSUME NEW c \in Calls, Start(c) PROVE ClaimIsUsed'
    <2>1. ASSUME NEW k \in stepRows
          PROVE  k[1] # c /\ k[1] \in Calls
      BY <1>6 DEF Start, StepRowInv, Unstarted, TypeOK, ProcTypes
    <2> QED
      BY <1>6, <2>1, CallFacts DEF Start, histVars, ClaimIsUsed, Leased, TypeOK, ProcTypes, DrvTypes
  <1>7. ASSUME NEW c \in Calls, NotDurable(c) PROVE ClaimIsUsed'
    BY <1>7, CallFacts DEF NotDurable, Forget, drvVars, histVars, ClaimIsUsed, Leased, TypeOK,
       ProcTypes, DrvTypes
  <1>8. ASSUME NEW c \in Calls, Attach(c) PROVE ClaimIsUsed'
    BY <1>8 DEF Attach, drvVars, histVars, ClaimIsUsed, Leased, TypeOK, ProcTypes, DrvTypes
  <1>9. ASSUME NEW r \in Replicas, NEW j \in Calls, NEW s \in Steps, ClaimStep(r, j, s)
        PROVE  ClaimIsUsed'
    <2>1. UNCHANGED drv
      BY <1>9 DEF ClaimStep
    <2>2. CASE /\ stepRows' = stepRows \cup {<<j, s, r, FenceOf(r, j)>>} /\ UNCHANGED leases
               /\ \/ step' = [step EXCEPT ![j][s] = "claimed"] /\ UNCHANGED strayClaims
                  \/ strayClaims' = strayClaims \cup {<<j, s>>} /\ UNCHANGED step
      BY <2>1, <2>2 DEF ClaimIsUsed, Leased, TypeOK, ProcTypes, DrvTypes
    <2>3. CASE leases' = WithoutLease(r, j) /\ UNCHANGED <<stepRows, step, strayClaims>>
      BY <2>1, <2>3 DEF ClaimIsUsed, Leased, WithoutLease, TypeOK, ProcTypes
    <2> QED
      BY <1>9, <2>2, <2>3 DEF ClaimStep
  <1>10. ASSUME NEW r \in Replicas, NEW j \in Calls, NEW s \in Steps, Assign(r, j, s)
         PROVE  ClaimIsUsed'
    BY <1>10, CallFacts DEF Assign, drvVars, histVars, ClaimIsUsed, Leased, TypeOK, ProcTypes,
       DrvTypes
  <1>11. ASSUME NEW r \in Replicas, NEW j \in Calls, NEW s \in Steps, NoCapacity(r, j, s)
         PROVE  ClaimIsUsed'
    <2>1. ASSUME NEW k \in stepRows', (\E q \in Replicas : Leased(q, k[1])'),
                 drv'[k[1]] = "drive", step'[k[1]][k[2]] = "ready"
          PROVE  <<k[1], k[2]>> \in strayClaims'
      <3>1. k \in stepRows /\ k \in Calls \X Steps \X Replicas \X Nat /\ UNCHANGED <<leases, drv>>
        BY <1>11 DEF NoCapacity, TypeOK, ProcTypes
      <3>2. CASE k[1] = j /\ k[2] = s
        <4>1. k = <<j, s, r, fence[j]>>
          BY <1>11, <3>1, <3>2 DEF NoCapacity, StepRowInv
        <4> QED
          BY <1>11, <3>1, <4>1 DEF NoCapacity
      <3>3. CASE ~(k[1] = j /\ k[2] = s)
        <4>1. step[k[1]][k[2]] = "ready"
          BY <1>11, <2>1, <3>1, <3>3 DEF NoCapacity, TypeOK, DrvTypes
        <4>2. <<k[1], k[2]>> \in strayClaims
          BY <2>1, <3>1, <4>1 DEF ClaimIsUsed, Leased
        <4> QED
          BY <1>11, <4>2 DEF NoCapacity
      <3> QED
        BY <3>2, <3>3
    <2> QED
      BY <2>1 DEF ClaimIsUsed
  <1>12. ASSUME NEW r \in Replicas, NEW j \in Calls, Renew(r, j) PROVE ClaimIsUsed'
    <2>1. UNCHANGED <<stepRows, drv, step, strayClaims>> /\ (leases' = leases \/ leases' = WithoutLease(r, j))
      BY <1>12 DEF Renew, histVars
    <2> QED
      BY <2>1 DEF ClaimIsUsed, Leased, WithoutLease, TypeOK, ProcTypes
  <1>13. ASSUME NEW r \in Replicas, NEW j \in Calls, Decide(r, j) PROVE ClaimIsUsed'
    BY <1>13, CallFacts DEF Decide, drvVars, histVars, ClaimIsUsed, Leased, TypeOK, ProcTypes,
       DrvTypes
  <1>14. ASSUME NEW r \in Replicas, NEW j \in Calls, Settle(r, j) PROVE ClaimIsUsed'
    BY <1>14, CallFacts DEF Settle, drvVars, histVars, ClaimIsUsed, Leased, TypeOK, ProcTypes,
       DrvTypes
  <1>15. ASSUME NEW r \in Replicas, NEW j \in Calls, Retire(r, j) PROVE ClaimIsUsed'
    BY <1>15, CallFacts DEF Retire, WithoutLease, drvVars, histVars, ClaimIsUsed, Leased, TypeOK,
       ProcTypes, DrvTypes
  <1>16. ASSUME NEW r \in Replicas, NEW j \in Calls, Pass(r, j) PROVE ClaimIsUsed'
    BY <1>16 DEF Pass, drvVars, histVars, ClaimIsUsed, Leased, TypeOK, ProcTypes, DrvTypes
  <1>17. ASSUME NEW r \in Replicas, NEW j \in Calls, Reported(r, j) PROVE ClaimIsUsed'
    BY <1>17 DEF Reported, drvVars, histVars, ClaimIsUsed, Leased, TypeOK, ProcTypes, DrvTypes
  <1>18. ASSUME NEW r \in Replicas, Stall(r) PROVE ClaimIsUsed'
    BY <1>18 DEF Stall, drvVars, histVars, ClaimIsUsed, Leased, TypeOK, ProcTypes, DrvTypes
  <1>19. ASSUME NEW r \in Replicas, Wake(r) PROVE ClaimIsUsed'
    BY <1>19 DEF Wake, drvVars, histVars, ClaimIsUsed, Leased, TypeOK, ProcTypes, DrvTypes
  <1>20. ASSUME NEW r \in Replicas, Crash(r) PROVE ClaimIsUsed'
    BY <1>20, CallFacts DEF Crash, drvVars, histVars, ClaimIsUsed, Leased, TypeOK, ProcTypes,
       DrvTypes
  <1>21. ASSUME NEW r \in Replicas, Restart(r) PROVE ClaimIsUsed'
    BY <1>21 DEF Restart, drvVars, histVars, ClaimIsUsed, Leased, TypeOK, ProcTypes, DrvTypes
  <1>22. CASE Tick
    BY <1>22 DEF Tick, drvVars, histVars, ClaimIsUsed, Leased, TypeOK, ProcTypes, DrvTypes
  <1>23. CASE UNCHANGED vars
    BY <1>23 DEF vars, drvVars, histVars, ClaimIsUsed, Leased, TypeOK, ProcTypes, DrvTypes
  <1> QED
    BY <1>1, <1>2, <1>3, <1>4, <1>5, <1>6, <1>7, <1>8, <1>9, <1>10, <1>11, <1>12, <1>13, <1>14,
       <1>15, <1>16, <1>17, <1>18, <1>19, <1>20, <1>21, <1>22, <1>23 DEF Next

\* Every step keeps BeatInv.
LEMMA BeatInvStep ==
  ASSUME TypeOK, RowInv, UnstartedInv, LeaseInv, BeatInv, [Next]_vars
  PROVE  BeatInv'
PROOF
  <1>1. ASSUME NEW c \in Calls, Evict(c) PROVE BeatInv'
    BY <1>1, CallFacts DEF Evict, rowVars, callVars, drvVars, BeatInv, Punctual, Stalled, Leased,
       Up, Clock, TypeOK, CallTypes
  <1>2. ASSUME NEW c \in Calls, ForgetEvicted(c) PROVE BeatInv'
    <2> PICK j \in Calls :
          /\ j \in dropping[c] /\ dropping' = [dropping EXCEPT ![c] = @ \ {j}]
          /\ UNCHANGED <<rowVars, stepRows, inFlightWhenLost>> \/ RowGone(j)
      BY ForgetEvictedEffect, <1>2
    <2> QED
      BY <1>2, CallFacts DEF ForgetEvicted, RowGone, rowVars, drvVars, BeatInv, Punctual, Stalled,
         Leased, Up, Clock, TypeOK, RowTypes
  <1>3. ASSUME NEW c \in Calls, AdmitWon(c) PROVE BeatInv'
    <2> DEFINE t == TreeOf[c]
    <2>1. /\ t \in Trees /\ rowJob' = [rowJob EXCEPT ![t] = c]
          /\ rowExpires' = [rowExpires EXCEPT ![t] = Clock(ReplicaOf[c]) + Lease]
          /\ Up(ReplicaOf[c]) /\ pc[c] \in {"idle", "evicted"}
          /\ UNCHANGED <<now, life, leases, drvVars>>
      BY <1>3, CallFacts DEF AdmitWon, RowWon, Admitting
    <2>2. \A i \in Calls : i # c => pc'[i] = pc[i]
      BY <1>3 DEF AdmitWon, TypeOK, CallTypes
    <2>3. drv[c] = "none" /\ rowExpires'[t] = Clock(ReplicaOf[c])' + Lease /\ Clock(ReplicaOf[c])' + Lease \in Nat
      BY <2>1, ClockNat, CallFacts DEF UnstartedInv, Unstarted, Clock, TypeOK, RowTypes
    <2>4. (pc'[c] = "won" => rowExpires'[t] >= Clock(ReplicaOf[c])' + Lease) /\ drv'[c] # "drive"
      BY <2>1, <2>3 DEF drvVars
    <2>5. life[ReplicaOf[c]] = "up"
      BY <2>1 DEF Up
    <2> HIDE DEF t
    <2>6. ASSUME NEW i \in Calls, i # c
          PROVE  /\ life'[ReplicaOf[i]] = "stalled" => Stalled(i)'
                 /\ life'[ReplicaOf[i]] = "down" => pc'[i] # "won" /\ ~Leased(ReplicaOf[i], i)'
                 /\ Up(ReplicaOf[i])' /\ rowJob'[TreeOf[i]] = i /\ ~Stalled(i)' => Punctual(i)'
      BY <2>1, <2>2, <2>6, CallFacts DEF drvVars, BeatInv, Punctual, Stalled, Leased, Up, Clock,
         TypeOK, RowTypes
    <2>7. (life'[ReplicaOf[c]] = "up") /\ Punctual(c)'
      BY <2>1, <2>4, <2>5 DEF Punctual, t
    <2> QED
      BY <2>6, <2>7 DEF BeatInv
  <1>4. ASSUME NEW c \in Calls, AdmitAttached(c) PROVE BeatInv'
    BY <1>4, CallFacts DEF AdmitAttached, rowVars, callVars, drvVars, BeatInv, Punctual, Stalled,
       Leased, Up, Clock, TypeOK, CallTypes
  <1>5. ASSUME NEW c \in Calls, AdmitFails(c) PROVE BeatInv'
    BY <1>5, CallFacts DEF AdmitFails, rowVars, callVars, drvVars, BeatInv, Punctual, Stalled,
       Leased, Up, Clock, TypeOK, CallTypes
  <1>6. ASSUME NEW c \in Calls, Start(c) PROVE BeatInv'
    <2> DEFINE r == ReplicaOf[c]
    <2>1. /\ pc[c] = "won" /\ Up(r) /\ r \in Replicas
          /\ pc' = [pc EXCEPT ![c] = "acked"] /\ leases' = [leases EXCEPT ![r] = @ \cup {<<c, fence[c]>>}]
          /\ drv' = [drv EXCEPT ![c] = "drive"] /\ beat' = [beat EXCEPT ![c] = now + Every]
          /\ UNCHANGED <<now, rowJob, rowExpires, life, missed>>
      BY <1>6, CallFacts DEF Start, rowVars
    <2>2. ASSUME NEW i \in Calls, i # c
          PROVE  /\ life'[ReplicaOf[i]] = "stalled" => Stalled(i)'
                 /\ life'[ReplicaOf[i]] = "down" => pc'[i] # "won" /\ ~Leased(ReplicaOf[i], i)'
                 /\ Up(ReplicaOf[i])' /\ rowJob'[TreeOf[i]] = i /\ ~Stalled(i)' => Punctual(i)'
      <3>1. Leased(ReplicaOf[i], i)' => Leased(ReplicaOf[i], i)
        BY <2>1, <2>2, CallFacts DEF Leased, TypeOK, ProcTypes
      <3>2. drv'[i] = drv[i] /\ beat'[i] = beat[i] /\ pc'[i] = pc[i]
        BY <2>1, <2>2 DEF TypeOK, CallTypes, DrvTypes
      <3> QED
        BY <2>1, <3>1, <3>2, CallFacts DEF BeatInv, Punctual, Stalled, Up, Clock
    <2>3. ASSUME rowJob[TreeOf[c]] = c, ~Stalled(c)
          PROVE  rowExpires[TreeOf[c]] + (missed[c] + 1) * Every >= now + Every + Skew[r] + Lease
      <3>1. rowExpires[TreeOf[c]] >= now + Skew[r] + Lease
        BY <2>1, <2>3 DEF BeatInv, Punctual, Clock
      <3>2. /\ rowExpires[TreeOf[c]] \in Nat /\ missed[c] \in Nat /\ Every \in Nat /\ now \in Nat
            /\ Skew[r] \in Nat /\ Lease \in Nat
        BY <2>1, CallFacts, ClaimsAssumption DEF TypeOK, RowTypes, DrvTypes, ProcTypes
      <3>3. missed[c] * Every \in Nat /\ (missed[c] + 1) * Every = missed[c] * Every + Every
        BY <3>2
      <3> QED
        BY <3>1, <3>2, <3>3
    <2>4. pc'[c] = "acked" /\ beat'[c] = now + Every /\ now + Every >= now /\ life[r] = "up"
      BY <2>1, ClaimsAssumption DEF Up, TypeOK, CallTypes, DrvTypes, ProcTypes
    <2>5. rowJob'[TreeOf[c]] = c /\ ~Stalled(c)' => Punctual(c)'
      BY <2>1, <2>3, <2>4 DEF Punctual, Stalled
    <2> QED
      BY <2>1, <2>2, <2>4, <2>5 DEF BeatInv
  <1>7. ASSUME NEW c \in Calls, NotDurable(c) PROVE BeatInv'
    <2>1. pc' = [pc EXCEPT ![c] = "refused"] /\ UNCHANGED <<now, life, leases, drvVars>>
      BY <1>7 DEF NotDurable
    <2>2. CASE UNCHANGED <<rowVars, stepRows, inFlightWhenLost>>
      BY <2>1, <2>2, CallFacts DEF rowVars, drvVars, BeatInv, Punctual, Stalled, Leased, Up,
         Clock, TypeOK, CallTypes
    <2>3. CASE RowGone(c)
      BY <2>1, <2>3, CallFacts DEF RowGone, drvVars, BeatInv, Punctual, Stalled, Leased, Up,
         Clock, TypeOK, RowTypes, CallTypes
    <2> QED
      BY <1>7, <2>2, <2>3, NotDurableEffect
  <1>8. ASSUME NEW c \in Calls, Attach(c) PROVE BeatInv'
    BY <1>8, CallFacts DEF Attach, rowVars, callVars, drvVars, BeatInv, Punctual, Stalled, Leased,
       Up, Clock, TypeOK, CallTypes
  <1>9. ASSUME NEW r \in Replicas, NEW j \in Calls, NEW s \in Steps, ClaimStep(r, j, s)
        PROVE  BeatInv'
    <2>1. UNCHANGED <<now, life, pc, rowJob, rowExpires, missed, drv, beat>> /\ (leases' = leases \/ leases' = WithoutLease(r, j))
      BY <1>9 DEF ClaimStep, rowVars, callVars
    <2>2. \A q \in Replicas, i \in Calls : Leased(q, i)' => Leased(q, i)
      BY <2>1 DEF Leased, WithoutLease, TypeOK, ProcTypes
    <2> QED
      BY <2>1, <2>2, CallFacts DEF BeatInv, Punctual, Stalled, Up, Clock
  <1>10. ASSUME NEW r \in Replicas, NEW j \in Calls, NEW s \in Steps, Assign(r, j, s)
         PROVE  BeatInv'
    BY <1>10 DEF Assign, rowVars, callVars, drvVars, BeatInv, Punctual, Stalled, Leased, Up, Clock
  <1>11. ASSUME NEW r \in Replicas, NEW j \in Calls, NEW s \in Steps, NoCapacity(r, j, s)
         PROVE  BeatInv'
    BY <1>11 DEF NoCapacity, rowVars, callVars, drvVars, BeatInv, Punctual, Stalled, Leased, Up,
       Clock
  <1>12. ASSUME NEW r \in Replicas, NEW j \in Calls, Renew(r, j) PROVE BeatInv'
    <2>1. UNCHANGED <<now, life, pc, rowJob, drv>> /\ beat' = [beat EXCEPT ![j] = now + Every]
      BY <1>12 DEF Renew, callVars
    <2>2. leases' = leases \/ leases' = WithoutLease(r, j)
      BY <1>12 DEF Renew
    <2>3. \A q \in Replicas, i \in Calls : Leased(q, i)' => Leased(q, i)
      BY <2>2 DEF Leased, WithoutLease, TypeOK, ProcTypes
    <2>4. r = ReplicaOf[j] /\ life[r] = "up" /\ beat[j] <= now /\ drv[j] # "none" /\ Leased(r, j)
      BY <1>12 DEF Renew, Up
    <2>5. ASSUME NEW i \in Calls, i # j
          PROVE  /\ life'[ReplicaOf[i]] = "stalled" => Stalled(i)'
                 /\ life'[ReplicaOf[i]] = "down" => pc'[i] # "won" /\ ~Leased(ReplicaOf[i], i)'
                 /\ Up(ReplicaOf[i])' /\ rowJob'[TreeOf[i]] = i /\ ~Stalled(i)' => Punctual(i)'
      <3>1. beat'[i] = beat[i] /\ missed'[i] = missed[i]
        BY <1>12, <2>5 DEF Renew, TypeOK, DrvTypes
      <3>2. rowJob[TreeOf[i]] = i => rowExpires'[TreeOf[i]] = rowExpires[TreeOf[i]]
        BY <1>12, <2>5, CallFacts DEF Renew, TypeOK, RowTypes
      <3> QED
        BY <2>1, <2>3, <3>1, <3>2, CallFacts DEF BeatInv, Punctual, Stalled, Up, Clock
    <2>6. ASSUME rowJob[TreeOf[j]] = j, ~Stalled(j)', drv[j] = "drive", Leased(r, j)'
          PROVE  rowExpires'[TreeOf[j]] + (missed'[j] + 1) * Every >= now + Every + Skew[r] + Lease
      <3>1. /\ rowExpires[TreeOf[j]] \in Nat /\ missed[j] \in Nat /\ Every \in Nat /\ now \in Nat /\ beat[j] \in Nat
            /\ Skew[r] \in Nat /\ Lease \in Nat /\ TreeOf[j] \in Trees
        BY CallFacts, ClaimsAssumption DEF TypeOK, RowTypes, DrvTypes, ProcTypes
      <3>2. CASE rowExpires'[TreeOf[j]] = now + Skew[r] + Lease /\ missed'[j] = 0
        BY <3>1, <3>2
      <3>3. CASE rowExpires'[TreeOf[j]] = rowExpires[TreeOf[j]] /\ missed'[j] = missed[j] + 1
        <4>1. ~Stalled(j)
          BY <2>4, <2>6, <3>1, <3>3 DEF Stalled
        <4>2. beat[j] >= now /\ rowExpires[TreeOf[j]] + (missed[j] + 1) * Every >= beat[j] + Skew[r] + Lease
          BY <2>4, <2>6, <4>1 DEF BeatInv, Punctual, Up
        <4>3. (missed[j] + 1 + 1) * Every = (missed[j] + 1) * Every + Every /\ (missed[j] + 1) * Every \in Nat
          BY <3>1
        <4> HIDE DEF Stalled
        <4> QED
          BY <3>1, <3>3, <4>2, <4>3
      <3>4. CASE leases' = WithoutLease(r, j)
        BY <2>6, <3>4 DEF WithoutLease, Leased, TypeOK, ProcTypes
      <3> QED
        BY <1>12, <2>6, <3>1, <3>2, <3>3, <3>4 DEF Renew, Clock, TypeOK, RowTypes, DrvTypes
    <2>7. beat'[j] = now + Every /\ now + Every >= now
      BY <2>1, ClaimsAssumption DEF TypeOK, DrvTypes, ProcTypes
    <2>8. pc[j] # "won"
      BY <2>4 DEF UnstartedInv, Unstarted
    <2>9. rowJob'[TreeOf[j]] = j /\ ~Stalled(j)' => Punctual(j)'
      BY <2>1, <2>4, <2>6, <2>7, <2>8 DEF Punctual
    <2> QED
      BY <2>1, <2>4, <2>5, <2>9 DEF BeatInv
  <1>13. ASSUME NEW r \in Replicas, NEW j \in Calls, Decide(r, j) PROVE BeatInv'
    BY <1>13, CallFacts DEF Decide, rowVars, callVars, drvVars, BeatInv, Punctual, Stalled,
       Leased, Up, Clock, TypeOK, DrvTypes
  <1>14. ASSUME NEW r \in Replicas, NEW j \in Calls, Settle(r, j) PROVE BeatInv'
    BY <1>14, CallFacts DEF Settle, rowVars, callVars, drvVars, BeatInv, Punctual, Stalled,
       Leased, Up, Clock, TypeOK, DrvTypes
  <1>15. ASSUME NEW r \in Replicas, NEW j \in Calls, Retire(r, j) PROVE BeatInv'
    <2>1. UNCHANGED <<now, life, pc, rowJob, rowExpires, missed, beat>> /\ leases' = WithoutLease(r, j)
      BY <1>15 DEF Retire, rowVars, callVars
    <2>2. \A q \in Replicas, i \in Calls : Leased(q, i)' => Leased(q, i)
      BY <2>1 DEF Leased, WithoutLease, TypeOK, ProcTypes
    <2>3. \A i \in Calls : drv'[i] = "drive" => drv[i] = "drive"
      BY <1>15 DEF Retire, TypeOK, DrvTypes
    <2> QED
      BY <2>1, <2>2, <2>3, CallFacts DEF BeatInv, Punctual, Stalled, Up, Clock
  <1>16. ASSUME NEW r \in Replicas, NEW j \in Calls, Pass(r, j) PROVE BeatInv'
    BY <1>16 DEF Pass, rowVars, callVars, drvVars, BeatInv, Punctual, Stalled, Leased, Up, Clock
  <1>17. ASSUME NEW r \in Replicas, NEW j \in Calls, Reported(r, j) PROVE BeatInv'
    BY <1>17 DEF Reported, rowVars, callVars, drvVars, BeatInv, Punctual, Stalled, Leased, Up, Clock
  <1>18. ASSUME NEW r \in Replicas, Stall(r) PROVE BeatInv'
    <2>1. ASSUME NEW i \in Calls
          PROVE  IF ReplicaOf[i] = r THEN life'[ReplicaOf[i]] = "stalled" /\ Stalled(i)'
                 ELSE life'[ReplicaOf[i]] = life[ReplicaOf[i]] /\ missed'[i] = missed[i]
      <3>1. Lease + Skew[r] >= Lease + Skew[r]
        BY ClaimsAssumption
      <3> QED
        BY <1>18, <3>1, CallFacts DEF Stall, Stalled, TypeOK, ProcTypes, DrvTypes
    <2> QED
      BY <1>18, <2>1, CallFacts DEF Stall, rowVars, callVars, drvVars, BeatInv, Punctual, Stalled,
         Leased, Up, Clock
  <1>19. ASSUME NEW r \in Replicas, Wake(r) PROVE BeatInv'
    BY <1>19, CallFacts DEF Wake, rowVars, callVars, drvVars, BeatInv, Punctual, Stalled, Leased,
       Up, Clock, TypeOK, ProcTypes
  <1>20. ASSUME NEW r \in Replicas, Crash(r) PROVE BeatInv'
    <2>1. ASSUME NEW i \in Calls
          PROVE  IF ReplicaOf[i] = r THEN life'[ReplicaOf[i]] = "down" /\ pc'[i] # "won" /\ leases'[r] = {}
                 ELSE /\ life'[ReplicaOf[i]] = life[ReplicaOf[i]] /\ pc'[i] = pc[i] /\ drv'[i] = drv[i]
                      /\ leases'[ReplicaOf[i]] = leases[ReplicaOf[i]]
      BY <1>20, CallFacts DEF Crash, TypeOK, ProcTypes, CallTypes
    <2>2. UNCHANGED <<now, rowJob, rowExpires, missed, beat>>
      BY <1>20 DEF Crash, rowVars
    <2> QED
      BY <2>1, <2>2, CallFacts DEF BeatInv, Punctual, Stalled, Leased, Up, Clock
  <1>21. ASSUME NEW r \in Replicas, Restart(r) PROVE BeatInv'
    BY <1>21, CallFacts DEF Restart, rowVars, callVars, drvVars, BeatInv, Punctual, Stalled,
       Leased, Up, Clock, TypeOK, ProcTypes
  <1>22. CASE Tick
    <2>1. ASSUME NEW i \in Calls, Up(ReplicaOf[i]), Leased(ReplicaOf[i], i), drv[i] = "drive"
          PROVE  beat[i] >= now + 1
      <3>1. beat[i] > now
        BY <1>22, <2>1, CallFacts DEF Tick, Leased
      <3> QED
        BY <3>1 DEF TypeOK, DrvTypes, ProcTypes
    <2>2. \A i \in Calls : Up(ReplicaOf[i]) => pc[i] # "won"
      BY <1>22, CallFacts DEF Tick
    <2>3. now' = now + 1 /\ UNCHANGED <<rowVars, life, leases, callVars, drvVars>>
      BY <1>22 DEF Tick
    <2> QED
      BY <2>1, <2>2, <2>3, CallFacts DEF rowVars, callVars, drvVars, BeatInv, Punctual, Stalled,
         Leased, Up, Clock
  <1>23. CASE UNCHANGED vars
    BY <1>23 DEF vars, rowVars, callVars, drvVars, BeatInv, Punctual, Stalled, Leased, Up, Clock
  <1> QED
    BY <1>1, <1>2, <1>3, <1>4, <1>5, <1>6, <1>7, <1>8, <1>9, <1>10, <1>11, <1>12, <1>13, <1>14,
       <1>15, <1>16, <1>17, <1>18, <1>19, <1>20, <1>21, <1>22, <1>23 DEF Next

\* What LiveDriverKeepsItsTree says.
LEMMA LiveDriverStep ==
  ASSUME TypeOK, RowInv, BeatInv, LiveDriverKeepsItsTree, [Next]_vars
  PROVE  LiveDriverKeepsItsTree'
PROOF
  <1>1. ASSUME NEW c \in Calls, Evict(c) PROVE LiveDriverKeepsItsTree'
    BY <1>1 DEF Evict, histVars, LiveDriverKeepsItsTree
  <1>2. ASSUME NEW c \in Calls, ForgetEvicted(c) PROVE LiveDriverKeepsItsTree'
    BY <1>2 DEF ForgetEvicted, histVars, LiveDriverKeepsItsTree
  <1>3. ASSUME NEW c \in Calls, AdmitWon(c) PROVE LiveDriverKeepsItsTree'
    <2> DEFINE r == ReplicaOf[c] t == TreeOf[c]
    <2>1. r \in Replicas /\ t \in Trees /\ (rowJob[t] = NoJob \/ Takeover(r, t)) /\ Superseded(r, t)
      BY <1>3, CallFacts DEF AdmitWon
    <2> HIDE DEF r, t
    <2>2. ASSUME NEW i \in Calls, i = rowJob[t], rowVerdict[t] = NoVerdict,
                 Up(rowOwner[t]), Leased(rowOwner[t], i), drv[i] = "drive",
                 (missed[i] + 1) * Every + Skew[r] <= Lease + Skew[rowOwner[t]]
          PROVE  FALSE
      <3> DEFINE o == ReplicaOf[i]
      <3>1. rowOwner[t] = o /\ TreeOf[i] = t /\ rowExpires[t] < now + Skew[r] /\ o \in Replicas
        BY <2>1, <2>2, CallFacts DEF RowInv, Takeover, AgedOut, Clock
      <3> HIDE DEF o
      <3>2. /\ rowExpires[t] \in Nat /\ missed[i] \in Nat /\ now \in Nat /\ beat[i] \in Nat
            /\ Skew[r] \in Nat /\ Skew[o] \in Nat /\ Lease \in Nat /\ Every \in Nat \ {0}
        BY <2>1, <3>1, ClaimsAssumption DEF TypeOK, RowTypes, DrvTypes, ProcTypes
      <3>3. (missed[i] + 1) * Every \in Nat /\ (missed[i] + 1) * Every >= missed[i] + 1
        <4>1. missed[i] * Every >= missed[i] /\ (missed[i] + 1) * Every = missed[i] * Every + Every
          BY <3>2
        <4> QED
          BY <3>2, <4>1
      <3>4. ~(missed[i] >= Lease + Skew[o])
        BY <2>2, <3>1, <3>2, <3>3
      <3>5. beat[i] >= now /\ rowExpires[t] + (missed[i] + 1) * Every >= beat[i] + Skew[o] + Lease
        BY <2>2, <3>1, <3>4 DEF BeatInv, Punctual, Stalled, o
      <3> QED
        BY <2>2, <3>1, <3>2, <3>3, <3>5
    <2> QED
      BY <2>1, <2>2 DEF Superseded, LiveDriverKeepsItsTree
  <1>4. ASSUME NEW c \in Calls, AdmitAttached(c) PROVE LiveDriverKeepsItsTree'
    BY <1>4 DEF AdmitAttached, histVars, LiveDriverKeepsItsTree
  <1>5. ASSUME NEW c \in Calls, AdmitFails(c) PROVE LiveDriverKeepsItsTree'
    BY <1>5 DEF AdmitFails, histVars, LiveDriverKeepsItsTree
  <1>6. ASSUME NEW c \in Calls, Start(c) PROVE LiveDriverKeepsItsTree'
    BY <1>6 DEF Start, histVars, LiveDriverKeepsItsTree
  <1>7. ASSUME NEW c \in Calls, NotDurable(c) PROVE LiveDriverKeepsItsTree'
    BY <1>7 DEF NotDurable, histVars, LiveDriverKeepsItsTree
  <1>8. ASSUME NEW c \in Calls, Attach(c) PROVE LiveDriverKeepsItsTree'
    BY <1>8 DEF Attach, histVars, LiveDriverKeepsItsTree
  <1>9. ASSUME NEW r \in Replicas, NEW j \in Calls, NEW s \in Steps, ClaimStep(r, j, s)
        PROVE  LiveDriverKeepsItsTree'
    BY <1>9 DEF ClaimStep, histVars, LiveDriverKeepsItsTree
  <1>10. ASSUME NEW r \in Replicas, NEW j \in Calls, NEW s \in Steps, Assign(r, j, s)
         PROVE  LiveDriverKeepsItsTree'
    BY <1>10 DEF Assign, histVars, LiveDriverKeepsItsTree
  <1>11. ASSUME NEW r \in Replicas, NEW j \in Calls, NEW s \in Steps, NoCapacity(r, j, s)
         PROVE  LiveDriverKeepsItsTree'
    BY <1>11 DEF NoCapacity, histVars, LiveDriverKeepsItsTree
  <1>12. ASSUME NEW r \in Replicas, NEW j \in Calls, Renew(r, j) PROVE LiveDriverKeepsItsTree'
    BY <1>12 DEF Renew, histVars, LiveDriverKeepsItsTree
  <1>13. ASSUME NEW r \in Replicas, NEW j \in Calls, Decide(r, j) PROVE LiveDriverKeepsItsTree'
    BY <1>13 DEF Decide, histVars, LiveDriverKeepsItsTree
  <1>14. ASSUME NEW r \in Replicas, NEW j \in Calls, Settle(r, j) PROVE LiveDriverKeepsItsTree'
    BY <1>14 DEF Settle, histVars, LiveDriverKeepsItsTree
  <1>15. ASSUME NEW r \in Replicas, NEW j \in Calls, Retire(r, j) PROVE LiveDriverKeepsItsTree'
    BY <1>15 DEF Retire, histVars, LiveDriverKeepsItsTree
  <1>16. ASSUME NEW r \in Replicas, NEW j \in Calls, Pass(r, j) PROVE LiveDriverKeepsItsTree'
    BY <1>16 DEF Pass, histVars, LiveDriverKeepsItsTree
  <1>17. ASSUME NEW r \in Replicas, NEW j \in Calls, Reported(r, j) PROVE LiveDriverKeepsItsTree'
    BY <1>17 DEF Reported, histVars, LiveDriverKeepsItsTree
  <1>18. ASSUME NEW r \in Replicas, Stall(r) PROVE LiveDriverKeepsItsTree'
    BY <1>18 DEF Stall, histVars, LiveDriverKeepsItsTree
  <1>19. ASSUME NEW r \in Replicas, Wake(r) PROVE LiveDriverKeepsItsTree'
    BY <1>19 DEF Wake, histVars, LiveDriverKeepsItsTree
  <1>20. ASSUME NEW r \in Replicas, Crash(r) PROVE LiveDriverKeepsItsTree'
    BY <1>20 DEF Crash, histVars, LiveDriverKeepsItsTree
  <1>21. ASSUME NEW r \in Replicas, Restart(r) PROVE LiveDriverKeepsItsTree'
    BY <1>21 DEF Restart, histVars, LiveDriverKeepsItsTree
  <1>22. CASE Tick
    BY <1>22 DEF Tick, histVars, LiveDriverKeepsItsTree
  <1>23. CASE UNCHANGED vars
    BY <1>23 DEF vars, histVars, LiveDriverKeepsItsTree
  <1> QED
    BY <1>1, <1>2, <1>3, <1>4, <1>5, <1>6, <1>7, <1>8, <1>9, <1>10, <1>11, <1>12, <1>13, <1>14,
       <1>15, <1>16, <1>17, <1>18, <1>19, <1>20, <1>21, <1>22, <1>23 DEF Next

\* What Hull was told stays told, and an exception stays one.
LEMMA MonotoneStep ==
  ASSUME TypeOK, [Next]_vars
  PROVE  told \subseteq told' /\ excused \subseteq excused' /\ raced \subseteq raced'
PROOF
  <1> DEFINE Goal == told \subseteq told' /\ excused \subseteq excused' /\ raced \subseteq raced'
  <1>1. ASSUME NEW c \in Calls, Evict(c) PROVE Goal
    BY <1>1 DEF Evict, histVars
  <1>2. ASSUME NEW c \in Calls, ForgetEvicted(c) PROVE Goal
    BY <1>2 DEF ForgetEvicted, histVars
  <1>3. ASSUME NEW c \in Calls, AdmitWon(c) PROVE Goal
    BY <1>3 DEF AdmitWon, histVars
  <1>4. ASSUME NEW c \in Calls, AdmitAttached(c) PROVE Goal
    BY <1>4 DEF AdmitAttached, histVars
  <1>5. ASSUME NEW c \in Calls, AdmitFails(c) PROVE Goal
    BY <1>5 DEF AdmitFails, histVars
  <1>6. ASSUME NEW c \in Calls, Start(c) PROVE Goal
    BY <1>6 DEF Start, histVars
  <1>7. ASSUME NEW c \in Calls, NotDurable(c) PROVE Goal
    BY <1>7 DEF NotDurable, histVars
  <1>8. ASSUME NEW c \in Calls, Attach(c) PROVE Goal
    BY <1>8 DEF Attach, histVars
  <1>9. ASSUME NEW r \in Replicas, NEW j \in Calls, NEW s \in Steps, ClaimStep(r, j, s) PROVE Goal
    BY <1>9 DEF ClaimStep, histVars
  <1>10. ASSUME NEW r \in Replicas, NEW j \in Calls, NEW s \in Steps, Assign(r, j, s) PROVE Goal
    BY <1>10 DEF Assign, histVars
  <1>11. ASSUME NEW r \in Replicas, NEW j \in Calls, NEW s \in Steps, NoCapacity(r, j, s)
         PROVE  Goal
    BY <1>11 DEF NoCapacity, histVars
  <1>12. ASSUME NEW r \in Replicas, NEW j \in Calls, Renew(r, j) PROVE Goal
    BY <1>12 DEF Renew, histVars
  <1>13. ASSUME NEW r \in Replicas, NEW j \in Calls, Decide(r, j) PROVE Goal
    BY <1>13 DEF Decide, histVars
  <1>14. ASSUME NEW r \in Replicas, NEW j \in Calls, Settle(r, j) PROVE Goal
    BY <1>14 DEF Settle, histVars
  <1>15. ASSUME NEW r \in Replicas, NEW j \in Calls, Retire(r, j) PROVE Goal
    BY <1>15 DEF Retire, histVars
  <1>16. ASSUME NEW r \in Replicas, NEW j \in Calls, Pass(r, j) PROVE Goal
    <2> PICK X \in SUBSET Urls :
          /\ recUrls' = [recUrls EXCEPT ![r][j] = X] /\ recUrls[r][j] \subseteq X
          /\ snd' = [snd EXCEPT ![r][j] = IF X \subseteq tried[r][j] THEN "end" ELSE @]
          /\ tried' = [tried EXCEPT ![r][j] = X]
          /\ told' = told \cup {<<u, j, recVerdict[r][j]>> : u \in X \ tried[r][j]}
          /\ Present(r, j) /\ j \notin excused' => Destinations(j) \subseteq X
          /\ ~Present(r, j) => X = recUrls[r][j]
      BY PassEffect, <1>16
    <2> QED
      BY <1>16 DEF Pass
  <1>17. ASSUME NEW r \in Replicas, NEW j \in Calls, Reported(r, j) PROVE Goal
    BY <1>17 DEF Reported, histVars
  <1>18. ASSUME NEW r \in Replicas, Stall(r) PROVE Goal
    BY <1>18 DEF Stall, histVars
  <1>19. ASSUME NEW r \in Replicas, Wake(r) PROVE Goal
    BY <1>19 DEF Wake, histVars
  <1>20. ASSUME NEW r \in Replicas, Crash(r) PROVE Goal
    BY <1>20 DEF Crash, histVars
  <1>21. ASSUME NEW r \in Replicas, Restart(r) PROVE Goal
    BY <1>21 DEF Restart, histVars
  <1>22. CASE Tick
    BY <1>22 DEF Tick, histVars
  <1>23. CASE UNCHANGED vars
    BY <1>23 DEF vars, histVars
  <1> QED
    BY <1>1, <1>2, <1>3, <1>4, <1>5, <1>6, <1>7, <1>8, <1>9, <1>10, <1>11, <1>12, <1>13, <1>14,
       <1>15, <1>16, <1>17, <1>18, <1>19, <1>20, <1>21, <1>22, <1>23 DEF Next

\* Every step keeps BoundInv.
LEMMA BoundInvStep ==
  ASSUME TypeOK, RowInv, UnstartedInv, BoundInv, [Next]_vars
  PROVE  BoundInv'
PROOF
  <1>1. ASSUME NEW c \in Calls, Evict(c) PROVE BoundInv'
    <2> PICK old \in SUBSET {i \in Calls : rec[ReplicaOf[c]][i] = "reported"} : dropping' = [dropping EXCEPT ![c] = old]
      BY <1>1 DEF Evict
    <2>1. ASSUME NEW d \in Calls, NEW i \in dropping'[d]
          PROVE  i \in Calls /\ ~Unstarted(i)
      <3>1. \A k \in old : k \in Calls /\ ~Unstarted(k)
        BY CallFacts DEF UnstartedInv
      <3> QED
        BY <3>1 DEF BoundInv, TypeOK, CallTypes
    <2>2. \A i \in Calls : Unstarted(i)' => Unstarted(i)
      BY <1>1 DEF Evict, Unstarted, TypeOK, CallTypes
    <2>3. UNCHANGED target
      BY <1>1 DEF Evict
    <2> QED
      BY <2>1, <2>2, <2>3 DEF BoundInv
  <1>2. ASSUME NEW c \in Calls, ForgetEvicted(c) PROVE BoundInv'
    <2> PICK j \in Calls :
          /\ j \in dropping[c] /\ dropping' = [dropping EXCEPT ![c] = @ \ {j}]
          /\ UNCHANGED <<rowVars, stepRows, inFlightWhenLost>> \/ RowGone(j)
      BY ForgetEvictedEffect, <1>2
    <2> QED
      BY <1>2 DEF ForgetEvicted, BoundInv, Unstarted, TypeOK, CallTypes
  <1>3. ASSUME NEW c \in Calls, AdmitWon(c) PROVE BoundInv'
    BY <1>3, CallFacts, ClaimsNames DEF AdmitWon, callVars, BoundInv, Unstarted, TypeOK,
       CallTypes, Admitting
  <1>4. ASSUME NEW c \in Calls, AdmitAttached(c) PROVE BoundInv'
    BY <1>4, CallFacts, ClaimsNames DEF AdmitAttached, callVars, BoundInv, Unstarted, TypeOK,
       CallTypes, RowTypes, RowInv, Admitting
  <1>5. ASSUME NEW c \in Calls, AdmitFails(c) PROVE BoundInv'
    BY <1>5, CallFacts, ClaimsNames DEF AdmitFails, callVars, BoundInv, Unstarted, TypeOK, CallTypes
  <1>6. ASSUME NEW c \in Calls, Start(c) PROVE BoundInv'
    BY <1>6, CallFacts, ClaimsNames DEF Start, callVars, BoundInv, Unstarted, TypeOK, CallTypes
  <1>7. ASSUME NEW c \in Calls, NotDurable(c) PROVE BoundInv'
    BY <1>7, CallFacts, ClaimsNames DEF NotDurable, callVars, BoundInv, Unstarted, TypeOK, CallTypes
  <1>8. ASSUME NEW c \in Calls, Attach(c) PROVE BoundInv'
    BY <1>8, CallFacts, ClaimsNames DEF Attach, callVars, BoundInv, Unstarted, TypeOK, CallTypes
  <1>9. ASSUME NEW r \in Replicas, NEW j \in Calls, NEW s \in Steps, ClaimStep(r, j, s)
        PROVE  BoundInv'
    BY <1>9 DEF ClaimStep, callVars, BoundInv, Unstarted, TypeOK, CallTypes
  <1>10. ASSUME NEW r \in Replicas, NEW j \in Calls, NEW s \in Steps, Assign(r, j, s)
         PROVE  BoundInv'
    BY <1>10 DEF Assign, callVars, BoundInv, Unstarted, TypeOK, CallTypes
  <1>11. ASSUME NEW r \in Replicas, NEW j \in Calls, NEW s \in Steps, NoCapacity(r, j, s)
         PROVE  BoundInv'
    BY <1>11 DEF NoCapacity, callVars, BoundInv, Unstarted, TypeOK, CallTypes
  <1>12. ASSUME NEW r \in Replicas, NEW j \in Calls, Renew(r, j) PROVE BoundInv'
    BY <1>12 DEF Renew, callVars, BoundInv, Unstarted, TypeOK, CallTypes
  <1>13. ASSUME NEW r \in Replicas, NEW j \in Calls, Decide(r, j) PROVE BoundInv'
    BY <1>13 DEF Decide, callVars, BoundInv, Unstarted, TypeOK, CallTypes
  <1>14. ASSUME NEW r \in Replicas, NEW j \in Calls, Settle(r, j) PROVE BoundInv'
    BY <1>14 DEF Settle, callVars, BoundInv, Unstarted, TypeOK, CallTypes
  <1>15. ASSUME NEW r \in Replicas, NEW j \in Calls, Retire(r, j) PROVE BoundInv'
    BY <1>15 DEF Retire, callVars, BoundInv, Unstarted, TypeOK, CallTypes
  <1>16. ASSUME NEW r \in Replicas, NEW j \in Calls, Pass(r, j) PROVE BoundInv'
    BY <1>16 DEF Pass, callVars, BoundInv, Unstarted, TypeOK, CallTypes
  <1>17. ASSUME NEW r \in Replicas, NEW j \in Calls, Reported(r, j) PROVE BoundInv'
    BY <1>17 DEF Reported, callVars, BoundInv, Unstarted, TypeOK, CallTypes
  <1>18. ASSUME NEW r \in Replicas, Stall(r) PROVE BoundInv'
    BY <1>18 DEF Stall, callVars, BoundInv, Unstarted, TypeOK, CallTypes
  <1>19. ASSUME NEW r \in Replicas, Wake(r) PROVE BoundInv'
    BY <1>19 DEF Wake, callVars, BoundInv, Unstarted, TypeOK, CallTypes
  <1>20. ASSUME NEW r \in Replicas, Crash(r) PROVE BoundInv'
    BY <1>20, CallFacts, ClaimsNames DEF Crash, callVars, BoundInv, Unstarted, TypeOK, CallTypes
  <1>21. ASSUME NEW r \in Replicas, Restart(r) PROVE BoundInv'
    BY <1>21 DEF Restart, callVars, BoundInv, Unstarted, TypeOK, CallTypes
  <1>22. CASE Tick
    BY <1>22 DEF Tick, callVars, BoundInv, Unstarted, TypeOK, CallTypes
  <1>23. CASE UNCHANGED vars
    BY <1>23 DEF vars, callVars, BoundInv, Unstarted, TypeOK, CallTypes
  <1> QED
    BY <1>1, <1>2, <1>3, <1>4, <1>5, <1>6, <1>7, <1>8, <1>9, <1>10, <1>11, <1>12, <1>13, <1>14,
       <1>15, <1>16, <1>17, <1>18, <1>19, <1>20, <1>21, <1>22, <1>23 DEF Next

\* Every step keeps DriveInv.
LEMMA DriveInvStep ==
  ASSUME TypeOK, UnstartedInv, RecInv, DriveInv, [Next]_vars
  PROVE  DriveInv'
PROOF
  <1>1. ASSUME NEW c \in Calls, Evict(c) PROVE DriveInv'
    BY <1>1, CallFacts DEF Evict, recVars, drvVars, DriveInv, TypeOK, DrvTypes, RecTypes
  <1>2. ASSUME NEW c \in Calls, ForgetEvicted(c) PROVE DriveInv'
    BY <1>2 DEF ForgetEvicted, recVars, drvVars, DriveInv, TypeOK, DrvTypes, RecTypes
  <1>3. ASSUME NEW c \in Calls, AdmitWon(c) PROVE DriveInv'
    BY <1>3 DEF AdmitWon, recVars, drvVars, DriveInv, TypeOK, DrvTypes, RecTypes
  <1>4. ASSUME NEW c \in Calls, AdmitAttached(c) PROVE DriveInv'
    BY <1>4 DEF AdmitAttached, recVars, drvVars, DriveInv, TypeOK, DrvTypes, RecTypes
  <1>5. ASSUME NEW c \in Calls, AdmitFails(c) PROVE DriveInv'
    BY <1>5 DEF AdmitFails, recVars, drvVars, DriveInv, TypeOK, DrvTypes, RecTypes
  <1>6. ASSUME NEW c \in Calls, Start(c) PROVE DriveInv'
    BY <1>6, CallFacts DEF Start, recVars, drvVars, DriveInv, TypeOK, DrvTypes, RecTypes
  <1>7. ASSUME NEW c \in Calls, NotDurable(c) PROVE DriveInv'
    BY <1>7 DEF NotDurable, recVars, drvVars, DriveInv, TypeOK, DrvTypes, RecTypes
  <1>8. ASSUME NEW c \in Calls, Attach(c) PROVE DriveInv'
    BY <1>8, CallFacts DEF Attach, recVars, drvVars, DriveInv, TypeOK, DrvTypes, RecTypes
  <1>9. ASSUME NEW r \in Replicas, NEW j \in Calls, NEW s \in Steps, ClaimStep(r, j, s)
        PROVE  DriveInv'
    BY <1>9 DEF ClaimStep, recVars, drvVars, DriveInv, TypeOK, DrvTypes, RecTypes
  <1>10. ASSUME NEW r \in Replicas, NEW j \in Calls, NEW s \in Steps, Assign(r, j, s)
         PROVE  DriveInv'
    BY <1>10 DEF Assign, recVars, drvVars, DriveInv, TypeOK, DrvTypes, RecTypes
  <1>11. ASSUME NEW r \in Replicas, NEW j \in Calls, NEW s \in Steps, NoCapacity(r, j, s)
         PROVE  DriveInv'
    BY <1>11 DEF NoCapacity, recVars, drvVars, DriveInv, TypeOK, DrvTypes, RecTypes
  <1>12. ASSUME NEW r \in Replicas, NEW j \in Calls, Renew(r, j) PROVE DriveInv'
    BY <1>12 DEF Renew, recVars, drvVars, DriveInv, TypeOK, DrvTypes, RecTypes
  <1>13. ASSUME NEW r \in Replicas, NEW j \in Calls, Decide(r, j) PROVE DriveInv'
    BY <1>13, CallFacts DEF Decide, recVars, drvVars, DriveInv, TypeOK, DrvTypes, RecTypes
  <1>14. ASSUME NEW r \in Replicas, NEW j \in Calls, Settle(r, j) PROVE DriveInv'
    BY <1>14, CallFacts DEF Settle, recVars, drvVars, DriveInv, TypeOK, DrvTypes, RecTypes
  <1>15. ASSUME NEW r \in Replicas, NEW j \in Calls, Retire(r, j) PROVE DriveInv'
    BY <1>15, CallFacts DEF Retire, recVars, drvVars, DriveInv, TypeOK, DrvTypes, RecTypes
  <1>16. ASSUME NEW r \in Replicas, NEW j \in Calls, Pass(r, j) PROVE DriveInv'
    BY <1>16 DEF Pass, recVars, drvVars, DriveInv, TypeOK, DrvTypes, RecTypes
  <1>17. ASSUME NEW r \in Replicas, NEW j \in Calls, Reported(r, j) PROVE DriveInv'
    BY <1>17, CallFacts DEF Reported, recVars, drvVars, DriveInv, TypeOK, DrvTypes, RecTypes,
       RecInv, SndTypes
  <1>18. ASSUME NEW r \in Replicas, Stall(r) PROVE DriveInv'
    BY <1>18 DEF Stall, recVars, drvVars, DriveInv, TypeOK, DrvTypes, RecTypes
  <1>19. ASSUME NEW r \in Replicas, Wake(r) PROVE DriveInv'
    BY <1>19 DEF Wake, recVars, drvVars, DriveInv, TypeOK, DrvTypes, RecTypes
  <1>20. ASSUME NEW r \in Replicas, Crash(r) PROVE DriveInv'
    BY <1>20, CallFacts DEF Crash, recVars, drvVars, DriveInv, TypeOK, DrvTypes, RecTypes
  <1>21. ASSUME NEW r \in Replicas, Restart(r) PROVE DriveInv'
    BY <1>21 DEF Restart, recVars, drvVars, DriveInv, TypeOK, DrvTypes, RecTypes
  <1>22. CASE Tick
    BY <1>22 DEF Tick, recVars, drvVars, DriveInv, TypeOK, DrvTypes, RecTypes
  <1>23. CASE UNCHANGED vars
    BY <1>23 DEF vars, recVars, drvVars, DriveInv, TypeOK, DrvTypes, RecTypes
  <1> QED
    BY <1>1, <1>2, <1>3, <1>4, <1>5, <1>6, <1>7, <1>8, <1>9, <1>10, <1>11, <1>12, <1>13, <1>14,
       <1>15, <1>16, <1>17, <1>18, <1>19, <1>20, <1>21, <1>22, <1>23 DEF Next

\* Every step keeps PresentInv.
LEMMA PresentInvStep ==
  ASSUME TypeOK, UnstartedInv, RecInv, DriveInv, PresentInv, [Next]_vars
  PROVE  PresentInv'
PROOF
  <1>1. ASSUME NEW c \in Calls, Evict(c) PROVE PresentInv'
    BY <1>1, CallFacts DEF Evict, recVars, drvVars, sndVars, histVars, PresentInv, Delivering,
       Present, Excepted, TypeOK, DrvTypes, RecTypes, SndTypes
  <1>2. ASSUME NEW c \in Calls, ForgetEvicted(c) PROVE PresentInv'
    BY <1>2 DEF ForgetEvicted, recVars, drvVars, sndVars, histVars, PresentInv, Delivering,
       Present, Excepted, TypeOK, DrvTypes, RecTypes, SndTypes
  <1>3. ASSUME NEW c \in Calls, AdmitWon(c) PROVE PresentInv'
    BY <1>3 DEF AdmitWon, recVars, drvVars, sndVars, histVars, PresentInv, Delivering, Present,
       Excepted, TypeOK, DrvTypes, RecTypes, SndTypes
  <1>4. ASSUME NEW c \in Calls, AdmitAttached(c) PROVE PresentInv'
    BY <1>4 DEF AdmitAttached, recVars, drvVars, sndVars, histVars, PresentInv, Delivering,
       Present, Excepted, TypeOK, DrvTypes, RecTypes, SndTypes
  <1>5. ASSUME NEW c \in Calls, AdmitFails(c) PROVE PresentInv'
    BY <1>5 DEF AdmitFails, recVars, drvVars, sndVars, histVars, PresentInv, Delivering, Present,
       Excepted, TypeOK, DrvTypes, RecTypes, SndTypes
  <1>6. ASSUME NEW c \in Calls, Start(c) PROVE PresentInv'
    BY <1>6, CallFacts DEF Start, recVars, drvVars, sndVars, histVars, PresentInv, Delivering,
       Present, Excepted, TypeOK, DrvTypes, RecTypes, SndTypes
  <1>7. ASSUME NEW c \in Calls, NotDurable(c) PROVE PresentInv'
    BY <1>7, CallFacts DEF NotDurable, recVars, drvVars, sndVars, histVars, PresentInv,
       Delivering, Present, Excepted, TypeOK, DrvTypes, RecTypes, SndTypes
  <1>8. ASSUME NEW c \in Calls, Attach(c) PROVE PresentInv'
    BY <1>8, CallFacts DEF Attach, recVars, drvVars, sndVars, histVars, PresentInv, Delivering,
       Present, Excepted, TypeOK, DrvTypes, RecTypes, SndTypes, CallTypes
  <1>9. ASSUME NEW r \in Replicas, NEW j \in Calls, NEW s \in Steps, ClaimStep(r, j, s)
        PROVE  PresentInv'
    BY <1>9 DEF ClaimStep, recVars, drvVars, sndVars, histVars, PresentInv, Delivering, Present,
       Excepted, TypeOK, DrvTypes, RecTypes, SndTypes
  <1>10. ASSUME NEW r \in Replicas, NEW j \in Calls, NEW s \in Steps, Assign(r, j, s)
         PROVE  PresentInv'
    BY <1>10 DEF Assign, recVars, drvVars, sndVars, histVars, PresentInv, Delivering, Present,
       Excepted, TypeOK, DrvTypes, RecTypes, SndTypes
  <1>11. ASSUME NEW r \in Replicas, NEW j \in Calls, NEW s \in Steps, NoCapacity(r, j, s)
         PROVE  PresentInv'
    BY <1>11 DEF NoCapacity, recVars, drvVars, sndVars, histVars, PresentInv, Delivering, Present,
       Excepted, TypeOK, DrvTypes, RecTypes, SndTypes
  <1>12. ASSUME NEW r \in Replicas, NEW j \in Calls, Renew(r, j) PROVE PresentInv'
    BY <1>12 DEF Renew, recVars, drvVars, sndVars, histVars, PresentInv, Delivering, Present,
       Excepted, TypeOK, DrvTypes, RecTypes, SndTypes
  <1>13. ASSUME NEW r \in Replicas, NEW j \in Calls, Decide(r, j) PROVE PresentInv'
    BY <1>13, CallFacts DEF Decide, recVars, drvVars, sndVars, histVars, PresentInv, Delivering,
       Present, Excepted, TypeOK, DrvTypes, RecTypes, SndTypes
  <1>14. ASSUME NEW r \in Replicas, NEW j \in Calls, Settle(r, j) PROVE PresentInv'
    BY <1>14, CallFacts DEF Settle, recVars, drvVars, sndVars, histVars, PresentInv, Delivering,
       Present, Excepted, TypeOK, DrvTypes, RecTypes, SndTypes
  <1>15. ASSUME NEW r \in Replicas, NEW j \in Calls, Retire(r, j) PROVE PresentInv'
    BY <1>15, CallFacts DEF Retire, recVars, drvVars, sndVars, histVars, PresentInv, Delivering,
       Present, Excepted, TypeOK, DrvTypes, RecTypes, SndTypes
  <1>16. ASSUME NEW r \in Replicas, NEW j \in Calls, Pass(r, j) PROVE PresentInv'
    BY <1>16, CallFacts DEF Pass, recVars, drvVars, sndVars, histVars, PresentInv, Delivering,
       Present, Excepted, TypeOK, DrvTypes, RecTypes, SndTypes
  <1>17. ASSUME NEW r \in Replicas, NEW j \in Calls, Reported(r, j) PROVE PresentInv'
    BY <1>17, CallFacts DEF Reported, recVars, drvVars, sndVars, histVars, PresentInv, Delivering,
       Present, Excepted, TypeOK, DrvTypes, RecTypes, SndTypes
  <1>18. ASSUME NEW r \in Replicas, Stall(r) PROVE PresentInv'
    BY <1>18, CallFacts DEF Stall, recVars, drvVars, sndVars, histVars, PresentInv, Delivering,
       Present, Excepted, TypeOK, DrvTypes, RecTypes, SndTypes
  <1>19. ASSUME NEW r \in Replicas, Wake(r) PROVE PresentInv'
    BY <1>19 DEF Wake, recVars, drvVars, sndVars, histVars, PresentInv, Delivering, Present,
       Excepted, TypeOK, DrvTypes, RecTypes, SndTypes
  <1>20. ASSUME NEW r \in Replicas, Crash(r) PROVE PresentInv'
    BY <1>20, CallFacts DEF Crash, recVars, drvVars, sndVars, histVars, PresentInv, Delivering,
       Present, Excepted, TypeOK, DrvTypes, RecTypes, SndTypes
  <1>21. ASSUME NEW r \in Replicas, Restart(r) PROVE PresentInv'
    BY <1>21 DEF Restart, recVars, drvVars, sndVars, histVars, PresentInv, Delivering, Present,
       Excepted, TypeOK, DrvTypes, RecTypes, SndTypes
  <1>22. CASE Tick
    BY <1>22 DEF Tick, recVars, drvVars, sndVars, histVars, PresentInv, Delivering, Present,
       Excepted, TypeOK, DrvTypes, RecTypes, SndTypes
  <1>23. CASE UNCHANGED vars
    BY <1>23 DEF vars, recVars, drvVars, sndVars, histVars, PresentInv, Delivering, Present,
       Excepted, TypeOK, DrvTypes, RecTypes, SndTypes
  <1> QED
    BY <1>1, <1>2, <1>3, <1>4, <1>5, <1>6, <1>7, <1>8, <1>9, <1>10, <1>11, <1>12, <1>13, <1>14,
       <1>15, <1>16, <1>17, <1>18, <1>19, <1>20, <1>21, <1>22, <1>23 DEF Next

\* Every step keeps StoppedInv.
LEMMA StoppedInvStep ==
  ASSUME TypeOK, UnstartedInv, StoppedInv, [Next]_vars
  PROVE  StoppedInv'
PROOF
  <1>1. ASSUME NEW c \in Calls, Evict(c) PROVE StoppedInv'
    BY <1>1, CallFacts DEF Evict, drvVars, sndVars, histVars, StoppedInv, Unsent, Up, TypeOK,
       DrvTypes, SndTypes
  <1>2. ASSUME NEW c \in Calls, ForgetEvicted(c) PROVE StoppedInv'
    BY <1>2 DEF ForgetEvicted, drvVars, sndVars, histVars, StoppedInv, Unsent, Up, TypeOK,
       DrvTypes, SndTypes
  <1>3. ASSUME NEW c \in Calls, AdmitWon(c) PROVE StoppedInv'
    BY <1>3 DEF AdmitWon, drvVars, sndVars, histVars, StoppedInv, Unsent, Up, TypeOK, DrvTypes,
       SndTypes
  <1>4. ASSUME NEW c \in Calls, AdmitAttached(c) PROVE StoppedInv'
    BY <1>4 DEF AdmitAttached, drvVars, sndVars, histVars, StoppedInv, Unsent, Up, TypeOK,
       DrvTypes, SndTypes
  <1>5. ASSUME NEW c \in Calls, AdmitFails(c) PROVE StoppedInv'
    BY <1>5 DEF AdmitFails, drvVars, sndVars, histVars, StoppedInv, Unsent, Up, TypeOK, DrvTypes,
       SndTypes
  <1>6. ASSUME NEW c \in Calls, Start(c) PROVE StoppedInv'
    BY <1>6, CallFacts DEF Start, drvVars, sndVars, histVars, StoppedInv, Unsent, Up, TypeOK,
       DrvTypes, SndTypes
  <1>7. ASSUME NEW c \in Calls, NotDurable(c) PROVE StoppedInv'
    BY <1>7, CallFacts DEF NotDurable, drvVars, sndVars, histVars, StoppedInv, Unsent, Up, TypeOK,
       DrvTypes, SndTypes
  <1>8. ASSUME NEW c \in Calls, Attach(c) PROVE StoppedInv'
    BY <1>8, CallFacts DEF Attach, drvVars, sndVars, histVars, StoppedInv, Unsent, Up, TypeOK,
       DrvTypes, SndTypes
  <1>9. ASSUME NEW r \in Replicas, NEW j \in Calls, NEW s \in Steps, ClaimStep(r, j, s)
        PROVE  StoppedInv'
    BY <1>9 DEF ClaimStep, drvVars, sndVars, histVars, StoppedInv, Unsent, Up, TypeOK, DrvTypes,
       SndTypes
  <1>10. ASSUME NEW r \in Replicas, NEW j \in Calls, NEW s \in Steps, Assign(r, j, s)
         PROVE  StoppedInv'
    BY <1>10 DEF Assign, drvVars, sndVars, histVars, StoppedInv, Unsent, Up, TypeOK, DrvTypes,
       SndTypes
  <1>11. ASSUME NEW r \in Replicas, NEW j \in Calls, NEW s \in Steps, NoCapacity(r, j, s)
         PROVE  StoppedInv'
    BY <1>11 DEF NoCapacity, drvVars, sndVars, histVars, StoppedInv, Unsent, Up, TypeOK, DrvTypes,
       SndTypes
  <1>12. ASSUME NEW r \in Replicas, NEW j \in Calls, Renew(r, j) PROVE StoppedInv'
    BY <1>12 DEF Renew, drvVars, sndVars, histVars, StoppedInv, Unsent, Up, TypeOK, DrvTypes,
       SndTypes
  <1>13. ASSUME NEW r \in Replicas, NEW j \in Calls, Decide(r, j) PROVE StoppedInv'
    BY <1>13, CallFacts DEF Decide, drvVars, sndVars, histVars, StoppedInv, Unsent, Up, TypeOK,
       DrvTypes, SndTypes
  <1>14. ASSUME NEW r \in Replicas, NEW j \in Calls, Settle(r, j) PROVE StoppedInv'
    BY <1>14, CallFacts DEF Settle, drvVars, sndVars, histVars, StoppedInv, Unsent, Up, TypeOK,
       DrvTypes, SndTypes
  <1>15. ASSUME NEW r \in Replicas, NEW j \in Calls, Retire(r, j) PROVE StoppedInv'
    BY <1>15, CallFacts DEF Retire, drvVars, sndVars, histVars, StoppedInv, Unsent, Up, TypeOK,
       DrvTypes, SndTypes
  <1>16. ASSUME NEW r \in Replicas, NEW j \in Calls, Pass(r, j) PROVE StoppedInv'
    BY <1>16, CallFacts DEF Pass, drvVars, sndVars, histVars, StoppedInv, Unsent, Up, TypeOK,
       DrvTypes, SndTypes
  <1>17. ASSUME NEW r \in Replicas, NEW j \in Calls, Reported(r, j) PROVE StoppedInv'
    BY <1>17, CallFacts DEF Reported, drvVars, sndVars, histVars, StoppedInv, Unsent, Up, TypeOK,
       DrvTypes, SndTypes
  <1>18. ASSUME NEW r \in Replicas, Stall(r) PROVE StoppedInv'
    BY <1>18, CallFacts DEF Stall, drvVars, sndVars, histVars, StoppedInv, Unsent, Up, TypeOK,
       DrvTypes, SndTypes, ProcTypes
  <1>19. ASSUME NEW r \in Replicas, Wake(r) PROVE StoppedInv'
    BY <1>19, CallFacts DEF Wake, drvVars, sndVars, histVars, StoppedInv, Unsent, Up, TypeOK,
       DrvTypes, SndTypes, ProcTypes
  <1>20. ASSUME NEW r \in Replicas, Crash(r) PROVE StoppedInv'
    BY <1>20, CallFacts DEF Crash, drvVars, sndVars, histVars, StoppedInv, Unsent, Up, TypeOK,
       DrvTypes, SndTypes, ProcTypes
  <1>21. ASSUME NEW r \in Replicas, Restart(r) PROVE StoppedInv'
    BY <1>21, CallFacts DEF Restart, drvVars, sndVars, histVars, StoppedInv, Unsent, Up, TypeOK,
       DrvTypes, SndTypes
  <1>22. CASE Tick
    BY <1>22 DEF Tick, drvVars, sndVars, histVars, StoppedInv, Unsent, Up, TypeOK, DrvTypes,
       SndTypes
  <1>23. CASE UNCHANGED vars
    BY <1>23 DEF vars, drvVars, sndVars, histVars, StoppedInv, Unsent, Up, TypeOK, DrvTypes,
       SndTypes
  <1> QED
    BY <1>1, <1>2, <1>3, <1>4, <1>5, <1>6, <1>7, <1>8, <1>9, <1>10, <1>11, <1>12, <1>13, <1>14,
       <1>15, <1>16, <1>17, <1>18, <1>19, <1>20, <1>21, <1>22, <1>23 DEF Next

\* What a pass has posted to, and had posted to, is told.
LEMMA PassTells ==
  ASSUME TypeOK, RecInv, TriedInv, NEW r \in Replicas, NEW j \in Calls, Pass(r, j)
  PROVE  \A u \in recUrls'[r][j] : Told(u, TreeOf[j])'
PROOF
  <1> PICK X \in SUBSET Urls :
        /\ recUrls' = [recUrls EXCEPT ![r][j] = X] /\ recUrls[r][j] \subseteq X
        /\ snd' = [snd EXCEPT ![r][j] = IF X \subseteq tried[r][j] THEN "end" ELSE @]
        /\ tried' = [tried EXCEPT ![r][j] = X]
        /\ told' = told \cup {<<u, j, recVerdict[r][j]>> : u \in X \ tried[r][j]}
        /\ Present(r, j) /\ j \notin excused' => Destinations(j) \subseteq X
        /\ ~Present(r, j) => X = recUrls[r][j]
    BY PassEffect
  <1>1. rec[r][j] \in {"absent", "running", "decided", "reported"} /\ snd[r][j] = "pass"
    BY DEF TypeOK, RecTypes, Pass
  <1>2. X \ tried[r][j] # {} => recVerdict[r][j] \in Statuses
    BY <1>1 DEF RecInv, Present
  <1>3. recUrls'[r][j] = X
    BY DEF TypeOK, RecTypes
  <1>4. ASSUME NEW u \in X
        PROVE  Told(u, TreeOf[j])'
    <2>1. CASE u \in tried[r][j]
      BY <2>1 DEF TriedInv, Told
    <2>2. CASE u \notin tried[r][j]
      <3>1. <<u, j, recVerdict[r][j]>> \in told' /\ recVerdict[r][j] \in Statuses
        BY <1>2, <2>2
      <3> QED
        BY <3>1 DEF Told
    <2> QED
      BY <2>1, <2>2
  <1> QED
    BY <1>3, <1>4

\* Every step keeps TriedInv.
LEMMA TriedInvStep ==
  ASSUME TypeOK, RecInv, TriedInv, [Next]_vars
  PROVE  TriedInv'
PROOF
  <1>1. ASSUME NEW c \in Calls, Evict(c) PROVE TriedInv'
    BY <1>1 DEF Evict, sndVars, histVars, TriedInv, Told, TypeOK, SndTypes
  <1>2. ASSUME NEW c \in Calls, ForgetEvicted(c) PROVE TriedInv'
    BY <1>2 DEF ForgetEvicted, sndVars, histVars, TriedInv, Told, TypeOK, SndTypes
  <1>3. ASSUME NEW c \in Calls, AdmitWon(c) PROVE TriedInv'
    BY <1>3 DEF AdmitWon, sndVars, histVars, TriedInv, Told, TypeOK, SndTypes
  <1>4. ASSUME NEW c \in Calls, AdmitAttached(c) PROVE TriedInv'
    BY <1>4 DEF AdmitAttached, sndVars, histVars, TriedInv, Told, TypeOK, SndTypes
  <1>5. ASSUME NEW c \in Calls, AdmitFails(c) PROVE TriedInv'
    BY <1>5 DEF AdmitFails, sndVars, histVars, TriedInv, Told, TypeOK, SndTypes
  <1>6. ASSUME NEW c \in Calls, Start(c) PROVE TriedInv'
    BY <1>6 DEF Start, sndVars, histVars, TriedInv, Told, TypeOK, SndTypes
  <1>7. ASSUME NEW c \in Calls, NotDurable(c) PROVE TriedInv'
    BY <1>7 DEF NotDurable, sndVars, histVars, TriedInv, Told, TypeOK, SndTypes
  <1>8. ASSUME NEW c \in Calls, Attach(c) PROVE TriedInv'
    BY <1>8 DEF Attach, sndVars, histVars, TriedInv, Told, TypeOK, SndTypes
  <1>9. ASSUME NEW r \in Replicas, NEW j \in Calls, NEW s \in Steps, ClaimStep(r, j, s)
        PROVE  TriedInv'
    BY <1>9, ZenonT(40) DEF ClaimStep, sndVars, histVars, TriedInv, Told, TypeOK, SndTypes
  <1>10. ASSUME NEW r \in Replicas, NEW j \in Calls, NEW s \in Steps, Assign(r, j, s)
         PROVE  TriedInv'
    BY <1>10 DEF Assign, sndVars, histVars, TriedInv, Told, TypeOK, SndTypes
  <1>11. ASSUME NEW r \in Replicas, NEW j \in Calls, NEW s \in Steps, NoCapacity(r, j, s)
         PROVE  TriedInv'
    BY <1>11 DEF NoCapacity, sndVars, histVars, TriedInv, Told, TypeOK, SndTypes
  <1>12. ASSUME NEW r \in Replicas, NEW j \in Calls, Renew(r, j) PROVE TriedInv'
    BY <1>12 DEF Renew, sndVars, histVars, TriedInv, Told, TypeOK, SndTypes
  <1>13. ASSUME NEW r \in Replicas, NEW j \in Calls, Decide(r, j) PROVE TriedInv'
    <2>1. UNCHANGED <<told, tried>>
      BY <1>13 DEF Decide, sndVars, histVars
    <2> QED
      BY <2>1 DEF TriedInv, Told
  <1>14. ASSUME NEW r \in Replicas, NEW j \in Calls, Settle(r, j) PROVE TriedInv'
    BY <1>14 DEF Settle, sndVars, histVars, TriedInv, Told, TypeOK, SndTypes
  <1>15. ASSUME NEW r \in Replicas, NEW j \in Calls, Retire(r, j) PROVE TriedInv'
    BY <1>15 DEF Retire, sndVars, histVars, TriedInv, Told, TypeOK, SndTypes
  <1>16. ASSUME NEW r \in Replicas, NEW j \in Calls, Pass(r, j) PROVE TriedInv'
    <2> PICK X \in SUBSET Urls :
          /\ recUrls' = [recUrls EXCEPT ![r][j] = X] /\ recUrls[r][j] \subseteq X
          /\ snd' = [snd EXCEPT ![r][j] = IF X \subseteq tried[r][j] THEN "end" ELSE @]
          /\ tried' = [tried EXCEPT ![r][j] = X]
          /\ told' = told \cup {<<u, j, recVerdict[r][j]>> : u \in X \ tried[r][j]}
          /\ Present(r, j) /\ j \notin excused' => Destinations(j) \subseteq X
          /\ ~Present(r, j) => X = recUrls[r][j]
      BY PassEffect, <1>16
    <2>1. \A u \in X : Told(u, TreeOf[j])'
      BY <1>16, PassTells DEF TypeOK, RecTypes
    <2>2. told \subseteq told'
      BY MonotoneStep
    <2>3. \A q \in Replicas, i \in Calls : tried'[q][i] = IF q = r /\ i = j THEN X ELSE tried[q][i]
      BY DEF TypeOK, SndTypes
    <2>4. ASSUME NEW q \in Replicas, NEW i \in Calls, NEW u \in tried'[q][i]
          PROVE  Told(u, TreeOf[i])'
      BY <2>1, <2>2, <2>3, <2>4 DEF TriedInv, Told
    <2> QED
      BY <2>4 DEF TriedInv
  <1>17. ASSUME NEW r \in Replicas, NEW j \in Calls, Reported(r, j) PROVE TriedInv'
    <2>1. UNCHANGED told
      BY <1>17 DEF Reported, histVars
    <2>2. \A q \in Replicas, i \in Calls : tried'[q][i] \subseteq tried[q][i]
      BY <1>17 DEF Reported, TypeOK, SndTypes
    <2> QED
      BY <2>1, <2>2 DEF TriedInv, Told
  <1>18. ASSUME NEW r \in Replicas, Stall(r) PROVE TriedInv'
    BY <1>18 DEF Stall, sndVars, histVars, TriedInv, Told, TypeOK, SndTypes
  <1>19. ASSUME NEW r \in Replicas, Wake(r) PROVE TriedInv'
    BY <1>19 DEF Wake, sndVars, histVars, TriedInv, Told, TypeOK, SndTypes
  <1>20. ASSUME NEW r \in Replicas, Crash(r) PROVE TriedInv'
    <2>1. UNCHANGED told
      BY <1>20 DEF Crash
    <2>2. \A q \in Replicas, i \in Calls : tried'[q][i] \subseteq tried[q][i]
      BY <1>20 DEF Crash, TypeOK, SndTypes
    <2> QED
      BY <2>1, <2>2 DEF TriedInv, Told
  <1>21. ASSUME NEW r \in Replicas, Restart(r) PROVE TriedInv'
    <2>1. told \subseteq told' /\ UNCHANGED tried
      BY MonotoneStep, <1>21 DEF Restart, sndVars
    <2> QED
      BY <2>1 DEF TriedInv, Told
  <1>22. CASE Tick
    BY <1>22 DEF Tick, sndVars, histVars, TriedInv, Told, TypeOK, SndTypes
  <1>23. CASE UNCHANGED vars
    BY <1>23 DEF vars, sndVars, histVars, TriedInv, Told, TypeOK, SndTypes
  <1> QED
    BY <1>1, <1>2, <1>3, <1>4, <1>5, <1>6, <1>7, <1>8, <1>9, <1>10, <1>11, <1>12, <1>13, <1>14,
       <1>15, <1>16, <1>17, <1>18, <1>19, <1>20, <1>21, <1>22, <1>23 DEF Next

\* The row of a job that has its lease is held under it.
LEMMA HoldsOwn ==
  ASSUME TypeOK, RowInv, LeaseInv, NEW r \in Replicas, NEW j \in Calls, Leased(r, j),
         rowJob[TreeOf[j]] = j
  PROVE  Holds(r, j, FenceOf(r, j))
PROOF
  <1>1. FenceOf(r, j) = fence[j] /\ ReplicaOf[j] = r
    BY FenceOfFact
  <1>2. TreeOf[j] \in Trees /\ rowOwner[TreeOf[j]] = r /\ rowFence[TreeOf[j]] = fence[j]
    BY <1>1, CallFacts DEF RowInv
  <1> QED
    BY <1>1, <1>2 DEF Holds

\* Every step keeps LeaseHeldInv.
LEMMA LeaseHeldInvStep ==
  ASSUME TypeOK, RowInv, FenceInv, UnstartedInv, LeaseInv, LeaseHeldInv, [Next]_vars
  PROVE  LeaseHeldInv'
PROOF
  <1>1. ASSUME NEW c \in Calls, Evict(c) PROVE LeaseHeldInv'
    BY <1>1 DEF Evict, rowVars, callVars, drvVars, LeaseHeldInv, TypeOK, ProcTypes, DrvTypes
  <1>2. ASSUME NEW c \in Calls, ForgetEvicted(c) PROVE LeaseHeldInv'
    <2> PICK j \in Calls :
          /\ j \in dropping[c] /\ dropping' = [dropping EXCEPT ![c] = @ \ {j}]
          /\ UNCHANGED <<rowVars, stepRows, inFlightWhenLost>> \/ RowGone(j)
      BY ForgetEvictedEffect, <1>2
    <2> QED
      BY <1>2, CallFacts DEF ForgetEvicted, RowGone, rowVars, drvVars, LeaseHeldInv, TypeOK,
         RowTypes
  <1>3. ASSUME NEW c \in Calls, AdmitWon(c) PROVE LeaseHeldInv'
    BY <1>3, CallFacts DEF AdmitWon, RowWon, rowVars, callVars, drvVars, LeaseHeldInv, TypeOK,
       ProcTypes, DrvTypes, Admitting, UnstartedInv, Unstarted, RowTypes, CallTypes
  <1>4. ASSUME NEW c \in Calls, AdmitAttached(c) PROVE LeaseHeldInv'
    BY <1>4 DEF AdmitAttached, rowVars, callVars, drvVars, LeaseHeldInv, TypeOK, ProcTypes, DrvTypes
  <1>5. ASSUME NEW c \in Calls, AdmitFails(c) PROVE LeaseHeldInv'
    BY <1>5 DEF AdmitFails, rowVars, callVars, drvVars, LeaseHeldInv, TypeOK, ProcTypes, DrvTypes
  <1>6. ASSUME NEW c \in Calls, Start(c) PROVE LeaseHeldInv'
    BY <1>6, CallFacts DEF Start, rowVars, callVars, drvVars, LeaseHeldInv, TypeOK, ProcTypes,
       DrvTypes
  <1>7. ASSUME NEW c \in Calls, NotDurable(c) PROVE LeaseHeldInv'
    <2>1. UNCHANGED <<fence, leases, drvVars>>
      BY <1>7 DEF NotDurable
    <2>2. UNCHANGED <<rowVars, stepRows, inFlightWhenLost>> \/ RowGone(c)
      BY <1>7, NotDurableEffect
    <2> QED
      BY <2>1, <2>2, CallFacts DEF RowGone, rowVars, drvVars, LeaseHeldInv, TypeOK, RowTypes
  <1>8. ASSUME NEW c \in Calls, Attach(c) PROVE LeaseHeldInv'
    BY <1>8 DEF Attach, rowVars, callVars, drvVars, LeaseHeldInv, TypeOK, ProcTypes, DrvTypes
  <1>9. ASSUME NEW r \in Replicas, NEW j \in Calls, NEW s \in Steps, ClaimStep(r, j, s)
        PROVE  LeaseHeldInv'
    <2>1. UNCHANGED <<rowJob, drv, fence>>
      BY <1>9 DEF ClaimStep, rowVars, callVars
    <2>2. leases' = leases \/ (~Holds(r, j, FenceOf(r, j)) /\ leases' = WithoutLease(r, j))
      BY <1>9 DEF ClaimStep
    <2>3. CASE ~Holds(r, j, FenceOf(r, j)) /\ leases' = WithoutLease(r, j)
      <3>1. rowJob[TreeOf[j]] # j
        BY <1>9, <2>3, HoldsOwn DEF ClaimStep
      <3> QED
        BY <2>1, <2>3, <3>1, CallFacts DEF WithoutLease, LeaseHeldInv, TypeOK, ProcTypes
    <2> QED
      BY <2>1, <2>2, <2>3 DEF LeaseHeldInv
  <1>10. ASSUME NEW r \in Replicas, NEW j \in Calls, NEW s \in Steps, Assign(r, j, s)
         PROVE  LeaseHeldInv'
    BY <1>10 DEF Assign, rowVars, callVars, drvVars, LeaseHeldInv, TypeOK, ProcTypes, DrvTypes
  <1>11. ASSUME NEW r \in Replicas, NEW j \in Calls, NEW s \in Steps, NoCapacity(r, j, s)
         PROVE  LeaseHeldInv'
    BY <1>11 DEF NoCapacity, rowVars, callVars, drvVars, LeaseHeldInv, TypeOK, ProcTypes, DrvTypes
  <1>12. ASSUME NEW r \in Replicas, NEW j \in Calls, Renew(r, j) PROVE LeaseHeldInv'
    <2>1. UNCHANGED <<rowJob, drv, fence>>
      BY <1>12 DEF Renew, callVars
    <2>2. leases' = leases \/ (~Holds(r, j, FenceOf(r, j)) /\ leases' = WithoutLease(r, j))
      BY <1>12 DEF Renew
    <2>3. CASE ~Holds(r, j, FenceOf(r, j)) /\ leases' = WithoutLease(r, j)
      <3>1. rowJob[TreeOf[j]] # j
        BY <1>12, <2>3, HoldsOwn DEF Renew
      <3> QED
        BY <2>1, <2>3, <3>1, CallFacts DEF WithoutLease, LeaseHeldInv, TypeOK, ProcTypes
    <2> QED
      BY <2>1, <2>2, <2>3 DEF LeaseHeldInv
  <1>13. ASSUME NEW r \in Replicas, NEW j \in Calls, Decide(r, j) PROVE LeaseHeldInv'
    BY <1>13, CallFacts DEF Decide, rowVars, callVars, drvVars, LeaseHeldInv, TypeOK, ProcTypes,
       DrvTypes
  <1>14. ASSUME NEW r \in Replicas, NEW j \in Calls, Settle(r, j) PROVE LeaseHeldInv'
    BY <1>14, CallFacts DEF Settle, rowVars, callVars, drvVars, LeaseHeldInv, TypeOK, ProcTypes,
       DrvTypes
  <1>15. ASSUME NEW r \in Replicas, NEW j \in Calls, Retire(r, j) PROVE LeaseHeldInv'
    BY <1>15, CallFacts DEF Retire, WithoutLease, rowVars, callVars, drvVars, LeaseHeldInv,
       TypeOK, ProcTypes, DrvTypes
  <1>16. ASSUME NEW r \in Replicas, NEW j \in Calls, Pass(r, j) PROVE LeaseHeldInv'
    BY <1>16 DEF Pass, rowVars, callVars, drvVars, LeaseHeldInv, TypeOK, ProcTypes, DrvTypes
  <1>17. ASSUME NEW r \in Replicas, NEW j \in Calls, Reported(r, j) PROVE LeaseHeldInv'
    BY <1>17 DEF Reported, rowVars, callVars, drvVars, LeaseHeldInv, TypeOK, ProcTypes, DrvTypes
  <1>18. ASSUME NEW r \in Replicas, Stall(r) PROVE LeaseHeldInv'
    BY <1>18 DEF Stall, rowVars, callVars, drvVars, LeaseHeldInv, TypeOK, ProcTypes, DrvTypes
  <1>19. ASSUME NEW r \in Replicas, Wake(r) PROVE LeaseHeldInv'
    BY <1>19 DEF Wake, rowVars, callVars, drvVars, LeaseHeldInv, TypeOK, ProcTypes, DrvTypes
  <1>20. ASSUME NEW r \in Replicas, Crash(r) PROVE LeaseHeldInv'
    BY <1>20, CallFacts DEF Crash, rowVars, callVars, drvVars, LeaseHeldInv, TypeOK, ProcTypes,
       DrvTypes
  <1>21. ASSUME NEW r \in Replicas, Restart(r) PROVE LeaseHeldInv'
    BY <1>21 DEF Restart, rowVars, callVars, drvVars, LeaseHeldInv, TypeOK, ProcTypes, DrvTypes
  <1>22. CASE Tick
    BY <1>22 DEF Tick, rowVars, callVars, drvVars, LeaseHeldInv, TypeOK, ProcTypes, DrvTypes
  <1>23. CASE UNCHANGED vars
    BY <1>23 DEF vars, rowVars, callVars, drvVars, LeaseHeldInv, TypeOK, ProcTypes, DrvTypes
  <1> QED
    BY <1>1, <1>2, <1>3, <1>4, <1>5, <1>6, <1>7, <1>8, <1>9, <1>10, <1>11, <1>12, <1>13, <1>14,
       <1>15, <1>16, <1>17, <1>18, <1>19, <1>20, <1>21, <1>22, <1>23 DEF Next

\* settle gives a verdict to the row of its own job, if that has none.
LEMMA SettleEffect ==
  ASSUME TypeOK, RowInv, UnsettledInv, NEW r \in Replicas, NEW j \in Calls, Settle(r, j)
  PROVE  /\ \A t \in Trees : t # TreeOf[j] \/ rowJob[t] # j \/ Settled(t) =>
              rowVerdict'[t] = rowVerdict[t] /\ rowSettled'[t] = rowSettled[t]
         /\ rowVerdict'[TreeOf[j]] # rowVerdict[TreeOf[j]] => rowSettled'[TreeOf[j]] = Clock(r)
PROOF
  <1>1. ASSUME NEW t \in Trees, rowJob[t] = j
        PROVE  t = TreeOf[j] /\ ~Settled(t)
    BY <1>1, CallFacts DEF Settle, RowInv, UnsettledInv, Settled
  <1>2. ASSUME NEW t \in Trees, rowJob[t] # j
        PROVE  rowVerdict'[t] = rowVerdict[t] /\ rowSettled'[t] = rowSettled[t]
    BY <1>2 DEF Settle
  <1>3. rowVerdict'[TreeOf[j]] # rowVerdict[TreeOf[j]] => rowSettled'[TreeOf[j]] = Clock(r)
    BY CallFacts DEF Settle
  <1> QED
    BY <1>1, <1>2, <1>3

\* And it does, unless that fails, which excepts the job.
LEMMA SettleSettles ==
  ASSUME TypeOK, RowInv, RecInv, LeaseInv, PresentInv, LeaseHeldInv,
         NEW r \in Replicas, NEW j \in Calls, Settle(r, j), rowJob[TreeOf[j]] = j, ~Excepted(j)'
  PROVE  Settled(TreeOf[j])'
PROOF
  <1>1. r = ReplicaOf[j] /\ drv[j] = "settle" /\ ~Excepted(j)
    BY DEF Settle, Excepted
  <1>2. Leased(r, j)
    BY <1>1 DEF LeaseHeldInv, Leased
  <1>3. StillHolds(r, j)
    BY <1>2, HoldsOwn DEF StillHolds
  <1>4. recVerdict[r][j] \in Statuses
    BY <1>1 DEF PresentInv, Delivering, Present, RecInv, TypeOK, RecTypes
  <1>5. rowVerdict'[TreeOf[j]] = recVerdict[r][j]
    BY <1>3, CallFacts DEF Settle, Excepted
  <1> QED
    BY <1>4, <1>5 DEF Settled, Statuses, NoVerdict

\* Every step keeps SeenSettledInv.
LEMMA SeenSettledInvStep ==
  ASSUME TypeOK, RowInv, UnsettledInv, SeenInv, BoundInv, SeenSettledInv, [Next]_vars
  PROVE  SeenSettledInv'
PROOF
  <1>1. ASSUME NEW c \in Calls, Evict(c) PROVE SeenSettledInv'
    BY <1>1 DEF Evict, rowVars, callVars, SeenSettledInv, Settled, TypeOK, CallTypes
  <1>2. ASSUME NEW c \in Calls, ForgetEvicted(c) PROVE SeenSettledInv'
    <2> PICK j \in Calls :
          /\ j \in dropping[c] /\ dropping' = [dropping EXCEPT ![c] = @ \ {j}]
          /\ UNCHANGED <<rowVars, stepRows, inFlightWhenLost>> \/ RowGone(j)
      BY ForgetEvictedEffect, <1>2
    <2> QED
      BY <1>2, CallFacts, ClaimsNames DEF ForgetEvicted, RowGone, rowVars, SeenSettledInv,
         Settled, TypeOK, RowTypes, CallTypes
  <1>3. ASSUME NEW c \in Calls, AdmitWon(c) PROVE SeenSettledInv'
    BY <1>3, CallFacts, ClaimsNames DEF AdmitWon, RowWon, rowVars, callVars, SeenSettledInv,
       Settled, TypeOK, CallTypes, Admitting, SeenInv, Unstarted, RowTypes
  <1>4. ASSUME NEW c \in Calls, AdmitAttached(c) PROVE SeenSettledInv'
    BY <1>4, CallFacts, ClaimsNames DEF AdmitAttached, rowVars, callVars, SeenSettledInv, Settled,
       TypeOK, CallTypes
  <1>5. ASSUME NEW c \in Calls, AdmitFails(c) PROVE SeenSettledInv'
    BY <1>5 DEF AdmitFails, rowVars, callVars, SeenSettledInv, Settled, TypeOK, CallTypes
  <1>6. ASSUME NEW c \in Calls, Start(c) PROVE SeenSettledInv'
    BY <1>6 DEF Start, rowVars, callVars, SeenSettledInv, Settled, TypeOK, CallTypes
  <1>7. ASSUME NEW c \in Calls, NotDurable(c) PROVE SeenSettledInv'
    <2>1. UNCHANGED <<seen, target>>
      BY <1>7 DEF NotDurable
    <2>2. UNCHANGED <<rowVars, stepRows, inFlightWhenLost>> \/ RowGone(c)
      BY <1>7, NotDurableEffect
    <2> QED
      BY <2>1, <2>2, CallFacts, ClaimsNames DEF RowGone, rowVars, SeenSettledInv, Settled, TypeOK,
         RowTypes, CallTypes
  <1>8. ASSUME NEW c \in Calls, Attach(c) PROVE SeenSettledInv'
    BY <1>8, CallFacts, ClaimsNames DEF Attach, rowVars, callVars, SeenSettledInv, Settled,
       TypeOK, CallTypes
  <1>9. ASSUME NEW r \in Replicas, NEW j \in Calls, NEW s \in Steps, ClaimStep(r, j, s)
        PROVE  SeenSettledInv'
    BY <1>9 DEF ClaimStep, rowVars, callVars, SeenSettledInv, Settled, TypeOK, CallTypes
  <1>10. ASSUME NEW r \in Replicas, NEW j \in Calls, NEW s \in Steps, Assign(r, j, s)
         PROVE  SeenSettledInv'
    BY <1>10 DEF Assign, rowVars, callVars, SeenSettledInv, Settled, TypeOK, CallTypes
  <1>11. ASSUME NEW r \in Replicas, NEW j \in Calls, NEW s \in Steps, NoCapacity(r, j, s)
         PROVE  SeenSettledInv'
    BY <1>11 DEF NoCapacity, rowVars, callVars, SeenSettledInv, Settled, TypeOK, CallTypes
  <1>12. ASSUME NEW r \in Replicas, NEW j \in Calls, Renew(r, j) PROVE SeenSettledInv'
    BY <1>12 DEF Renew, rowVars, callVars, SeenSettledInv, Settled, TypeOK, CallTypes
  <1>13. ASSUME NEW r \in Replicas, NEW j \in Calls, Decide(r, j) PROVE SeenSettledInv'
    BY <1>13 DEF Decide, rowVars, callVars, SeenSettledInv, Settled, TypeOK, CallTypes
  <1>14. ASSUME NEW r \in Replicas, NEW j \in Calls, Settle(r, j) PROVE SeenSettledInv'
    <2>1. \A t \in Trees : Settled(t) => rowVerdict'[t] = rowVerdict[t]
      BY <1>14, SettleEffect
    <2> QED
      BY <1>14, <2>1, CallFacts DEF Settle, callVars, SeenSettledInv, Settled
  <1>15. ASSUME NEW r \in Replicas, NEW j \in Calls, Retire(r, j) PROVE SeenSettledInv'
    BY <1>15 DEF Retire, rowVars, callVars, SeenSettledInv, Settled, TypeOK, CallTypes
  <1>16. ASSUME NEW r \in Replicas, NEW j \in Calls, Pass(r, j) PROVE SeenSettledInv'
    BY <1>16 DEF Pass, rowVars, callVars, SeenSettledInv, Settled, TypeOK, CallTypes
  <1>17. ASSUME NEW r \in Replicas, NEW j \in Calls, Reported(r, j) PROVE SeenSettledInv'
    BY <1>17 DEF Reported, rowVars, callVars, SeenSettledInv, Settled, TypeOK, CallTypes
  <1>18. ASSUME NEW r \in Replicas, Stall(r) PROVE SeenSettledInv'
    BY <1>18 DEF Stall, rowVars, callVars, SeenSettledInv, Settled, TypeOK, CallTypes
  <1>19. ASSUME NEW r \in Replicas, Wake(r) PROVE SeenSettledInv'
    BY <1>19 DEF Wake, rowVars, callVars, SeenSettledInv, Settled, TypeOK, CallTypes
  <1>20. ASSUME NEW r \in Replicas, Crash(r) PROVE SeenSettledInv'
    BY <1>20 DEF Crash, rowVars, callVars, SeenSettledInv, Settled, TypeOK, CallTypes
  <1>21. ASSUME NEW r \in Replicas, Restart(r) PROVE SeenSettledInv'
    BY <1>21 DEF Restart, rowVars, callVars, SeenSettledInv, Settled, TypeOK, CallTypes
  <1>22. CASE Tick
    BY <1>22 DEF Tick, rowVars, callVars, SeenSettledInv, Settled, TypeOK, CallTypes
  <1>23. CASE UNCHANGED vars
    BY <1>23 DEF vars, rowVars, callVars, SeenSettledInv, Settled, TypeOK, CallTypes
  <1> QED
    BY <1>1, <1>2, <1>3, <1>4, <1>5, <1>6, <1>7, <1>8, <1>9, <1>10, <1>11, <1>12, <1>13, <1>14,
       <1>15, <1>16, <1>17, <1>18, <1>19, <1>20, <1>21, <1>22, <1>23 DEF Next

\* Every step keeps SettledInv.
LEMMA SettledInvStep ==
  ASSUME TypeOK, RowInv, UnstartedInv, UnsettledInv, RecInv, LeaseInv, BoundInv, DriveInv,
         PresentInv, LeaseHeldInv, SeenSettledInv, SettledInv, [Next]_vars
  PROVE  SettledInv'
PROOF
  <1>1. ASSUME NEW c \in Calls, Evict(c) PROVE SettledInv'
    BY <1>1, CallFacts DEF Evict, rowVars, recVars, drvVars, histVars, SettledInv, Settled,
       Deciding, Present, Excepted, TypeOK, DrvTypes, RecTypes
  <1>2. ASSUME NEW c \in Calls, ForgetEvicted(c) PROVE SettledInv'
    <2> PICK j \in Calls :
          /\ j \in dropping[c] /\ dropping' = [dropping EXCEPT ![c] = @ \ {j}]
          /\ UNCHANGED <<rowVars, stepRows, inFlightWhenLost>> \/ RowGone(j)
      BY ForgetEvictedEffect, <1>2
    <2> QED
      BY <1>2, CallFacts DEF ForgetEvicted, RowGone, rowVars, recVars, drvVars, SettledInv,
         Settled, Deciding, Present, Excepted, TypeOK, RowTypes
  <1>3. ASSUME NEW c \in Calls, AdmitWon(c) PROVE SettledInv'
    BY <1>3, CallFacts DEF AdmitWon, RowWon, rowVars, recVars, drvVars, histVars, SettledInv,
       Settled, Deciding, Present, Excepted, TypeOK, DrvTypes, RecTypes, Admitting, UnstartedInv,
       Unstarted, RowTypes
  <1>4. ASSUME NEW c \in Calls, AdmitAttached(c) PROVE SettledInv'
    BY <1>4 DEF AdmitAttached, rowVars, recVars, drvVars, histVars, SettledInv, Settled, Deciding,
       Present, Excepted, TypeOK, DrvTypes, RecTypes
  <1>5. ASSUME NEW c \in Calls, AdmitFails(c) PROVE SettledInv'
    BY <1>5 DEF AdmitFails, rowVars, recVars, drvVars, histVars, SettledInv, Settled, Deciding,
       Present, Excepted, TypeOK, DrvTypes, RecTypes
  <1>6. ASSUME NEW c \in Calls, Start(c) PROVE SettledInv'
    BY <1>6, CallFacts DEF Start, rowVars, recVars, drvVars, histVars, SettledInv, Settled,
       Deciding, Present, Excepted, TypeOK, DrvTypes, RecTypes
  <1>7. ASSUME NEW c \in Calls, NotDurable(c) PROVE SettledInv'
    <2>1. UNCHANGED <<recVars, drvVars, raced>> /\ excused \subseteq excused'
      BY <1>7 DEF NotDurable
    <2>2. UNCHANGED <<rowVars, stepRows, inFlightWhenLost>> \/ RowGone(c)
      BY <1>7, NotDurableEffect
    <2> QED
      BY <2>1, <2>2, CallFacts DEF RowGone, rowVars, recVars, drvVars, SettledInv, Settled,
         Deciding, Present, Excepted, TypeOK, RowTypes
  <1>8. ASSUME NEW c \in Calls, Attach(c) PROVE SettledInv'
    <2>1. target[c] \in Calls /\ ReplicaOf[c] \in Replicas /\ TreeOf[target[c]] = TreeOf[c]
      BY CallFacts DEF BoundInv, TypeOK, CallTypes
    <2>2. ASSUME NEW q \in Replicas, NEW i \in Calls, Present(q, i)', ~Present(q, i)
          PROVE  i = target[c] /\ seen[c] # NoVerdict
      BY <1>8, <2>1, <2>2 DEF Attach, Present, TypeOK, RecTypes
    <2>3. UNCHANGED <<rowVars, drvVars, raced>> /\ excused \subseteq excused'
      BY <1>8 DEF Attach
    <2>4. rowJob[TreeOf[c]] = target[c] /\ seen[c] # NoVerdict => Settled(TreeOf[c])
      BY DEF SeenSettledInv
    <2> QED
      BY <2>1, <2>2, <2>3, <2>4 DEF SettledInv, Settled, Deciding, Excepted, rowVars, drvVars
  <1>9. ASSUME NEW r \in Replicas, NEW j \in Calls, NEW s \in Steps, ClaimStep(r, j, s)
        PROVE  SettledInv'
    BY <1>9 DEF ClaimStep, rowVars, recVars, drvVars, histVars, SettledInv, Settled, Deciding,
       Present, Excepted, TypeOK, DrvTypes, RecTypes
  <1>10. ASSUME NEW r \in Replicas, NEW j \in Calls, NEW s \in Steps, Assign(r, j, s)
         PROVE  SettledInv'
    BY <1>10 DEF Assign, rowVars, recVars, drvVars, histVars, SettledInv, Settled, Deciding,
       Present, Excepted, TypeOK, DrvTypes, RecTypes
  <1>11. ASSUME NEW r \in Replicas, NEW j \in Calls, NEW s \in Steps, NoCapacity(r, j, s)
         PROVE  SettledInv'
    BY <1>11 DEF NoCapacity, rowVars, recVars, drvVars, histVars, SettledInv, Settled, Deciding,
       Present, Excepted, TypeOK, DrvTypes, RecTypes
  <1>12. ASSUME NEW r \in Replicas, NEW j \in Calls, Renew(r, j) PROVE SettledInv'
    BY <1>12 DEF Renew, rowVars, recVars, drvVars, histVars, SettledInv, Settled, Deciding,
       Present, Excepted, TypeOK, DrvTypes, RecTypes
  <1>13. ASSUME NEW r \in Replicas, NEW j \in Calls, Decide(r, j) PROVE SettledInv'
    BY <1>13, CallFacts DEF Decide, rowVars, recVars, drvVars, histVars, SettledInv, Settled,
       Deciding, Present, Excepted, TypeOK, DrvTypes, RecTypes
  <1>14. ASSUME NEW r \in Replicas, NEW j \in Calls, Settle(r, j) PROVE SettledInv'
    <2>1. \A t \in Trees : t # TreeOf[j] \/ rowJob[t] # j => rowVerdict'[t] = rowVerdict[t]
      BY <1>14, SettleEffect
    <2>2. rowJob[TreeOf[j]] = j /\ ~Excepted(j)' => Settled(TreeOf[j])'
      BY <1>14, SettleSettles
    <2>3. UNCHANGED <<rowJob, rec, raced>> /\ excused \subseteq excused' /\ drv' = [drv EXCEPT ![j] = "journal"]
      BY <1>14 DEF Settle, recVars
    <2>4. ASSUME NEW i \in Calls, i # j, rowJob[TreeOf[i]] = i
          PROVE  drv'[i] = drv[i] /\ rowVerdict'[TreeOf[i]] = rowVerdict[TreeOf[i]]
      BY <2>1, <2>3, <2>4, CallFacts DEF TypeOK, DrvTypes
    <2> QED
      BY <2>2, <2>3, <2>4 DEF SettledInv, Settled, Deciding, Present, Excepted
  <1>15. ASSUME NEW r \in Replicas, NEW j \in Calls, Retire(r, j) PROVE SettledInv'
    BY <1>15, CallFacts DEF Retire, rowVars, recVars, drvVars, histVars, SettledInv, Settled,
       Deciding, Present, Excepted, TypeOK, DrvTypes, RecTypes
  <1>16. ASSUME NEW r \in Replicas, NEW j \in Calls, Pass(r, j) PROVE SettledInv'
    BY <1>16, CallFacts DEF Pass, rowVars, recVars, drvVars, histVars, SettledInv, Settled,
       Deciding, Present, Excepted, TypeOK, DrvTypes, RecTypes
  <1>17. ASSUME NEW r \in Replicas, NEW j \in Calls, Reported(r, j) PROVE SettledInv'
    BY <1>17, CallFacts DEF Reported, rowVars, recVars, drvVars, histVars, SettledInv, Settled,
       Deciding, Present, Excepted, TypeOK, DrvTypes, RecTypes
  <1>18. ASSUME NEW r \in Replicas, Stall(r) PROVE SettledInv'
    BY <1>18, CallFacts DEF Stall, rowVars, recVars, drvVars, histVars, SettledInv, Settled,
       Deciding, Present, Excepted, TypeOK, DrvTypes, RecTypes
  <1>19. ASSUME NEW r \in Replicas, Wake(r) PROVE SettledInv'
    BY <1>19 DEF Wake, rowVars, recVars, drvVars, histVars, SettledInv, Settled, Deciding,
       Present, Excepted, TypeOK, DrvTypes, RecTypes
  <1>20. ASSUME NEW r \in Replicas, Crash(r) PROVE SettledInv'
    BY <1>20, CallFacts DEF Crash, rowVars, recVars, drvVars, histVars, SettledInv, Settled,
       Deciding, Present, Excepted, TypeOK, DrvTypes, RecTypes
  <1>21. ASSUME NEW r \in Replicas, Restart(r) PROVE SettledInv'
    BY <1>21 DEF Restart, rowVars, recVars, drvVars, histVars, SettledInv, Settled, Deciding,
       Present, Excepted, TypeOK, DrvTypes, RecTypes
  <1>22. CASE Tick
    BY <1>22 DEF Tick, rowVars, recVars, drvVars, histVars, SettledInv, Settled, Deciding,
       Present, Excepted, TypeOK, DrvTypes, RecTypes
  <1>23. CASE UNCHANGED vars
    BY <1>23 DEF vars, rowVars, recVars, drvVars, histVars, SettledInv, Settled, Deciding,
       Present, Excepted, TypeOK, DrvTypes, RecTypes
  <1> QED
    BY <1>1, <1>2, <1>3, <1>4, <1>5, <1>6, <1>7, <1>8, <1>9, <1>10, <1>11, <1>12, <1>13, <1>14,
       <1>15, <1>16, <1>17, <1>18, <1>19, <1>20, <1>21, <1>22, <1>23 DEF Next

-----------------------------------------------------------------------------
\* Told and exceptions only grow.
LEMMA ToldStays ==
  ASSUME TypeOK, [Next]_vars
  PROVE  /\ \A u, t : Told(u, t) => Told(u, t)'
         /\ \A j : Excepted(j) => Excepted(j)'
         /\ \A t : Excused(t) => Excused(t)'
BY MonotoneStep DEF Told, Excepted, Excused

\* What report reads are the destinations on the row of its job.
LEMMA RowDestinations ==
  ASSUME TypeOK, RowInv, NEW t \in Trees, rowJob[t] \in Calls
  PROVE  Destinations(rowJob[t]) = rowUrls[t]
PROOF
  <1>1. {i \in Trees : rowJob[i] = rowJob[t]} = {t}
    BY CallFacts DEF RowInv
  <1> QED
    BY <1>1 DEF Destinations

\* A destination that is served stays so.
LEMMA ServedStep ==
  ASSUME TypeOK, UnstartedInv, RecInv, TriedInv, NEW u, NEW t, Served(u, t), ~Excused(t)',
         [Next]_vars
  PROVE  Served(u, t)'
PROOF
  <1>1. ASSUME NEW c \in Calls, Evict(c) PROVE Served(u, t)'
    <2>1. ASSUME NEW q \in Replicas, NEW i \in Calls, snd[q][i] = "pass",
                 recUrls'[q][i] # recUrls[q][i]
          PROVE  i \in excused'
      BY <1>1, <2>1, CallFacts DEF Evict, TypeOK, RecTypes
    <2>2. UNCHANGED snd
      BY <1>1 DEF Evict, sndVars
    <2> QED
      BY <2>1, <2>2, ToldStays DEF Served, Carried, Excused, Excepted
  <1>2. ASSUME NEW c \in Calls, ForgetEvicted(c) PROVE Served(u, t)'
    BY <1>2 DEF ForgetEvicted, recVars, sndVars, histVars, Served, Carried, Told
  <1>3. ASSUME NEW c \in Calls, AdmitWon(c) PROVE Served(u, t)'
    BY <1>3 DEF AdmitWon, recVars, sndVars, histVars, Served, Carried, Told
  <1>4. ASSUME NEW c \in Calls, AdmitAttached(c) PROVE Served(u, t)'
    BY <1>4 DEF AdmitAttached, recVars, sndVars, histVars, Served, Carried, Told
  <1>5. ASSUME NEW c \in Calls, AdmitFails(c) PROVE Served(u, t)'
    BY <1>5 DEF AdmitFails, recVars, sndVars, histVars, Served, Carried, Told
  <1>6. ASSUME NEW c \in Calls, Start(c) PROVE Served(u, t)'
    <2>1. \A q \in Replicas, i \in Calls :
            snd[q][i] = "pass" => snd'[q][i] = "pass" /\ recUrls[q][i] \subseteq recUrls'[q][i]
      BY <1>6, CallFacts DEF Start, sndVars, UnstartedInv, Unstarted, TypeOK, RecTypes
    <2> QED
      BY <2>1, ToldStays DEF Served, Carried
  <1>7. ASSUME NEW c \in Calls, NotDurable(c) PROVE Served(u, t)'
    <2>1. \A q \in Replicas, i \in Calls :
            snd[q][i] = "pass" => snd'[q][i] = "pass" /\ recUrls[q][i] \subseteq recUrls'[q][i]
      BY <1>7, CallFacts DEF NotDurable, recVars, sndVars
    <2> QED
      BY <2>1, ToldStays DEF Served, Carried
  <1>8. ASSUME NEW c \in Calls, Attach(c) PROVE Served(u, t)'
    <2>1. \A q \in Replicas, i \in Calls :
            snd[q][i] = "pass" => snd'[q][i] = "pass" /\ recUrls[q][i] \subseteq recUrls'[q][i]
      BY <1>8, CallFacts DEF Attach, TypeOK, RecTypes, SndTypes, CallTypes
    <2> QED
      BY <2>1, ToldStays DEF Served, Carried
  <1>9. ASSUME NEW r \in Replicas, NEW j \in Calls, NEW s \in Steps, ClaimStep(r, j, s)
        PROVE  Served(u, t)'
    BY <1>9 DEF ClaimStep, recVars, sndVars, histVars, Served, Carried, Told
  <1>10. ASSUME NEW r \in Replicas, NEW j \in Calls, NEW s \in Steps, Assign(r, j, s)
         PROVE  Served(u, t)'
    BY <1>10 DEF Assign, recVars, sndVars, histVars, Served, Carried, Told
  <1>11. ASSUME NEW r \in Replicas, NEW j \in Calls, NEW s \in Steps, NoCapacity(r, j, s)
         PROVE  Served(u, t)'
    BY <1>11 DEF NoCapacity, recVars, sndVars, histVars, Served, Carried, Told
  <1>12. ASSUME NEW r \in Replicas, NEW j \in Calls, Renew(r, j) PROVE Served(u, t)'
    BY <1>12 DEF Renew, recVars, sndVars, histVars, Served, Carried, Told
  <1>13. ASSUME NEW r \in Replicas, NEW j \in Calls, Decide(r, j) PROVE Served(u, t)'
    BY <1>13 DEF Decide, recVars, sndVars, histVars, Served, Carried, Told
  <1>14. ASSUME NEW r \in Replicas, NEW j \in Calls, Settle(r, j) PROVE Served(u, t)'
    <2>1. \A q \in Replicas, i \in Calls :
            snd[q][i] = "pass" => snd'[q][i] = "pass" /\ recUrls[q][i] \subseteq recUrls'[q][i]
      BY <1>14, CallFacts DEF Settle, recVars, sndVars
    <2> QED
      BY <2>1, ToldStays DEF Served, Carried
  <1>15. ASSUME NEW r \in Replicas, NEW j \in Calls, Retire(r, j) PROVE Served(u, t)'
    <2>1. \A q \in Replicas, i \in Calls :
            snd[q][i] = "pass" => snd'[q][i] = "pass" /\ recUrls[q][i] \subseteq recUrls'[q][i]
      BY <1>15, CallFacts DEF Retire, recVars, TypeOK, SndTypes
    <2> QED
      BY <2>1, ToldStays DEF Served, Carried
  <1>16. ASSUME NEW r \in Replicas, NEW j \in Calls, Pass(r, j) PROVE Served(u, t)'
    <2>1. ASSUME NEW q \in Replicas, NEW i \in Calls, q # r \/ i # j
          PROVE  snd'[q][i] = snd[q][i] /\ recUrls'[q][i] = recUrls[q][i]
      BY <1>16, <2>1 DEF Pass, TypeOK, RecTypes, SndTypes
    <2>2. recUrls[r][j] \subseteq recUrls'[r][j]
      BY <1>16, PassEffect DEF TypeOK, RecTypes
    <2>3. \A v \in recUrls'[r][j] : Told(v, TreeOf[j])'
      BY <1>16, PassTells
    <2> QED
      BY <2>1, <2>2, <2>3, ToldStays DEF Served, Carried
  <1>17. ASSUME NEW r \in Replicas, NEW j \in Calls, Reported(r, j) PROVE Served(u, t)'
    <2>1. \A q \in Replicas, i \in Calls :
            snd[q][i] = "pass" => snd'[q][i] = "pass" /\ recUrls[q][i] \subseteq recUrls'[q][i]
      BY <1>17, CallFacts DEF Reported, TypeOK, SndTypes
    <2> QED
      BY <2>1, ToldStays DEF Served, Carried
  <1>18. ASSUME NEW r \in Replicas, Stall(r) PROVE Served(u, t)'
    <2>1. \A q \in Replicas, i \in Calls :
            snd[q][i] = "pass" => snd'[q][i] = "pass" /\ recUrls[q][i] \subseteq recUrls'[q][i]
      BY <1>18, CallFacts DEF Stall, recVars, sndVars
    <2> QED
      BY <2>1, ToldStays DEF Served, Carried
  <1>19. ASSUME NEW r \in Replicas, Wake(r) PROVE Served(u, t)'
    BY <1>19 DEF Wake, recVars, sndVars, histVars, Served, Carried, Told
  <1>20. ASSUME NEW r \in Replicas, Crash(r) PROVE Served(u, t)'
    <2>1. ASSUME NEW q \in Replicas, NEW i \in Calls, snd[q][i] = "pass"
          PROVE  i \in excused' \/ (snd'[q][i] = "pass" /\ recUrls'[q][i] = recUrls[q][i])
      BY <1>20, <2>1 DEF Crash, Unsent, TypeOK, RecTypes, SndTypes
    <2> QED
      BY <2>1, ToldStays DEF Served, Carried, Excused, Excepted
  <1>21. ASSUME NEW r \in Replicas, Restart(r) PROVE Served(u, t)'
    <2>1. \A q \in Replicas, i \in Calls :
            snd[q][i] = "pass" => snd'[q][i] = "pass" /\ recUrls[q][i] \subseteq recUrls'[q][i]
      BY <1>21, CallFacts DEF Restart, recVars, sndVars
    <2> QED
      BY <2>1, ToldStays DEF Served, Carried
  <1>22. CASE Tick
    BY <1>22 DEF Tick, recVars, sndVars, histVars, Served, Carried, Told
  <1>23. CASE UNCHANGED vars
    BY <1>23 DEF vars, recVars, sndVars, histVars, Served, Carried, Told
  <1> QED
    BY <1>1, <1>2, <1>3, <1>4, <1>5, <1>6, <1>7, <1>8, <1>9, <1>10, <1>11, <1>12, <1>13, <1>14,
       <1>15, <1>16, <1>17, <1>18, <1>19, <1>20, <1>21, <1>22, <1>23 DEF Next

\* A verdict that is on its way stays so until everybody on the row was told.
LEMMA PendingStep ==
  ASSUME TypeOK, UnstartedInv, RecInv, TriedInv, PresentInv, NEW i \in Calls, Pending(i),
         ~Excepted(i)', [Next]_vars
  PROVE  Pending(i)' \/ \A u \in Destinations(i) : Told(u, TreeOf[i])'
PROOF
  <1> DEFINE Goal == Pending(i)' \/ \A u \in Destinations(i) : Told(u, TreeOf[i])'
  <1>1. ASSUME NEW c \in Calls, Evict(c) PROVE Goal
    BY <1>1, CallFacts DEF Evict, drvVars, sndVars, histVars, Pending, Excepted
  <1>2. ASSUME NEW c \in Calls, ForgetEvicted(c) PROVE Goal
    BY <1>2 DEF ForgetEvicted, drvVars, sndVars, histVars, Pending, Excepted
  <1>3. ASSUME NEW c \in Calls, AdmitWon(c) PROVE Goal
    BY <1>3 DEF AdmitWon, drvVars, sndVars, histVars, Pending, Excepted
  <1>4. ASSUME NEW c \in Calls, AdmitAttached(c) PROVE Goal
    BY <1>4 DEF AdmitAttached, drvVars, sndVars, histVars, Pending, Excepted
  <1>5. ASSUME NEW c \in Calls, AdmitFails(c) PROVE Goal
    BY <1>5 DEF AdmitFails, drvVars, sndVars, histVars, Pending, Excepted
  <1>6. ASSUME NEW c \in Calls, Start(c) PROVE Goal
    BY <1>6, CallFacts DEF Start, drvVars, sndVars, histVars, Pending, Excepted, UnstartedInv,
       Unstarted, TypeOK, DrvTypes
  <1>7. ASSUME NEW c \in Calls, NotDurable(c) PROVE Goal
    BY <1>7, CallFacts DEF NotDurable, drvVars, sndVars, histVars, Pending, Excepted
  <1>8. ASSUME NEW c \in Calls, Attach(c) PROVE Goal
    BY <1>8, CallFacts DEF Attach, drvVars, sndVars, histVars, Pending, Excepted, TypeOK,
       SndTypes, CallTypes
  <1>9. ASSUME NEW r \in Replicas, NEW j \in Calls, NEW s \in Steps, ClaimStep(r, j, s) PROVE Goal
    BY <1>9 DEF ClaimStep, drvVars, sndVars, histVars, Pending, Excepted
  <1>10. ASSUME NEW r \in Replicas, NEW j \in Calls, NEW s \in Steps, Assign(r, j, s) PROVE Goal
    BY <1>10 DEF Assign, drvVars, sndVars, histVars, Pending, Excepted
  <1>11. ASSUME NEW r \in Replicas, NEW j \in Calls, NEW s \in Steps, NoCapacity(r, j, s)
         PROVE  Goal
    BY <1>11 DEF NoCapacity, drvVars, sndVars, histVars, Pending, Excepted
  <1>12. ASSUME NEW r \in Replicas, NEW j \in Calls, Renew(r, j) PROVE Goal
    BY <1>12 DEF Renew, drvVars, sndVars, histVars, Pending, Excepted
  <1>13. ASSUME NEW r \in Replicas, NEW j \in Calls, Decide(r, j) PROVE Goal
    BY <1>13, CallFacts DEF Decide, drvVars, sndVars, histVars, Pending, Excepted, TypeOK, DrvTypes
  <1>14. ASSUME NEW r \in Replicas, NEW j \in Calls, Settle(r, j) PROVE Goal
    BY <1>14, CallFacts DEF Settle, drvVars, sndVars, histVars, Pending, Excepted, TypeOK, DrvTypes
  <1>15. ASSUME NEW r \in Replicas, NEW j \in Calls, Retire(r, j) PROVE Goal
    <2>1. \A q \in Replicas, k \in Calls : snd[q][k] = "pass" => snd'[q][k] = "pass"
      BY <1>15 DEF Retire, TypeOK, SndTypes
    <2>2. \A k \in Calls : k # j => drv'[k] = drv[k]
      BY <1>15 DEF Retire, TypeOK, DrvTypes
    <2>3. i = j => snd'[r][j] = "pass"
      BY <1>15 DEF Retire, Excepted, TypeOK, SndTypes
    <2> QED
      BY <2>1, <2>2, <2>3 DEF Pending
  <1>16. ASSUME NEW r \in Replicas, NEW j \in Calls, Pass(r, j) PROVE Goal
    <2>1. i # j => \A q \in Replicas : snd'[q][i] = snd[q][i]
      BY <1>16 DEF Pass, TypeOK, SndTypes
    <2>2. UNCHANGED drv
      BY <1>16 DEF Pass, drvVars
    <2>3. CASE i # j
      BY <2>1, <2>2, <2>3 DEF Pending
    <2>4. CASE i = j
      <3>1. Present(r, j)
        BY <1>16, <2>4, ToldStays DEF Pass, PresentInv, Delivering
      <3>2. Destinations(j) \subseteq recUrls'[r][j]
        BY <1>16, <2>4, <3>1, PassEffect DEF Excepted, TypeOK, RecTypes
      <3> QED
        BY <1>16, <2>4, <3>2, PassTells
    <2> QED
      BY <2>3, <2>4
  <1>17. ASSUME NEW r \in Replicas, NEW j \in Calls, Reported(r, j) PROVE Goal
    BY <1>17, CallFacts DEF Reported, drvVars, sndVars, histVars, Pending, Excepted, TypeOK,
       SndTypes
  <1>18. ASSUME NEW r \in Replicas, Stall(r) PROVE Goal
    BY <1>18, CallFacts DEF Stall, drvVars, sndVars, histVars, Pending, Excepted
  <1>19. ASSUME NEW r \in Replicas, Wake(r) PROVE Goal
    BY <1>19 DEF Wake, drvVars, sndVars, histVars, Pending, Excepted
  <1>20. ASSUME NEW r \in Replicas, Crash(r) PROVE Goal
    BY <1>20, CallFacts DEF Crash, drvVars, sndVars, histVars, Pending, Excepted, Unsent, TypeOK,
       SndTypes, DrvTypes
  <1>21. ASSUME NEW r \in Replicas, Restart(r) PROVE Goal
    BY <1>21, CallFacts DEF Restart, drvVars, sndVars, histVars, Pending, Excepted
  <1>22. CASE Tick
    BY <1>22 DEF Tick, drvVars, sndVars, histVars, Pending, Excepted
  <1>23. CASE UNCHANGED vars
    BY <1>23 DEF vars, drvVars, sndVars, histVars, Pending, Excepted
  <1> QED
    BY <1>1, <1>2, <1>3, <1>4, <1>5, <1>6, <1>7, <1>8, <1>9, <1>10, <1>11, <1>12, <1>13, <1>14,
       <1>15, <1>16, <1>17, <1>18, <1>19, <1>20, <1>21, <1>22, <1>23 DEF Next

\* A dispatch that attached to a verdict gets it sent.
LEMMA AttachSends ==
  ASSUME TypeOK, RecInv, SeenInv, NEW c \in Calls, Attach(c), seen[c] # NoVerdict,
         NEW j, j = target[c], j \notin excused'
  PROVE  snd'[ReplicaOf[c]][j] = "pass" /\ UrlOf[c] \in recUrls'[ReplicaOf[c]][j]
PROOF
  <1> DEFINE r == ReplicaOf[c]
  <1>1. r \in Replicas /\ j \in Calls
    BY CallFacts DEF TypeOK, CallTypes
  <1>2. rec[r][j] # "running"
    BY <1>1 DEF RecInv, SeenInv
  <1>3. snd[r][j] # "end"
    BY DEF Attach
  <1>4. rec[r][j] \in {"absent", "running", "decided", "reported"} /\ snd[r][j] \in {"off", "pass", "end"}
    BY <1>1 DEF TypeOK, RecTypes, SndTypes
  <1>5. rec'[r][j] \in {"decided", "reported"}
    BY <1>1, <1>2, <1>4 DEF Attach, TypeOK, RecTypes
  <1> QED
    BY <1>1, <1>3, <1>4, <1>5 DEF Attach, TypeOK, RecTypes, SndTypes

\* A late destination stays late until its dispatch is acked.
LEMMA LateStep ==
  ASSUME TypeOK, RecInv, SeenInv, NEW u, NEW t \in Trees, rowJob[t] \in Calls, Late(u, t),
         rowJob'[t] = rowJob[t], ~Excepted(rowJob[t])', [Next]_vars
  PROVE  Late(u, t)' \/ Pending(rowJob[t])'
PROOF
  <1>1. ASSUME NEW c \in Calls, Evict(c) PROVE Late(u, t)' \/ Pending(rowJob[t])'
    BY <1>1, CallFacts DEF Evict, callVars, Late, Unacked, TypeOK, CallTypes
  <1>2. ASSUME NEW c \in Calls, ForgetEvicted(c) PROVE Late(u, t)' \/ Pending(rowJob[t])'
    BY <1>2 DEF ForgetEvicted, callVars, Late, Unacked, TypeOK, CallTypes
  <1>3. ASSUME NEW c \in Calls, AdmitWon(c) PROVE Late(u, t)' \/ Pending(rowJob[t])'
    BY <1>3, CallFacts DEF AdmitWon, callVars, Late, Unacked, TypeOK, CallTypes, Admitting
  <1>4. ASSUME NEW c \in Calls, AdmitAttached(c) PROVE Late(u, t)' \/ Pending(rowJob[t])'
    BY <1>4, CallFacts DEF AdmitAttached, callVars, Late, Unacked, TypeOK, CallTypes, Admitting
  <1>5. ASSUME NEW c \in Calls, AdmitFails(c) PROVE Late(u, t)' \/ Pending(rowJob[t])'
    BY <1>5, CallFacts DEF AdmitFails, callVars, Late, Unacked, TypeOK, CallTypes, Admitting
  <1>6. ASSUME NEW c \in Calls, Start(c) PROVE Late(u, t)' \/ Pending(rowJob[t])'
    BY <1>6, CallFacts DEF Start, callVars, Late, Unacked, TypeOK, CallTypes
  <1>7. ASSUME NEW c \in Calls, NotDurable(c) PROVE Late(u, t)' \/ Pending(rowJob[t])'
    BY <1>7, CallFacts DEF NotDurable, callVars, Late, Unacked, TypeOK, CallTypes
  <1>8. ASSUME NEW c \in Calls, Attach(c) PROVE Late(u, t)' \/ Pending(rowJob[t])'
    <2>1. CASE Unacked(u, t)
      BY <1>8, <2>1 DEF Attach, Late, Unacked, TypeOK, CallTypes
    <2>2. ASSUME NEW d \in Calls, TreeOf[d] = t, UrlOf[d] = u, pc[d] = "attached",
                 target[d] = rowJob[t], seen[d] # NoVerdict
          PROVE  Late(u, t)' \/ Pending(rowJob[t])'
      <3>1. CASE d = c
        <4>1. rowJob[t] \notin excused'
          BY DEF Excepted
        <4>2. snd'[ReplicaOf[c]][rowJob[t]] = "pass"
          BY <1>8, <2>2, <3>1, <4>1, AttachSends
        <4> QED
          BY <4>2, CallFacts DEF Pending
      <3>2. CASE d # c
        BY <1>8, <2>2, <3>2 DEF Attach, Late, TypeOK, CallTypes
      <3> QED
        BY <3>1, <3>2
    <2> QED
      BY <2>1, <2>2 DEF Late
  <1>9. ASSUME NEW r \in Replicas, NEW j \in Calls, NEW s \in Steps, ClaimStep(r, j, s)
        PROVE  Late(u, t)' \/ Pending(rowJob[t])'
    BY <1>9 DEF ClaimStep, callVars, Late, Unacked, TypeOK, CallTypes
  <1>10. ASSUME NEW r \in Replicas, NEW j \in Calls, NEW s \in Steps, Assign(r, j, s)
         PROVE  Late(u, t)' \/ Pending(rowJob[t])'
    BY <1>10 DEF Assign, callVars, Late, Unacked, TypeOK, CallTypes
  <1>11. ASSUME NEW r \in Replicas, NEW j \in Calls, NEW s \in Steps, NoCapacity(r, j, s)
         PROVE  Late(u, t)' \/ Pending(rowJob[t])'
    BY <1>11 DEF NoCapacity, callVars, Late, Unacked, TypeOK, CallTypes
  <1>12. ASSUME NEW r \in Replicas, NEW j \in Calls, Renew(r, j)
         PROVE  Late(u, t)' \/ Pending(rowJob[t])'
    BY <1>12 DEF Renew, callVars, Late, Unacked, TypeOK, CallTypes
  <1>13. ASSUME NEW r \in Replicas, NEW j \in Calls, Decide(r, j)
         PROVE  Late(u, t)' \/ Pending(rowJob[t])'
    BY <1>13 DEF Decide, callVars, Late, Unacked, TypeOK, CallTypes
  <1>14. ASSUME NEW r \in Replicas, NEW j \in Calls, Settle(r, j)
         PROVE  Late(u, t)' \/ Pending(rowJob[t])'
    BY <1>14 DEF Settle, callVars, Late, Unacked, TypeOK, CallTypes
  <1>15. ASSUME NEW r \in Replicas, NEW j \in Calls, Retire(r, j)
         PROVE  Late(u, t)' \/ Pending(rowJob[t])'
    BY <1>15 DEF Retire, callVars, Late, Unacked, TypeOK, CallTypes
  <1>16. ASSUME NEW r \in Replicas, NEW j \in Calls, Pass(r, j)
         PROVE  Late(u, t)' \/ Pending(rowJob[t])'
    BY <1>16 DEF Pass, callVars, Late, Unacked, TypeOK, CallTypes
  <1>17. ASSUME NEW r \in Replicas, NEW j \in Calls, Reported(r, j)
         PROVE  Late(u, t)' \/ Pending(rowJob[t])'
    BY <1>17 DEF Reported, callVars, Late, Unacked, TypeOK, CallTypes
  <1>18. ASSUME NEW r \in Replicas, Stall(r) PROVE Late(u, t)' \/ Pending(rowJob[t])'
    BY <1>18 DEF Stall, callVars, Late, Unacked, TypeOK, CallTypes
  <1>19. ASSUME NEW r \in Replicas, Wake(r) PROVE Late(u, t)' \/ Pending(rowJob[t])'
    BY <1>19 DEF Wake, callVars, Late, Unacked, TypeOK, CallTypes
  <1>20. ASSUME NEW r \in Replicas, Crash(r) PROVE Late(u, t)' \/ Pending(rowJob[t])'
    BY <1>20, CallFacts DEF Crash, callVars, Late, Unacked, TypeOK, CallTypes
  <1>21. ASSUME NEW r \in Replicas, Restart(r) PROVE Late(u, t)' \/ Pending(rowJob[t])'
    BY <1>21 DEF Restart, callVars, Late, Unacked, TypeOK, CallTypes
  <1>22. CASE Tick
    BY <1>22 DEF Tick, callVars, Late, Unacked, TypeOK, CallTypes
  <1>23. CASE UNCHANGED vars
    BY <1>23 DEF vars, callVars, Late, Unacked, TypeOK, CallTypes
  <1> QED
    BY <1>1, <1>2, <1>3, <1>4, <1>5, <1>6, <1>7, <1>8, <1>9, <1>10, <1>11, <1>12, <1>13, <1>14,
       <1>15, <1>16, <1>17, <1>18, <1>19, <1>20, <1>21, <1>22, <1>23 DEF Next

\* Only these steps change what a row says.
LEMMA RowCases ==
  ASSUME TypeOK, RowInv, [Next]_vars
  PROVE  \/ UNCHANGED <<rowJob, rowVerdict, rowUrls, rowSettled>>
         \/ \E c \in Calls : AdmitWon(c) \/ AdmitAttached(c)
         \/ \E c, j \in Calls : ForgetEvicted(c) /\ j \in dropping[c] /\ RowGone(j)
         \/ \E c \in Calls : NotDurable(c) /\ RowGone(c)
         \/ \E r \in Replicas, j \in Calls : Settle(r, j)
PROOF
  <1>1. ASSUME NEW c \in Calls, ForgetEvicted(c)
        PROVE  \/ UNCHANGED <<rowJob, rowVerdict, rowUrls, rowSettled>>
               \/ \E j \in Calls : j \in dropping[c] /\ RowGone(j)
    BY <1>1, ForgetEvictedEffect DEF rowVars
  <1>2. ASSUME NEW c \in Calls, NotDurable(c)
        PROVE  UNCHANGED <<rowJob, rowVerdict, rowUrls, rowSettled>> \/ RowGone(c)
    BY <1>2, NotDurableEffect DEF rowVars
  <1>3. ASSUME NEW c \in Calls, Evict(c) \/ AdmitFails(c) \/ Start(c) \/ Attach(c)
        PROVE  UNCHANGED <<rowJob, rowVerdict, rowUrls, rowSettled>>
    BY <1>3 DEF Evict, AdmitFails, Start, Attach, rowVars
  <1>4. ASSUME NEW r \in Replicas, NEW j \in Calls, NEW s \in Steps,
               ClaimStep(r, j, s) \/ Assign(r, j, s) \/ NoCapacity(r, j, s)
        PROVE  UNCHANGED <<rowJob, rowVerdict, rowUrls, rowSettled>>
    BY <1>4 DEF ClaimStep, Assign, NoCapacity, rowVars
  <1>5. ASSUME NEW r \in Replicas, NEW j \in Calls,
               Renew(r, j) \/ Decide(r, j) \/ Retire(r, j) \/ Pass(r, j) \/ Reported(r, j)
        PROVE  UNCHANGED <<rowJob, rowVerdict, rowUrls, rowSettled>>
    BY <1>5 DEF Renew, Decide, Retire, Pass, Reported, rowVars
  <1>6. ASSUME NEW r \in Replicas, Stall(r) \/ Wake(r) \/ Crash(r) \/ Restart(r)
        PROVE  UNCHANGED <<rowJob, rowVerdict, rowUrls, rowSettled>>
    BY <1>6 DEF Stall, Wake, Crash, Restart, rowVars
  <1>7. Tick \/ UNCHANGED vars => UNCHANGED <<rowJob, rowVerdict, rowUrls, rowSettled>>
    BY DEF Tick, vars, rowVars
  <1> QED
    BY <1>1, <1>2, <1>3, <1>4, <1>5, <1>6, <1>7 DEF Next

\* A row that keeps its job keeps its verdict and its time.
LEMMA SettledStays ==
  ASSUME TypeOK, RowInv, UnsettledInv, [Next]_vars, NEW t \in Trees, Settled(t),
         rowJob'[t] = rowJob[t]
  PROVE  Settled(t)' /\ rowSettled'[t] = rowSettled[t]
PROOF
  <1>1. rowJob[t] \in Calls /\ ~Fresh(rowJob[t])
    BY DEF Settled, RowInv, TypeOK, RowTypes
  <1>2. ASSUME NEW c \in Calls, AdmitWon(c)
        PROVE  Settled(t)' /\ rowSettled'[t] = rowSettled[t]
    <2>1. TreeOf[c] # t
      BY <1>1, <1>2 DEF AdmitWon, RowWon, Admitting, Fresh, TypeOK, RowTypes
    <2> QED
      BY <1>2, <2>1 DEF AdmitWon, RowWon, Settled, TypeOK, RowTypes
  <1>3. ASSUME NEW j \in Calls, RowGone(j)
        PROVE  Settled(t)' /\ rowSettled'[t] = rowSettled[t]
    BY <1>1, <1>3, CallFacts DEF RowGone, Settled, TypeOK, RowTypes
  <1>4. ASSUME NEW r \in Replicas, NEW j \in Calls, Settle(r, j)
        PROVE  Settled(t)' /\ rowSettled'[t] = rowSettled[t]
    BY <1>4, SettleEffect DEF Settled
  <1>5. ASSUME NEW c \in Calls, AdmitAttached(c)
        PROVE  Settled(t)' /\ rowSettled'[t] = rowSettled[t]
    BY <1>5 DEF AdmitAttached, Settled
  <1> QED
    BY RowCases, <1>2, <1>3, <1>4, <1>5 DEF Settled

\* Who comes to be counted.
LEMMA CountedCases ==
  ASSUME TypeOK, NEW d \in Calls, Counted(d)', [Next]_vars
  PROVE  Counted(d) \/ AdmitWon(d) \/ (AdmitAttached(d) /\ ~Settled(TreeOf[d])) \/ (Attach(d) /\ seen[d] # NoVerdict)
PROOF
  <1> DEFINE Goal == Counted(d) \/ AdmitWon(d) \/ (AdmitAttached(d) /\ ~Settled(TreeOf[d])) \/ (Attach(d) /\ seen[d] # NoVerdict)
  <1>1. ASSUME NEW c \in Calls, Evict(c) PROVE Goal
    BY <1>1, CallFacts DEF Evict, callVars, Counted, TypeOK, CallTypes
  <1>2. ASSUME NEW c \in Calls, ForgetEvicted(c) PROVE Goal
    BY <1>2 DEF ForgetEvicted, callVars, Counted, TypeOK, CallTypes
  <1>3. ASSUME NEW c \in Calls, AdmitWon(c) PROVE Goal
    BY <1>3, CallFacts DEF AdmitWon, callVars, Counted, TypeOK, CallTypes
  <1>4. ASSUME NEW c \in Calls, AdmitAttached(c) PROVE Goal
    BY <1>4, CallFacts DEF AdmitAttached, callVars, Counted, TypeOK, CallTypes, Settled
  <1>5. ASSUME NEW c \in Calls, AdmitFails(c) PROVE Goal
    BY <1>5, CallFacts DEF AdmitFails, callVars, Counted, TypeOK, CallTypes
  <1>6. ASSUME NEW c \in Calls, Start(c) PROVE Goal
    BY <1>6, CallFacts DEF Start, callVars, Counted, TypeOK, CallTypes
  <1>7. ASSUME NEW c \in Calls, NotDurable(c) PROVE Goal
    BY <1>7, CallFacts DEF NotDurable, callVars, Counted, TypeOK, CallTypes
  <1>8. ASSUME NEW c \in Calls, Attach(c) PROVE Goal
    BY <1>8, CallFacts DEF Attach, callVars, Counted, TypeOK, CallTypes
  <1>9. ASSUME NEW r \in Replicas, NEW j \in Calls, NEW s \in Steps, ClaimStep(r, j, s) PROVE Goal
    BY <1>9 DEF ClaimStep, callVars, Counted, TypeOK, CallTypes
  <1>10. ASSUME NEW r \in Replicas, NEW j \in Calls, NEW s \in Steps, Assign(r, j, s) PROVE Goal
    BY <1>10 DEF Assign, callVars, Counted, TypeOK, CallTypes
  <1>11. ASSUME NEW r \in Replicas, NEW j \in Calls, NEW s \in Steps, NoCapacity(r, j, s)
         PROVE  Goal
    BY <1>11 DEF NoCapacity, callVars, Counted, TypeOK, CallTypes
  <1>12. ASSUME NEW r \in Replicas, NEW j \in Calls, Renew(r, j) PROVE Goal
    BY <1>12 DEF Renew, callVars, Counted, TypeOK, CallTypes
  <1>13. ASSUME NEW r \in Replicas, NEW j \in Calls, Decide(r, j) PROVE Goal
    BY <1>13 DEF Decide, callVars, Counted, TypeOK, CallTypes
  <1>14. ASSUME NEW r \in Replicas, NEW j \in Calls, Settle(r, j) PROVE Goal
    BY <1>14 DEF Settle, callVars, Counted, TypeOK, CallTypes
  <1>15. ASSUME NEW r \in Replicas, NEW j \in Calls, Retire(r, j) PROVE Goal
    BY <1>15 DEF Retire, callVars, Counted, TypeOK, CallTypes
  <1>16. ASSUME NEW r \in Replicas, NEW j \in Calls, Pass(r, j) PROVE Goal
    BY <1>16 DEF Pass, callVars, Counted, TypeOK, CallTypes
  <1>17. ASSUME NEW r \in Replicas, NEW j \in Calls, Reported(r, j) PROVE Goal
    BY <1>17 DEF Reported, callVars, Counted, TypeOK, CallTypes
  <1>18. ASSUME NEW r \in Replicas, Stall(r) PROVE Goal
    BY <1>18 DEF Stall, callVars, Counted, TypeOK, CallTypes
  <1>19. ASSUME NEW r \in Replicas, Wake(r) PROVE Goal
    BY <1>19 DEF Wake, callVars, Counted, TypeOK, CallTypes
  <1>20. ASSUME NEW r \in Replicas, Crash(r) PROVE Goal
    BY <1>20, CallFacts DEF Crash, callVars, Counted, TypeOK, CallTypes
  <1>21. ASSUME NEW r \in Replicas, Restart(r) PROVE Goal
    BY <1>21 DEF Restart, callVars, Counted, TypeOK, CallTypes
  <1>22. CASE Tick
    BY <1>22 DEF Tick, callVars, Counted, TypeOK, CallTypes
  <1>23. CASE UNCHANGED vars
    BY <1>23 DEF vars, callVars, Counted, TypeOK, CallTypes
  <1> QED
    BY <1>1, <1>2, <1>3, <1>4, <1>5, <1>6, <1>7, <1>8, <1>9, <1>10, <1>11, <1>12, <1>13, <1>14,
       <1>15, <1>16, <1>17, <1>18, <1>19, <1>20, <1>21, <1>22, <1>23 DEF Next

\* An acked attach to a verdict is served.
LEMMA AttachServes ==
  ASSUME TypeOK, RecInv, SeenInv, BoundInv, NEW d \in Calls, Attach(d), seen[d] # NoVerdict,
         ~Excused(TreeOf[d])'
  PROVE  Served(UrlOf[d], TreeOf[d])'
PROOF
  <1> DEFINE j == target[d]
  <1>1. j \in Calls /\ TreeOf[j] = TreeOf[d] /\ ReplicaOf[d] \in Replicas
    BY CallFacts DEF BoundInv, TypeOK, CallTypes
  <1> HIDE DEF j
  <1>2. j \notin excused'
    BY <1>1 DEF Excused, Excepted
  <1>3. snd'[ReplicaOf[d]][j] = "pass" /\ UrlOf[d] \in recUrls'[ReplicaOf[d]][j]
    BY <1>2, AttachSends DEF j
  <1> QED
    BY <1>1, <1>3 DEF Served, Carried

\* A row whose job is through stays so while it keeps the job.
LEMMA FinishedStays ==
  ASSUME TypeOK, RowInv, UnstartedInv, UnsettledInv, SeenInv, RecInv, BoundInv, TriedInv,
         [Next]_vars,
         NEW t \in Trees, Finished(t), rowJob'[t] = rowJob[t], ~Excused(t)'
  PROVE  Finished(t)'
PROOF
  <1>1. Settled(t)'
    BY SettledStays DEF Finished
  <1>2. rowJob[t] # NoJob /\ ~Fresh(rowJob[t])
    BY DEF Finished, Settled, RowInv
  <1>3. ASSUME NEW d \in Calls, Counted(d)', TreeOf[d] = t
        PROVE  Served(UrlOf[d], t)'
    <2>1. CASE Counted(d)
      BY <1>3, <2>1, ServedStep DEF Finished, AllServed
    <2>2. CASE AdmitWon(d)
      BY <1>2, <1>3, <2>2 DEF AdmitWon, RowWon, Admitting, Fresh, TypeOK, RowTypes
    <2>3. CASE AdmitAttached(d) /\ ~Settled(TreeOf[d])
      BY <1>3, <2>3 DEF Finished
    <2>4. CASE Attach(d) /\ seen[d] # NoVerdict
      BY <1>3, <2>4, AttachServes
    <2> QED
      BY <1>3, <2>1, <2>2, <2>3, <2>4, CountedCases
  <1> QED
    BY <1>1, <1>3 DEF Finished, AllServed

\* Every step keeps DueInv.
LEMMA DueInvStep ==
  ASSUME TypeOK, RowInv, UnstartedInv, UnsettledInv, SeenInv, RecInv, TriedInv, PresentInv,
         DueInv, [Next]_vars
  PROVE  DueInv'
PROOF
  <1> SUFFICES ASSUME NEW t \in Trees, Settled(t)', ~Excepted(rowJob[t])', NEW u \in rowUrls'[t]
               PROVE  Told(u, t)' \/ Pending(rowJob[t])' \/ Late(u, t)'
    BY DEF DueInv
  <1>1. ASSUME rowJob'[t] = rowJob[t], u \in rowUrls[t], Settled(t)
        PROVE  Told(u, t)' \/ Pending(rowJob[t])' \/ Late(u, t)'
    <2>1. rowJob[t] \in Calls /\ TreeOf[rowJob[t]] = t /\ ~Excepted(rowJob[t])
      BY <1>1, MonotoneStep DEF Settled, RowInv, TypeOK, RowTypes, Excepted
    <2>2. CASE Told(u, t)
      BY <2>2, ToldStays
    <2>3. CASE Pending(rowJob[t])
      <3>0. PICK i \in Calls : i = rowJob[t]
        BY <2>1
      <3>1. i \in Calls /\ Pending(i) /\ ~Excepted(i)' /\ rowJob'[t] = i
        BY <1>1, <2>1, <2>3, <3>0 DEF Excepted
      <3>2. u \in Destinations(i)
        BY <1>1, <2>1, <3>0, RowDestinations
      <3>3. TreeOf[i] = t
        BY <2>1, <3>0
      <3>4. Pending(i)' \/ Told(u, t)'
        BY <3>1, <3>2, <3>3, PendingStep
      <3> QED
        BY <3>1, <3>4 DEF Pending
    <2>4. CASE Late(u, t)
      BY <1>1, <2>1, <2>4, LateStep
    <2> QED
      BY <1>1, <2>1, <2>2, <2>3, <2>4 DEF DueInv
  <1>2. CASE UNCHANGED <<rowJob, rowVerdict, rowUrls, rowSettled>>
    BY <1>1, <1>2 DEF Settled
  <1>3. ASSUME NEW c \in Calls, AdmitWon(c)
        PROVE  Told(u, t)' \/ Pending(rowJob[t])' \/ Late(u, t)'
    <2>1. t # TreeOf[c]
      BY <1>3 DEF AdmitWon, RowWon, Settled, TypeOK, RowTypes
    <2> QED
      BY <1>1, <1>3, <2>1 DEF AdmitWon, RowWon, Settled, TypeOK, RowTypes
  <1>4. ASSUME NEW c \in Calls, AdmitAttached(c)
        PROVE  Told(u, t)' \/ Pending(rowJob[t])' \/ Late(u, t)'
    <2>1. rowJob' = rowJob /\ rowVerdict' = rowVerdict
      BY <1>4 DEF AdmitAttached
    <2>2. CASE u \in rowUrls[t]
      BY <1>1, <2>1, <2>2 DEF Settled
    <2>3. CASE u \notin rowUrls[t]
      <3>1. t = TreeOf[c] /\ u = UrlOf[c]
        BY <1>4, <2>3 DEF AdmitAttached, TypeOK, RowTypes
      <3>2. pc'[c] \in {"attached", "refused"} /\ target'[c] = rowJob[t] /\ seen'[c] = rowVerdict[t]
        BY <1>4, <3>1 DEF AdmitAttached, TypeOK, CallTypes
      <3> QED
        BY <2>1, <3>1, <3>2 DEF Late, Unacked, Settled
    <2> QED
      BY <2>2, <2>3
  <1>5. ASSUME NEW j \in Calls, RowGone(j)
        PROVE  Told(u, t)' \/ Pending(rowJob[t])' \/ Late(u, t)'
    <2>1. t # TreeOf[j]
      BY <1>5 DEF RowGone, Settled, TypeOK, RowTypes
    <2> QED
      BY <1>1, <1>5, <2>1 DEF RowGone, Settled, TypeOK, RowTypes
  <1>6. ASSUME NEW r \in Replicas, NEW j \in Calls, Settle(r, j)
        PROVE  Told(u, t)' \/ Pending(rowJob[t])' \/ Late(u, t)'
    <2>1. rowJob' = rowJob /\ rowUrls' = rowUrls
      BY <1>6 DEF Settle
    <2>2. CASE Settled(t)
      BY <1>1, <2>1, <2>2
    <2>3. CASE ~Settled(t)
      <3>1. rowJob[t] = j
        BY <1>6, <2>3, SettleEffect DEF Settled
      <3>2. drv'[j] = "journal"
        BY <1>6 DEF Settle, TypeOK, DrvTypes
      <3> QED
        BY <2>1, <3>1, <3>2 DEF Pending
    <2> QED
      BY <2>2, <2>3
  <1> QED
    BY RowCases, <1>2, <1>3, <1>4, <1>5, <1>6

\* Every step keeps CountedInv.
LEMMA CountedInvStep ==
  ASSUME TypeOK, RowInv, UnstartedInv, UnsettledInv, SeenInv, RecInv, BoundInv, TriedInv,
         PresentInv,
         CountedInv, DropInv, TimeInv, [Next]_vars
  PROVE  CountedInv'
PROOF
  <1> SUFFICES ASSUME NEW d \in Calls, Counted(d)', ~Excused(TreeOf[d])'
               PROVE  Served(UrlOf[d], TreeOf[d])' \/ OnRow(UrlOf[d], TreeOf[d])'
    BY DEF CountedInv
  <1>0. PICK u \in Urls, t \in Trees : u = UrlOf[d] /\ t = TreeOf[d]
    BY CallFacts
  <1>1. t \in Trees /\ u \in Urls /\ ~Excused(t) /\ \A j \in Calls : TreeOf[j] = t => ~Excepted(j)'
    BY <1>0, CallFacts, ToldStays DEF Excused
  <1>2. CASE AdmitWon(d)
    BY <1>0, <1>2, CallFacts DEF AdmitWon, RowWon, OnRow, Settled, TypeOK, RowTypes
  <1>3. CASE AdmitAttached(d) /\ ~Settled(t)
    BY <1>0, <1>3, CallFacts DEF AdmitAttached, OnRow, Settled, TypeOK, RowTypes
  <1>4. CASE Attach(d) /\ seen[d] # NoVerdict
    BY <1>0, <1>4, AttachServes
  <1>5. CASE Counted(d)
    <2>1. CASE Served(u, t)
      BY <1>0, <1>1, <2>1, ServedStep
    <2>2. CASE OnRow(u, t)
      <3>1. rowJob[t] \in Calls /\ TreeOf[rowJob[t]] = t
        BY <1>1, <2>2 DEF OnRow, RowInv, TypeOK, RowTypes
      <3>2. ASSUME rowJob'[t] = rowJob[t], u \in rowUrls'[t], rowVerdict'[t] = rowVerdict[t]
            PROVE  Served(u, t)' \/ OnRow(u, t)'
        <4>1. CASE ~Settled(t)
          BY <3>2, <4>1 DEF OnRow, Settled
        <4>2. CASE Pending(rowJob[t])
          <5>0. PICK i \in Calls : i = rowJob[t]
            BY <3>1
          <5>1. i \in Calls /\ Pending(i) /\ ~Excepted(i)' /\ rowJob'[t] = i /\ TreeOf[i] = t
            BY <1>1, <3>1, <3>2, <4>2, <5>0 DEF Excepted
          <5>2. u \in Destinations(i)
            BY <1>1, <2>2, <3>1, <5>0, RowDestinations DEF OnRow
          <5>3. Pending(i)' \/ Told(u, t)'
            BY <5>1, <5>2, PendingStep
          <5> QED
            BY <3>2, <5>1, <5>3 DEF Pending, Served, OnRow
        <4> QED
          BY <2>2, <4>1, <4>2 DEF OnRow
      <3>3. CASE UNCHANGED <<rowJob, rowVerdict, rowUrls, rowSettled>>
        <4>1. rowJob'[t] = rowJob[t] /\ u \in rowUrls'[t] /\ rowVerdict'[t] = rowVerdict[t]
          BY <2>2, <3>3 DEF OnRow
        <4> QED
          BY <1>0, <3>2, <4>1
      <3>4. ASSUME NEW c \in Calls, AdmitWon(c)
            PROVE  Served(u, t)' \/ OnRow(u, t)'
        <4>1. CASE t # TreeOf[c]
          BY <1>1, <2>2, <3>2, <3>4, <4>1 DEF AdmitWon, RowWon, OnRow, TypeOK, RowTypes
        <4>2. CASE t = TreeOf[c] /\ ~Settled(t)
          <5>1. rowVerdict'[t] = NoVerdict /\ rowUrls[t] \subseteq rowUrls'[t]
            BY <1>1, <3>1, <3>4, <4>2, CallFacts DEF AdmitWon, RowWon, AgedOut, Settled, TypeOK,
               RowTypes
          <5> QED
            BY <2>2, <5>1 DEF OnRow, Settled
        <4>3. CASE t = TreeOf[c] /\ Settled(t)
          <5> DEFINE r == ReplicaOf[c] o == ReplicaOf[rowJob[t]]
          <5>1. r \in Replicas /\ o \in Replicas /\ rowJob[t] # NoJob
            BY <3>1, CallFacts
          <5>2. rowSettled[t] + Retention <= now + Skew[r]
            BY <3>4, <4>3, <5>1 DEF AdmitWon, Takeover, AgedOut, Settled, Clock
          <5> HIDE DEF r, o
          <5>3. /\ rowSettled[t] \in Nat /\ now \in Nat /\ Retention \in Nat /\ Skew[r] \in Nat /\ Skew[o] \in Nat
                /\ Skew[r] < Skew[o] + Retention
            BY <1>1, <5>1, ClaimsAssumption, ClocksAgree DEF TypeOK, RowTypes, ProcTypes
          <5>4. rowSettled[t] < now + Skew[o]
            BY <5>2, <5>3
          <5>5. AllServed(t)
            BY <1>1, <4>3, <5>1, <5>4 DEF TimeInv, Clock, o
          <5>6. Served(u, t)
            BY <1>0, <1>5, <5>5 DEF AllServed
          <5> QED
            BY <1>0, <1>1, <5>6, ServedStep
        <4> QED
          BY <4>1, <4>2, <4>3
      <3>5. ASSUME NEW c \in Calls, AdmitAttached(c)
            PROVE  Served(u, t)' \/ OnRow(u, t)'
        BY <1>1, <2>2, <3>2, <3>5 DEF AdmitAttached, OnRow, TypeOK, RowTypes
      <3>6. ASSUME NEW c \in Calls, NEW j \in Calls, j \in dropping[c], RowGone(j)
            PROVE  Served(u, t)' \/ OnRow(u, t)'
        <4>1. CASE t # TreeOf[j]
          BY <1>1, <2>2, <3>2, <3>6, <4>1 DEF RowGone, OnRow, TypeOK, RowTypes
        <4>2. CASE t = TreeOf[j]
          <5>1. AllServed(t)
            BY <1>1, <3>6, <4>2 DEF RowGone, DropInv, Finished
          <5>2. Served(u, t)
            BY <1>0, <1>5, <5>1 DEF AllServed
          <5> QED
            BY <1>0, <1>1, <5>2, ServedStep
        <4> QED
          BY <4>1, <4>2
      <3>7. ASSUME NEW c \in Calls, NotDurable(c), RowGone(c)
            PROVE  Served(u, t)' \/ OnRow(u, t)'
        <4>1. t # TreeOf[c]
          BY <1>1, <3>7 DEF NotDurable, Excepted
        <4> QED
          BY <1>1, <2>2, <3>2, <3>7, <4>1 DEF RowGone, OnRow, TypeOK, RowTypes
      <3>8. ASSUME NEW r \in Replicas, NEW j \in Calls, Settle(r, j)
            PROVE  Served(u, t)' \/ OnRow(u, t)'
        <4>1. UNCHANGED <<rowJob, rowUrls>> /\ drv'[j] = "journal"
          BY <3>8 DEF Settle, TypeOK, DrvTypes
        <4>2. CASE rowJob[t] = j
          BY <2>2, <4>1, <4>2 DEF OnRow, Pending
        <4>3. CASE rowJob[t] # j
          BY <1>1, <2>2, <3>2, <3>8, <4>1, <4>3, SettleEffect DEF OnRow
        <4> QED
          BY <4>2, <4>3
      <3> QED
        BY <1>0, RowCases, <3>3, <3>4, <3>5, <3>6, <3>7, <3>8
    <2> QED
      BY <1>0, <1>1, <1>5, <2>1, <2>2 DEF CountedInv
  <1> QED
    BY <1>0, <1>2, <1>3, <1>4, <1>5, CountedCases

\* A job that holds its row after another was forgotten held it before.
LEMMA HeldBefore ==
  ASSUME TypeOK, RowInv, NEW c \in Calls, ForgetEvicted(c), NEW i \in Calls, rowJob'[TreeOf[i]] = i
  PROVE  rowJob[TreeOf[i]] = i
PROOF
  <1>1. PICK e \in Calls : UNCHANGED <<rowVars, stepRows, inFlightWhenLost>> \/ RowGone(e)
    BY ForgetEvictedEffect
  <1>2. CASE UNCHANGED <<rowVars, stepRows, inFlightWhenLost>>
    BY <1>2 DEF rowVars
  <1>3. CASE RowGone(e)
    <2>1. rowJob' = [rowJob EXCEPT ![TreeOf[e]] = NoJob] /\ rowJob \in [Trees -> Calls \cup {NoJob}]
      BY <1>3 DEF RowGone, TypeOK, RowTypes
    <2> QED
      BY <2>1, CallFacts
  <1> QED
    BY <1>1, <1>2, <1>3

\* How a sender comes to be through.
LEMMA ThroughCases ==
  ASSUME TypeOK, RowInv, UnstartedInv, NEW q \in Replicas, NEW i \in Calls, Through(q, i)',
         ~Excepted(i)', rowJob'[TreeOf[i]] = i, [Next]_vars
  PROVE  (rowJob[TreeOf[i]] = i /\ Through(q, i)) \/ Pass(q, i)
PROOF
  <1> DEFINE Goal == (rowJob[TreeOf[i]] = i /\ Through(q, i)) \/ Pass(q, i)
  <1>1. ASSUME NEW c \in Calls, Evict(c) PROVE Goal
    BY <1>1, CallFacts DEF Evict, rowVars, recVars, drvVars, sndVars, Through, TypeOK, RecTypes
  <1>2. ASSUME NEW c \in Calls, ForgetEvicted(c) PROVE Goal
    <2>1. rowJob[TreeOf[i]] = i
      BY <1>2, HeldBefore
    <2> QED
      BY <1>2, <2>1 DEF ForgetEvicted, recVars, drvVars, sndVars, Through
  <1>3. ASSUME NEW c \in Calls, AdmitWon(c) PROVE Goal
    <2>1. i # c
      BY <1>3 DEF AdmitWon, Admitting, UnstartedInv, Unstarted, Through, recVars, sndVars
    <2>2. rowJob[TreeOf[i]] = i
      BY <1>3, <2>1, CallFacts DEF AdmitWon, RowWon, TypeOK, RowTypes
    <2> QED
      BY <1>3, <2>2 DEF AdmitWon, recVars, drvVars, sndVars, Through
  <1>4. ASSUME NEW c \in Calls, AdmitAttached(c) PROVE Goal
    BY <1>4 DEF AdmitAttached, rowVars, recVars, drvVars, sndVars, Through
  <1>5. ASSUME NEW c \in Calls, AdmitFails(c) PROVE Goal
    BY <1>5 DEF AdmitFails, rowVars, recVars, drvVars, sndVars, Through
  <1>6. ASSUME NEW c \in Calls, Start(c) PROVE Goal
    <2>1. i # c
      BY <1>6, CallFacts DEF Start, UnstartedInv, Unstarted, Through, sndVars, TypeOK, RecTypes
    <2> QED
      BY <1>6, <2>1, CallFacts DEF Start, Through, rowVars, sndVars, TypeOK, RecTypes, DrvTypes
  <1>7. ASSUME NEW c \in Calls, NotDurable(c) PROVE Goal
    <2>0. UNCHANGED rowJob \/ RowGone(c)
      BY <1>7, NotDurableEffect DEF rowVars
    <2>1. rowJob[TreeOf[i]] = i
      BY <2>0, CallFacts DEF RowGone, TypeOK, RowTypes
    <2> QED
      BY <1>7, <2>1 DEF NotDurable, recVars, drvVars, sndVars, Through
  <1>8. ASSUME NEW c \in Calls, Attach(c) PROVE Goal
    <2>1. target[c] \in Calls /\ ReplicaOf[c] \in Replicas
      BY CallFacts DEF TypeOK, CallTypes
    <2> QED
      BY <1>8, <2>1 DEF Attach, Through, Excepted, rowVars, drvVars, TypeOK, RecTypes, SndTypes
  <1>9. ASSUME NEW r \in Replicas, NEW j \in Calls, NEW s \in Steps, ClaimStep(r, j, s) PROVE Goal
    BY <1>9 DEF ClaimStep, rowVars, recVars, drvVars, sndVars, Through
  <1>10. ASSUME NEW r \in Replicas, NEW j \in Calls, NEW s \in Steps, Assign(r, j, s) PROVE Goal
    BY <1>10 DEF Assign, rowVars, recVars, drvVars, sndVars, Through
  <1>11. ASSUME NEW r \in Replicas, NEW j \in Calls, NEW s \in Steps, NoCapacity(r, j, s)
         PROVE  Goal
    BY <1>11 DEF NoCapacity, rowVars, recVars, drvVars, sndVars, Through
  <1>12. ASSUME NEW r \in Replicas, NEW j \in Calls, Renew(r, j) PROVE Goal
    BY <1>12 DEF Renew, rowVars, recVars, drvVars, sndVars, Through
  <1>13. ASSUME NEW r \in Replicas, NEW j \in Calls, Decide(r, j) PROVE Goal
    BY <1>13, CallFacts DEF Decide, rowVars, recVars, drvVars, sndVars, Through, TypeOK, RecTypes,
       DrvTypes
  <1>14. ASSUME NEW r \in Replicas, NEW j \in Calls, Settle(r, j) PROVE Goal
    BY <1>14, CallFacts DEF Settle, rowVars, recVars, drvVars, sndVars, Through, TypeOK, DrvTypes
  <1>15. ASSUME NEW r \in Replicas, NEW j \in Calls, Retire(r, j) PROVE Goal
    BY <1>15, CallFacts DEF Retire, rowVars, recVars, drvVars, sndVars, Through, Excepted, TypeOK,
       SndTypes, DrvTypes
  <1>16. ASSUME NEW r \in Replicas, NEW j \in Calls, Pass(r, j) PROVE Goal
    <2>1. CASE q = r /\ i = j
      BY <1>16, <2>1
    <2>2. CASE ~(q = r /\ i = j)
      <3>1. snd'[q][i] = snd[q][i]
        BY <1>16, <2>2 DEF Pass, TypeOK, SndTypes
      <3> QED
        BY <1>16, <3>1 DEF Pass, Through, rowVars, drvVars
    <2> QED
      BY <2>1, <2>2
  <1>17. ASSUME NEW r \in Replicas, NEW j \in Calls, Reported(r, j) PROVE Goal
    BY <1>17, CallFacts DEF Reported, rowVars, recVars, drvVars, sndVars, Through, TypeOK,
       RecTypes, SndTypes
  <1>18. ASSUME NEW r \in Replicas, Stall(r) PROVE Goal
    BY <1>18 DEF Stall, rowVars, recVars, drvVars, sndVars, Through
  <1>19. ASSUME NEW r \in Replicas, Wake(r) PROVE Goal
    BY <1>19 DEF Wake, rowVars, recVars, drvVars, sndVars, Through
  <1>20. ASSUME NEW r \in Replicas, Crash(r) PROVE Goal
    BY <1>20, CallFacts DEF Crash, rowVars, recVars, drvVars, sndVars, Through, TypeOK, RecTypes,
       SndTypes, DrvTypes
  <1>21. ASSUME NEW r \in Replicas, Restart(r) PROVE Goal
    BY <1>21 DEF Restart, rowVars, recVars, drvVars, sndVars, Through
  <1>22. CASE Tick
    BY <1>22 DEF Tick, rowVars, recVars, drvVars, sndVars, Through
  <1>23. CASE UNCHANGED vars
    BY <1>23 DEF vars, rowVars, recVars, drvVars, sndVars, Through
  <1> QED
    BY <1>1, <1>2, <1>3, <1>4, <1>5, <1>6, <1>7, <1>8, <1>9, <1>10, <1>11, <1>12, <1>13, <1>14,
       <1>15, <1>16, <1>17, <1>18, <1>19, <1>20, <1>21, <1>22, <1>23 DEF Next

\* A last pass finds nothing new on the row: everybody is served.
LEMMA PassEnds ==
  ASSUME TypeOK, RowInv, UnstartedInv, RecInv, TriedInv, DriveInv, PresentInv, SettledInv,
         CountedInv,
         [Next]_vars, NEW r \in Replicas, NEW j \in Calls, NEW t \in Trees, Pass(r, j), t = TreeOf[j],
         rowJob[t] = j, Through(r, j)', ~Excused(t)'
  PROVE  Finished(t)'
PROOF
  <1>1. /\ ~Excused(t) /\ ~Excepted(j) /\ ~Excepted(j)'
    BY ToldStays DEF Excused
  <1>2. UNCHANGED <<rowVars, callVars, drvVars>> /\ snd[r][j] = "pass"
    BY DEF Pass
  <1>3. Present(r, j)
    BY <1>1, <1>2 DEF PresentInv, Delivering
  <1>4. ~Deciding(r, j)
    BY <1>2 DEF Deciding, Through, DriveInv, RecInv, drvVars
  <1>5. Settled(t)
    BY <1>1, <1>3, <1>4 DEF SettledInv
  <1>6. Destinations(j) \subseteq recUrls'[r][j]
    BY <1>1, <1>3, PassEffect DEF Excepted, TypeOK, RecTypes
  <1>7. \A u \in rowUrls[t] : Told(u, t)'
    BY <1>6, PassTells, RowDestinations
  <1>8. ASSUME NEW d \in Calls, Counted(d)', TreeOf[d] = t
        PROVE  Served(UrlOf[d], t)'
    <2>1. Counted(d)
      BY <1>2, <1>8 DEF Counted, callVars
    <2>2. CASE Served(UrlOf[d], t)
      BY <2>2, ServedStep
    <2>3. CASE OnRow(UrlOf[d], t)
      BY <1>7, <2>3 DEF OnRow, Served
    <2> QED
      BY <1>1, <1>8, <2>1, <2>2, <2>3 DEF CountedInv
  <1> QED
    BY <1>2, <1>5, <1>8 DEF Finished, AllServed, Settled, rowVars

\* Every step keeps EndInv.
LEMMA EndInvStep ==
  ASSUME TypeOK, RowInv, UnstartedInv, UnsettledInv, SeenInv, RecInv, BoundInv, TriedInv,
         DriveInv,
         PresentInv, SettledInv, CountedInv, EndInv, [Next]_vars
  PROVE  EndInv'
PROOF
  <1> SUFFICES ASSUME NEW q \in Replicas, NEW i \in Calls, rowJob'[TreeOf[i]] = i,
                      ~Excused(TreeOf[i])', Through(q, i)'
               PROVE  Finished(TreeOf[i])'
    BY DEF EndInv
  <1>1. PICK t \in Trees : t = TreeOf[i]
    BY CallFacts
  <1>2. ~Excused(t) /\ ~Excepted(i)'
    BY <1>1, ToldStays DEF Excused
  <1>3. CASE rowJob[t] = i /\ Through(q, i)
    <2>1. Finished(t)
      BY <1>1, <1>2, <1>3 DEF EndInv
    <2> QED
      BY <1>1, <1>3, <2>1, FinishedStays
  <1>4. CASE Pass(q, i)
    <2>1. rowJob[t] = i
      BY <1>1, <1>4 DEF Pass, rowVars
    <2> QED
      BY <1>1, <1>4, <2>1, PassEnds
  <1> QED
    BY <1>1, <1>2, <1>3, <1>4, ThroughCases

\* How a job comes to be forgotten.
LEMMA DropCases ==
  ASSUME TypeOK, RowInv, BoundInv, NEW d \in Calls, NEW i \in Calls, i \in dropping'[d],
         ~Excepted(i)', rowJob'[TreeOf[i]] = i, [Next]_vars
  PROVE  rowJob[TreeOf[i]] = i /\ (i \in dropping[d] \/ \E q \in Replicas : Through(q, i))
PROOF
  <1> DEFINE Goal == rowJob[TreeOf[i]] = i /\ (i \in dropping[d] \/ \E q \in Replicas : Through(q, i))
  <1>1. ASSUME NEW c \in Calls, Evict(c) PROVE Goal
    <2>1. rowJob[TreeOf[i]] = i
      BY <1>1 DEF Evict, rowVars
    <2>2. CASE d # c
      BY <1>1, <2>1, <2>2 DEF Evict, TypeOK, CallTypes
    <2>3. CASE d = c
      <3>1. i \notin excused'
        BY DEF Excepted
      <3>2. rec[ReplicaOf[c]][i] = "reported" /\ snd[ReplicaOf[c]][i] = "off"
        BY <1>1, <2>3, <3>1 DEF Evict, TypeOK, CallTypes
      <3>3. ~(ReplicaOf[i] = ReplicaOf[c] /\ drv[i] \in {"settle", "journal"})
        BY <1>1, <2>3, <3>1 DEF Evict, TypeOK, CallTypes
      <3> QED
        BY <2>1, <3>2, <3>3, CallFacts DEF Through
    <2> QED
      BY <2>2, <2>3
  <1>2. ASSUME NEW c \in Calls, ForgetEvicted(c) PROVE Goal
    <2>1. rowJob[TreeOf[i]] = i
      BY <1>2, HeldBefore
    <2> QED
      BY <1>2, <2>1, ForgetEvictedEffect DEF TypeOK, CallTypes
  <1>3. ASSUME NEW c \in Calls, AdmitWon(c) PROVE Goal
    <2>1. i \in dropping[d]
      BY <1>3 DEF AdmitWon
    <2>2. i # c
      BY <1>3, <2>1 DEF AdmitWon, Admitting, BoundInv, Unstarted
    <2> QED
      BY <1>3, <2>1, <2>2, CallFacts DEF AdmitWon, RowWon, TypeOK, RowTypes
  <1>4. ASSUME NEW c \in Calls, AdmitAttached(c) PROVE Goal
    BY <1>4 DEF AdmitAttached, rowVars, callVars
  <1>5. ASSUME NEW c \in Calls, AdmitFails(c) PROVE Goal
    BY <1>5 DEF AdmitFails, rowVars, callVars
  <1>6. ASSUME NEW c \in Calls, Start(c) PROVE Goal
    BY <1>6 DEF Start, rowVars, callVars
  <1>7. ASSUME NEW c \in Calls, NotDurable(c) PROVE Goal
    <2>0. UNCHANGED rowJob \/ RowGone(c)
      BY <1>7, NotDurableEffect DEF rowVars
    <2>1. rowJob[TreeOf[i]] = i
      BY <2>0, CallFacts DEF RowGone, TypeOK, RowTypes
    <2> QED
      BY <1>7, <2>1 DEF NotDurable
  <1>8. ASSUME NEW c \in Calls, Attach(c) PROVE Goal
    BY <1>8 DEF Attach, rowVars, callVars
  <1>9. ASSUME NEW r \in Replicas, NEW j \in Calls, NEW s \in Steps, ClaimStep(r, j, s) PROVE Goal
    BY <1>9 DEF ClaimStep, rowVars, callVars
  <1>10. ASSUME NEW r \in Replicas, NEW j \in Calls, NEW s \in Steps, Assign(r, j, s) PROVE Goal
    BY <1>10 DEF Assign, rowVars, callVars
  <1>11. ASSUME NEW r \in Replicas, NEW j \in Calls, NEW s \in Steps, NoCapacity(r, j, s)
         PROVE  Goal
    BY <1>11 DEF NoCapacity, rowVars, callVars
  <1>12. ASSUME NEW r \in Replicas, NEW j \in Calls, Renew(r, j) PROVE Goal
    BY <1>12 DEF Renew, rowVars, callVars
  <1>13. ASSUME NEW r \in Replicas, NEW j \in Calls, Decide(r, j) PROVE Goal
    BY <1>13 DEF Decide, rowVars, callVars
  <1>14. ASSUME NEW r \in Replicas, NEW j \in Calls, Settle(r, j) PROVE Goal
    BY <1>14 DEF Settle, rowVars, callVars
  <1>15. ASSUME NEW r \in Replicas, NEW j \in Calls, Retire(r, j) PROVE Goal
    BY <1>15 DEF Retire, rowVars, callVars
  <1>16. ASSUME NEW r \in Replicas, NEW j \in Calls, Pass(r, j) PROVE Goal
    BY <1>16 DEF Pass, rowVars, callVars
  <1>17. ASSUME NEW r \in Replicas, NEW j \in Calls, Reported(r, j) PROVE Goal
    BY <1>17 DEF Reported, rowVars, callVars
  <1>18. ASSUME NEW r \in Replicas, Stall(r) PROVE Goal
    BY <1>18 DEF Stall, rowVars, callVars
  <1>19. ASSUME NEW r \in Replicas, Wake(r) PROVE Goal
    BY <1>19 DEF Wake, rowVars, callVars
  <1>20. ASSUME NEW r \in Replicas, Crash(r) PROVE Goal
    BY <1>20, CallFacts DEF Crash, rowVars, callVars, TypeOK, CallTypes
  <1>21. ASSUME NEW r \in Replicas, Restart(r) PROVE Goal
    BY <1>21 DEF Restart, rowVars, callVars
  <1>22. CASE Tick
    BY <1>22 DEF Tick, rowVars, callVars
  <1>23. CASE UNCHANGED vars
    BY <1>23 DEF vars, rowVars, callVars
  <1> QED
    BY <1>1, <1>2, <1>3, <1>4, <1>5, <1>6, <1>7, <1>8, <1>9, <1>10, <1>11, <1>12, <1>13, <1>14,
       <1>15, <1>16, <1>17, <1>18, <1>19, <1>20, <1>21, <1>22, <1>23 DEF Next

\* Every step keeps DropInv.
LEMMA DropInvStep ==
  ASSUME TypeOK, RowInv, UnstartedInv, UnsettledInv, SeenInv, RecInv, BoundInv, TriedInv, EndInv,
         DropInv,
         [Next]_vars
  PROVE  DropInv'
PROOF
  <1> SUFFICES ASSUME NEW d \in Calls, NEW i \in dropping'[d], rowJob'[TreeOf[i]] = i,
                      ~Excused(TreeOf[i])'
               PROVE  Finished(TreeOf[i])'
    BY DEF DropInv
  <1>0. i \in Calls
    BY CallTypesStep DEF CallTypes
  <1>1. PICK t \in Trees : t = TreeOf[i]
    BY <1>0, CallFacts
  <1>2. ~Excused(t) /\ ~Excepted(i)'
    BY <1>0, <1>1, ToldStays DEF Excused
  <1>3. rowJob[t] = i /\ (i \in dropping[d] \/ \E q \in Replicas : Through(q, i))
    BY <1>0, <1>1, <1>2, DropCases
  <1>4. Finished(t)
    BY <1>0, <1>1, <1>2, <1>3 DEF DropInv, EndInv
  <1> QED
    BY <1>1, <1>3, <1>4, FinishedStays

\* Only a tick changes the time.
LEMMA NowCases ==
  ASSUME TypeOK, [Next]_vars
  PROVE  Tick \/ now' = now
PROOF
  <1>1. ASSUME NEW c \in Calls, Evict(c) PROVE Tick \/ now' = now
    BY <1>1 DEF Evict
  <1>2. ASSUME NEW c \in Calls, ForgetEvicted(c) PROVE Tick \/ now' = now
    BY <1>2 DEF ForgetEvicted
  <1>3. ASSUME NEW c \in Calls, AdmitWon(c) PROVE Tick \/ now' = now
    BY <1>3 DEF AdmitWon
  <1>4. ASSUME NEW c \in Calls, AdmitAttached(c) PROVE Tick \/ now' = now
    BY <1>4 DEF AdmitAttached
  <1>5. ASSUME NEW c \in Calls, AdmitFails(c) PROVE Tick \/ now' = now
    BY <1>5 DEF AdmitFails
  <1>6. ASSUME NEW c \in Calls, Start(c) PROVE Tick \/ now' = now
    BY <1>6 DEF Start
  <1>7. ASSUME NEW c \in Calls, NotDurable(c) PROVE Tick \/ now' = now
    BY <1>7 DEF NotDurable
  <1>8. ASSUME NEW c \in Calls, Attach(c) PROVE Tick \/ now' = now
    BY <1>8 DEF Attach
  <1>9. ASSUME NEW r \in Replicas, NEW j \in Calls, NEW s \in Steps, ClaimStep(r, j, s)
        PROVE  Tick \/ now' = now
    BY <1>9 DEF ClaimStep
  <1>10. ASSUME NEW r \in Replicas, NEW j \in Calls, NEW s \in Steps, Assign(r, j, s)
         PROVE  Tick \/ now' = now
    BY <1>10 DEF Assign
  <1>11. ASSUME NEW r \in Replicas, NEW j \in Calls, NEW s \in Steps, NoCapacity(r, j, s)
         PROVE  Tick \/ now' = now
    BY <1>11 DEF NoCapacity
  <1>12. ASSUME NEW r \in Replicas, NEW j \in Calls, Renew(r, j) PROVE Tick \/ now' = now
    BY <1>12 DEF Renew
  <1>13. ASSUME NEW r \in Replicas, NEW j \in Calls, Decide(r, j) PROVE Tick \/ now' = now
    BY <1>13 DEF Decide
  <1>14. ASSUME NEW r \in Replicas, NEW j \in Calls, Settle(r, j) PROVE Tick \/ now' = now
    BY <1>14 DEF Settle
  <1>15. ASSUME NEW r \in Replicas, NEW j \in Calls, Retire(r, j) PROVE Tick \/ now' = now
    BY <1>15 DEF Retire
  <1>16. ASSUME NEW r \in Replicas, NEW j \in Calls, Pass(r, j) PROVE Tick \/ now' = now
    BY <1>16 DEF Pass
  <1>17. ASSUME NEW r \in Replicas, NEW j \in Calls, Reported(r, j) PROVE Tick \/ now' = now
    BY <1>17 DEF Reported
  <1>18. ASSUME NEW r \in Replicas, Stall(r) PROVE Tick \/ now' = now
    BY <1>18 DEF Stall
  <1>19. ASSUME NEW r \in Replicas, Wake(r) PROVE Tick \/ now' = now
    BY <1>19 DEF Wake
  <1>20. ASSUME NEW r \in Replicas, Crash(r) PROVE Tick \/ now' = now
    BY <1>20 DEF Crash
  <1>21. ASSUME NEW r \in Replicas, Restart(r) PROVE Tick \/ now' = now
    BY <1>21 DEF Restart
  <1>22. CASE Tick
    BY <1>22
  <1>23. CASE UNCHANGED vars
    BY <1>23 DEF vars
  <1> QED
    BY <1>1, <1>2, <1>3, <1>4, <1>5, <1>6, <1>7, <1>8, <1>9, <1>10, <1>11, <1>12, <1>13, <1>14,
       <1>15, <1>16, <1>17, <1>18, <1>19, <1>20, <1>21, <1>22, <1>23 DEF Next

\* Every step keeps TimeInv.
LEMMA TimeInvStep ==
  ASSUME TypeOK, RowInv, UnstartedInv, UnsettledInv, SeenInv, RecInv, BoundInv, TriedInv,
         StoppedInv,
         CountedInv, TimeInv, [Next]_vars
  PROVE  TimeInv'
PROOF
  <1> SUFFICES ASSUME NEW t \in Trees, rowJob'[t] # NoJob, ~Excused(t)', Settled(t)',
                      rowSettled'[t] < Clock(ReplicaOf[rowJob[t]])'
               PROVE  AllServed(t)'
    BY DEF TimeInv
  <1>1. ~Excused(t)
    BY ToldStays
  <1>2. CASE Tick
    <2>1. UNCHANGED <<rowVars, callVars>>
      BY <1>2 DEF Tick
    <2>2. Settled(t) /\ rowJob[t] \in Calls /\ TreeOf[rowJob[t]] = t
      BY <2>1 DEF Settled, rowVars, TypeOK, RowTypes, RowInv
    <2>3. ~Excepted(rowJob[t])
      BY <1>1, <2>2 DEF Excused
    <2>4. ASSUME NEW r \in Replicas, rowJob[t] \in Unsent(r)
          PROVE  FALSE
      BY <1>2, <2>3, <2>4 DEF Tick, StoppedInv, Unsent, Excepted
    <2>5. ~Pending(rowJob[t])
      BY <2>2, <2>4, CallFacts DEF Pending, Unsent
    <2>6. ASSUME NEW d \in Calls, Counted(d)', TreeOf[d] = t
          PROVE  Served(UrlOf[d], t)'
      <3>1. Counted(d)
        BY <2>1, <2>6 DEF Counted, callVars
      <3>2. Served(UrlOf[d], t)
        BY <1>1, <2>2, <2>5, <2>6, <3>1 DEF CountedInv, OnRow
      <3> QED
        BY <3>2, ServedStep
    <2> QED
      BY <2>6 DEF AllServed
  <1>3. CASE now' = now
    <2>1. ASSUME rowJob'[t] = rowJob[t], Settled(t)
          PROVE  AllServed(t)'
      <3>1. rowSettled[t] < Clock(ReplicaOf[rowJob[t]])
        BY <1>3, <2>1, SettledStays DEF Clock
      <3>2. Finished(t)
        BY <1>1, <2>1, <3>1 DEF TimeInv, Finished
      <3> QED
        BY <2>1, <3>2, FinishedStays DEF Finished
    <2>2. CASE UNCHANGED <<rowJob, rowVerdict, rowUrls, rowSettled>>
      BY <2>1, <2>2 DEF Settled
    <2>3. ASSUME NEW c \in Calls, AdmitWon(c)
          PROVE  AllServed(t)'
      <3>1. t # TreeOf[c]
        BY <2>3 DEF AdmitWon, RowWon, Settled, TypeOK, RowTypes
      <3> QED
        BY <2>1, <2>3, <3>1 DEF AdmitWon, RowWon, Settled, TypeOK, RowTypes
    <2>4. ASSUME NEW c \in Calls, AdmitAttached(c)
          PROVE  AllServed(t)'
      BY <2>1, <2>4 DEF AdmitAttached, Settled
    <2>5. ASSUME NEW j \in Calls, RowGone(j)
          PROVE  AllServed(t)'
      <3>1. t # TreeOf[j]
        BY <2>5 DEF RowGone, Settled, TypeOK, RowTypes
      <3> QED
        BY <2>1, <2>5, <3>1 DEF RowGone, Settled, TypeOK, RowTypes
    <2>6. ASSUME NEW r \in Replicas, NEW j \in Calls, Settle(r, j)
          PROVE  AllServed(t)'
      <3>1. rowJob' = rowJob /\ r = ReplicaOf[j]
        BY <2>6 DEF Settle
      <3>2. CASE Settled(t)
        BY <2>1, <3>1, <3>2
      <3>3. CASE ~Settled(t)
        <4>1. rowVerdict'[t] # rowVerdict[t] /\ rowJob[t] = j /\ t = TreeOf[j]
          BY <2>6, <3>3, SettleEffect DEF Settled
        <4>2. rowSettled'[t] = Clock(r)
          BY <2>6, <4>1, SettleEffect
        <4>3. Clock(ReplicaOf[rowJob[t]])' = Clock(r)
          BY <1>3, <3>1, <4>1 DEF Clock
        <4> QED
          BY <2>6, <4>2, <4>3, ClockNat
      <3> QED
        BY <3>2, <3>3
    <2> QED
      BY RowCases, <2>2, <2>3, <2>4, <2>5, <2>6
  <1> QED
    BY <1>2, <1>3, NowCases

-----------------------------------------------------------------------------
\* The inductive invariant.
RowsInv ==
  /\ RowInv /\ FenceInv /\ UnstartedInv /\ UnsettledInv /\ SeenInv
  /\ RecInv /\ LeaseInv /\ StepRowInv /\ ClaimedInv /\ BeatInv
  /\ FencedStopsDispatch /\ ClaimIsUsed /\ LiveDriverKeepsItsTree
DeliveryInv ==
  /\ BoundInv /\ DriveInv /\ PresentInv /\ StoppedInv /\ TriedInv /\ LeaseHeldInv /\ SeenSettledInv /\ SettledInv
  /\ DueInv /\ CountedInv /\ EndInv /\ DropInv /\ TimeInv
IInv == TypeOK /\ RowsInv /\ DeliveryInv

\* The initial state satisfies the invariant: types and rows,
LEMMA InitRows == Init => TypeOK /\ RowsInv
PROOF
  <1> SUFFICES ASSUME Init PROVE TypeOK /\ RowsInv
    OBVIOUS
  <1>1. RowTypes /\ RecTypes /\ CallTypes /\ DrvTypes /\ SndTypes /\ ProcTypes /\ HistTypes
    <2>1. RowTypes /\ RecTypes
      BY ClaimsAssumption DEF Init, RowTypes, RecTypes, Verdicts
    <2>2. CallTypes /\ DrvTypes
      BY ClaimsAssumption DEF Init, CallTypes, DrvTypes, Verdicts
    <2>3. SndTypes
      BY DEF Init, SndTypes
    <2>4. ProcTypes /\ HistTypes
      BY DEF Init, ProcTypes, HistTypes
    <2> QED
      BY <2>1, <2>2, <2>3, <2>4
  <1>2. RowInv /\ FenceInv /\ UnsettledInv
    BY DEF Init, RowInv, FenceInv, UnsettledInv, Fresh
  <1>3. UnstartedInv /\ RecInv
    BY DEF Init, UnstartedInv, RecInv, Unstarted
  <1>4. SeenInv /\ LeaseInv /\ StepRowInv
    BY DEF Init, SeenInv, LeaseInv, StepRowInv
  <1>5. ClaimedInv
    BY DEF Init, ClaimedInv
  <1>6. BeatInv
    BY CallFacts, ClaimsNames DEF Init, BeatInv, Up, Leased
  <1>7. FencedStopsDispatch /\ ClaimIsUsed /\ LiveDriverKeepsItsTree
    BY DEF Init, FencedStopsDispatch, ClaimIsUsed, LiveDriverKeepsItsTree
  <1> QED
    BY <1>1, <1>2, <1>3, <1>4, <1>5, <1>6, <1>7 DEF TypeOK, RowsInv

\* and deliveries.
LEMMA InitDelivery == Init => DeliveryInv
PROOF
  <1> SUFFICES ASSUME Init PROVE DeliveryInv
    OBVIOUS
  <1>1. BoundInv /\ DriveInv /\ TriedInv
    BY DEF Init, BoundInv, DriveInv, TriedInv
  <1>2. PresentInv /\ StoppedInv
    BY DEF Init, PresentInv, Delivering, StoppedInv, Up
  <1>3. \A c \in Calls : rowJob[TreeOf[c]] # c
    BY CallFacts DEF Init
  <1>4. LeaseHeldInv /\ SettledInv /\ EndInv /\ DropInv
    BY <1>3 DEF LeaseHeldInv, SettledInv, EndInv, DropInv, Init
  <1>5. SeenSettledInv /\ DueInv /\ TimeInv
    BY DEF Init, SeenSettledInv, DueInv, TimeInv, Settled
  <1>6. CountedInv
    BY DEF Init, CountedInv, Counted
  <1> QED
    BY <1>1, <1>2, <1>4, <1>5, <1>6 DEF DeliveryInv

\* Every step keeps the types,
LEMMA StepTypes == TypeOK /\ RecInv /\ [Next]_vars => TypeOK'
PROOF
  <1> SUFFICES ASSUME TypeOK, RecInv, [Next]_vars PROVE TypeOK'
    OBVIOUS
  <1>1. RowTypes' /\ RecTypes' /\ CallTypes' /\ DrvTypes'
    BY RowTypesStep, RecTypesStep, CallTypesStep, DrvTypesStep
  <1>2. SndTypes' /\ ProcTypes' /\ HistTypes'
    BY SndTypesStep, ProcTypesStep, HistTypesStep
  <1> QED
    BY <1>1, <1>2 DEF TypeOK

\* the invariant about rows,
LEMMA StepRows == TypeOK /\ RowsInv /\ [Next]_vars => RowsInv'
PROOF
  <1> SUFFICES ASSUME TypeOK, RowsInv, [Next]_vars PROVE RowsInv'
    OBVIOUS
  <1> USE DEF RowsInv
  <1>1. RowInv'
    BY RowInvStep
  <1>2. FenceInv'
    BY FenceInvStep
  <1>3. UnstartedInv'
    BY UnstartedInvStep
  <1>4. UnsettledInv'
    BY UnsettledInvStep
  <1>5. SeenInv'
    BY SeenInvStep
  <1>6. RecInv'
    BY RecInvStep
  <1>7. LeaseInv'
    BY LeaseInvStep
  <1>8. StepRowInv'
    BY StepRowInvStep
  <1>9. ClaimedInv'
    BY ClaimedInvStep
  <1>10. BeatInv'
    BY BeatInvStep
  <1>11. FencedStopsDispatch'
    BY FencedStep
  <1>12. ClaimIsUsed'
    BY UsedStep
  <1>13. LiveDriverKeepsItsTree'
    BY LiveDriverStep
  <1> QED
    BY <1>1, <1>2, <1>3, <1>4, <1>5, <1>6, <1>7, <1>8, <1>9, <1>10, <1>11, <1>12, <1>13

\* the one about deliveries,
LEMMA StepDelivery == IInv /\ [Next]_vars => DeliveryInv'
PROOF
  <1> SUFFICES ASSUME TypeOK, RowsInv, DeliveryInv, [Next]_vars PROVE DeliveryInv'
    BY DEF IInv
  <1> USE DEF RowsInv, DeliveryInv
  <1>1. BoundInv'
    BY BoundInvStep
  <1>2. DriveInv'
    BY DriveInvStep
  <1>3. PresentInv'
    BY PresentInvStep
  <1>4. StoppedInv'
    BY StoppedInvStep
  <1>5. TriedInv'
    BY TriedInvStep
  <1>6. LeaseHeldInv'
    BY LeaseHeldInvStep
  <1>7. SeenSettledInv'
    BY SeenSettledInvStep
  <1>8. SettledInv'
    BY SettledInvStep
  <1>9. DueInv'
    BY DueInvStep
  <1>10. CountedInv'
    BY CountedInvStep
  <1>11. EndInv'
    BY EndInvStep
  <1>12. DropInv'
    BY DropInvStep
  <1>13. TimeInv'
    BY TimeInvStep
  <1> QED
    BY <1>1, <1>2, <1>3, <1>4, <1>5, <1>6, <1>7, <1>8, <1>9, <1>10, <1>11, <1>12, <1>13

\* and so the inductive invariant.
LEMMA StepIInv == IInv /\ [Next]_vars => IInv'
PROOF
  <1> SUFFICES ASSUME IInv, [Next]_vars PROVE IInv'
    OBVIOUS
  <1>1. TypeOK'
    BY StepTypes DEF IInv, RowsInv
  <1>2. RowsInv'
    BY StepRows DEF IInv
  <1>3. DeliveryInv'
    BY StepDelivery
  <1> QED
    BY <1>1, <1>2, <1>3 DEF IInv

-----------------------------------------------------------------------------
\* Every reachable state of the replicas and their claim store satisfies the
\* inductive invariant.
THEOREM ClaimsInvariant == Spec => []IInv
PROOF
  <1>1. Init => IInv
    BY InitRows, InitDelivery DEF IInv
  <1> QED
    BY <1>1, StepIInv, PTL DEF Spec

\* The rows, records, drivers and senders keep their types.
THEOREM ClaimsTypeCorrect == Spec => []TypeOK
PROOF
  <1>1. IInv => TypeOK
    BY DEF IInv
  <1> QED
    BY <1>1, ClaimsInvariant, PTL

\* A driver that is alive and punctual keeps its tree, at any lease, heartbeat
\* period and skew (heartbeat, renew, TAKEOVER).
THEOREM DriversKeepTheirTrees == Spec => []LiveDriverKeepsItsTree
PROOF
  <1>1. IInv => LiveDriverKeepsItsTree
    BY DEF IInv, RowsInv
  <1> QED
    BY <1>1, ClaimsInvariant, PTL

\* A step goes to the fleet under a claim, and a claim belongs to a step that goes
\* there (claim_step, release_step, TAKEOVER's fence).
THEOREM DispatchesAreClaimed == Spec => []DispatchIsClaimed
PROOF
  <1>1. IInv => DispatchIsClaimed
    BY DEF IInv, RowsInv, DispatchIsClaimed
  <1> QED
    BY <1>1, ClaimsInvariant, PTL

\* An acked destination is not lost between replicas, outside the exceptions that
\* NoAckIsForgotten names (admit, settle, destinations, forget).
THEOREM AcksAreKept == Spec => []NoAckIsForgotten
PROOF
  <1>1. IInv => NoAckIsForgotten
    <2> SUFFICES ASSUME IInv, NEW c \in Calls, pc[c] = "acked", ~Excused(TreeOf[c])
                 PROVE  Answerable(c)
      BY DEF NoAckIsForgotten, Excused, Excepted, IInv, TypeOK, HistTypes
    <2> USE DEF IInv, DeliveryInv
    <2>1. Served(UrlOf[c], TreeOf[c]) \/ OnRow(UrlOf[c], TreeOf[c])
      BY DEF CountedInv, Counted
    <2>2. CASE Carried(UrlOf[c], TreeOf[c])
      <3>1. PICK r \in Replicas, j \in Calls :
              TreeOf[j] = TreeOf[c] /\ UrlOf[c] \in recUrls[r][j] /\ snd[r][j] = "pass"
        BY <2>2 DEF Carried
      <3>2. rec[r][j] # "absent"
        BY <3>1 DEF RowsInv, RecInv
      <3> QED
        BY <3>1, <3>2 DEF Answerable
    <2> QED
      BY <2>1, <2>2 DEF Served, OnRow, Answerable
  <1> QED
    BY <1>1, ClaimsInvariant, PTL

\* Once a verdict is published and nobody is delivering it, everybody on its claim
\* has been told (settle before report, report's reading of the claim).
THEOREM SettledAreDelivered == Spec => []SettledIsDelivered
PROOF
  <1>1. IInv => SettledIsDelivered
    <2> SUFFICES ASSUME IInv, NEW t \in Trees, Settled(t), Quiet(t), ~Excepted(rowJob[t]),
                        NEW u \in rowUrls[t]
                 PROVE  Told(u, t) \/ Unacked(u, t)
      BY DEF SettledIsDelivered, AllTold, Settled, Excepted
    <2>1. Told(u, t) \/ Pending(rowJob[t]) \/ Late(u, t)
      BY DEF IInv, DeliveryInv, DueInv
    <2>2. rowJob[t] \in Calls /\ TreeOf[rowJob[t]] = t
      BY DEF IInv, RowsInv, RowInv, TypeOK, RowTypes, Settled
    <2>3. ~Pending(rowJob[t])
      BY <2>2 DEF Quiet, Pending
    <2> QED
      BY <2>1, <2>3 DEF Quiet, Late
  <1> QED
    BY <1>1, ClaimsInvariant, PTL

-----------------------------------------------------------------------------
\* The promises of trait JobClaims.  fence[c] is 0 until c wins a row, so the jobs
\* that have ever won a claim are the ones with a fence.

\* Only a dispatch that wins a row gets a fence.
LEMMA FenceCases ==
  ASSUME TypeOK, [Next]_vars, \A c \in Calls : ~AdmitWon(c)
  PROVE  UNCHANGED fence
PROOF
  <1>1. ASSUME NEW c \in Calls,
               \/ Evict(c) \/ ForgetEvicted(c) \/ AdmitAttached(c) \/ AdmitFails(c)
               \/ Start(c) \/ NotDurable(c) \/ Attach(c)
        PROVE  UNCHANGED fence
    BY <1>1 DEF Evict, ForgetEvicted, AdmitAttached, AdmitFails, Start, NotDurable, Attach
  <1>2. ASSUME NEW r \in Replicas, NEW j \in Calls, NEW s \in Steps,
               ClaimStep(r, j, s) \/ Assign(r, j, s) \/ NoCapacity(r, j, s)
        PROVE  UNCHANGED fence
    BY <1>2 DEF ClaimStep, Assign, NoCapacity, callVars
  <1>3. ASSUME NEW r \in Replicas, NEW j \in Calls,
               \/ Renew(r, j) \/ Decide(r, j) \/ Settle(r, j) \/ Retire(r, j)
               \/ Pass(r, j) \/ Reported(r, j)
        PROVE  UNCHANGED fence
    BY <1>3 DEF Renew, Decide, Settle, Retire, Pass, Reported, callVars
  <1>4. ASSUME NEW r \in Replicas, Stall(r) \/ Wake(r) \/ Crash(r) \/ Restart(r)
        PROVE  UNCHANGED fence
    BY <1>4 DEF Stall, Wake, Crash, Restart, callVars
  <1>5. Tick \/ UNCHANGED vars => UNCHANGED fence
    BY DEF Tick, vars, callVars
  <1> QED
    BY <1>1, <1>2, <1>3, <1>4, <1>5 DEF Next

\* Every step is a step of the abstract claim store, or a stutter.
LEMMA SeamStep ==
  ASSUME TypeOK, RowInv, FenceInv, RecInv, UnsettledInv, PresentInv, LeaseInv, [Next]_vars
  PROVE  [Seam!Next]_(Seam!vars)
PROOF
  <1>1. ASSUME NEW c \in Calls, AdmitWon(c)
        PROVE  Seam!Create(TreeOf[c], c, UrlOf[c])
    <2>1. TreeOf[c] \in Trees /\ ReplicaOf[c] \in Replicas /\ fence[c] = 0
      BY <1>1, CallFacts DEF AdmitWon, Admitting, FenceInv, Fresh
    <2>2. rowFence'[TreeOf[c]] # 0
      BY <1>1, <2>1 DEF AdmitWon, RowWon, TypeOK, RowTypes
    <2>3. fence' = [fence EXCEPT ![c] = rowFence'[TreeOf[c]]]
      BY <1>1 DEF AdmitWon
    <2>4. {d \in Calls : fence'[d] # 0} = {d \in Calls : fence[d] # 0} \cup {c}
      BY <2>1, <2>2, <2>3 DEF TypeOK, CallTypes
    <2>5. (IF rowJob[TreeOf[c]] = NoJob \/ AgedOut(ReplicaOf[c], TreeOf[c]) THEN {} ELSE rowUrls[TreeOf[c]])
            = IF rowVerdict[TreeOf[c]] = NoVerdict THEN rowUrls[TreeOf[c]] ELSE {}
      BY <1>1, <2>1 DEF AdmitWon, Takeover, AgedOut, RowInv
    <2>6. rowUrls' = [rowUrls EXCEPT ![TreeOf[c]] = {UrlOf[c]} \cup
                        IF rowVerdict[TreeOf[c]] = NoVerdict THEN rowUrls[TreeOf[c]] ELSE {}]
      BY <1>1, <2>1, <2>5 DEF AdmitWon, RowWon, TypeOK, RowTypes
    <2>7. /\ rowJob' = [rowJob EXCEPT ![TreeOf[c]] = c]
          /\ rowVerdict' = [rowVerdict EXCEPT ![TreeOf[c]] = NoVerdict]
      BY <1>1 DEF AdmitWon, RowWon
    <2> QED
      BY <2>1, <2>4, <2>6, <2>7 DEF Seam!Create
  <1>2. ASSUME \A c \in Calls : ~AdmitWon(c)
        PROVE  UNCHANGED {d \in Calls : fence[d] # 0}
    BY <1>2, FenceCases
  <1>3. ASSUME NEW c \in Calls, AdmitAttached(c)
        PROVE  Seam!Attach(TreeOf[c], UrlOf[c])
    BY <1>3 DEF AdmitAttached, Seam!Attach
  <1>4. ASSUME NEW j \in Calls, RowGone(j), \A c \in Calls : ~AdmitWon(c)
        PROVE  Seam!Drop(TreeOf[j])
    BY <1>2, <1>4, CallFacts DEF RowGone, Seam!Drop
  <1>5. ASSUME NEW r \in Replicas, NEW j \in Calls, Settle(r, j)
        PROVE  UNCHANGED Seam!vars \/ \E v \in Statuses : Seam!Answer(TreeOf[j], v)
    <2>0. UNCHANGED <<rowJob, rowUrls, fence>>
      BY <1>5 DEF Settle, callVars
    <2>1. CASE rowVerdict' = rowVerdict
      BY <2>0, <2>1 DEF Seam!vars
    <2>2. CASE rowVerdict' # rowVerdict
      <3>1. rowVerdict' = [t \in Trees |-> IF rowJob[t] = j /\ StillHolds(r, j)
                                           THEN recVerdict[r][j] ELSE rowVerdict[t]]
        BY <1>5, <2>2 DEF Settle
      <3>2. PICK t \in Trees : rowJob[t] = j /\ StillHolds(r, j) /\ recVerdict[r][j] # rowVerdict[t]
        BY <2>2, <3>1 DEF TypeOK, RowTypes
      <3>3. t = TreeOf[j] /\ \A i \in Trees : rowJob[i] = j => i = t
        BY <3>2, CallFacts DEF RowInv
      <3>4. rowVerdict[t] = NoVerdict
        BY <1>5, <3>2 DEF Settle, UnsettledInv
      <3>5. recVerdict[r][j] \in Statuses
        BY <3>2, <3>4 DEF TypeOK, RecTypes, Verdicts
      <3>6. rowVerdict' = [rowVerdict EXCEPT ![t] = recVerdict[r][j]]
        BY <3>1, <3>2, <3>3 DEF TypeOK, RowTypes
      <3> QED
        BY <2>0, <3>2, <3>3, <3>4, <3>5, <3>6, CallFacts DEF Seam!Answer
    <2> QED
      BY <2>1, <2>2
  <1>6. CASE UNCHANGED <<rowJob, rowVerdict, rowUrls, rowSettled>> /\ \A c \in Calls : ~AdmitWon(c)
    BY <1>2, <1>6 DEF Seam!vars
  <1> QED
    BY <1>1, <1>3, <1>4, <1>5, <1>6, RowCases, CallFacts DEF Seam!Next

\* PgClaims and its callers keep the promises of trait JobClaims: one job per tree,
\* never twice the same, its destinations kept until it is answered, and one answer.
THEOREM ClaimsKeepTheSeam == Spec => KeepsTheSeam
PROOF
  <1>1. Init => Seam!Init
    BY DEF Init, Seam!Init
  <1>2. IInv /\ [Next]_vars => [Seam!Next]_(Seam!vars)
    BY SeamStep DEF IInv, RowsInv, DeliveryInv
  <1> QED
    BY <1>1, <1>2, ClaimsInvariant, PTL DEF Spec, KeepsTheSeam, Seam!Spec
=============================================================================
