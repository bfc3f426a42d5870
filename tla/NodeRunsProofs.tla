--------------------------- MODULE NodeRunsProofs ---------------------------
(***************************************************************************)
(* Proofs about module NodeRuns, for any runs, jobs, keys, names, entries, *)
(* pool sizes and number of mishaps.                                       *)
(*                                                                         *)
(* HoldInv and ExclusiveInv give every container one owner, UsedInv makes  *)
(* the name of a new member fresh: together they keep two runs out of one  *)
(* sandbox (FreshInv, RanInv) and one run out of another's files           *)
(* (FilesInv).  SpentInv says that what a run leaves behind is gone or     *)
(* left to the reaper.                                                     *)
(***************************************************************************)
EXTENDS NodeRuns, FiniteSetTheorems, TLAPS

Places == 1..Len(idle)

\* What a run has in hand fits where it is.
HoldInv ==
  \A r \in Runs :
    /\ hold[r] \in Names \cup {r, Nobody}
    /\ pc[r] \in {"start", "claim", "cold", "done", "dropped", "lost"} => hold[r] = Nobody
    /\ pc[r] \in {"inspect", "push"} => hold[r] \in Names
    /\ pc[r] \in {"ready", "run", "destroy", "refill", "warm"} => hold[r] # Nobody

\* A container is in one pair of hands: a run's, the pool's or a destructor's task's.
ExclusiveInv ==
  /\ \A r, s \in Runs : hold[r] = hold[s] /\ hold[r] # Nobody => r = s
  /\ \A i \in Places, r \in Runs : hold[r] # idle[i][2]
  /\ \A i, j \in Places : idle[i][2] = idle[j][2] => i = j
  /\ \A n \in dropTasks : (\A r \in Runs : hold[r] # n) /\ (\A i \in Places : idle[i][2] # n)
  /\ \A r \in Runs : r \in dropTasks => pc[r] = "dropped"

\* A name not used yet is nowhere.
UsedInv ==
  /\ \A r \in Runs : hold[r] \in Names => hold[r] \in used
  /\ \A i \in Places : idle[i][2] \in used
  /\ dropTasks \cap Names \subseteq used
  /\ \A n \in Names \ used : ranIn[n] = {}

\* A sandbox on its way to a run has run nothing, and was made for the run's key.
FreshHeld ==
  \A r \in Runs : pc[r] \in {"inspect", "ready", "push"} => ranIn[hold[r]] = {} /\ made[hold[r]] = KeyOf[r]
FreshPooled == \A i \in Places : ranIn[idle[i][2]] = {} /\ made[idle[i][2]] = idle[i][1]
FreshOwn == \A r \in Runs : pc[r] \in {"start", "claim", "inspect", "cold", "ready"} => ranIn[r] = {}
FreshInv == FreshHeld /\ FreshPooled /\ FreshOwn

RanInv == \A n \in Containers : \A r, s \in ranIn[n] : r = s /\ made[n] = KeyOf[r]

\* The files of a run that has not started are where it will look for them.
FilesInv ==
  \A r \in Runs :
    /\ pc[r] \in {"start", "claim", "inspect", "cold"} => files[r] = Own(r) \/ r \in split
    /\ pc[r] = "ready" => files[hold[r]] = Own(r) \/ r \in split

\* A container that a run is done with is gone, or the reaper's.
SpentInv ==
  \A r \in Runs : pc[r] \in {"refill", "warm", "end"} /\ hold[r] # Nobody =>
    ctr[hold[r]] = "none" \/ hold[r] \in stray

\* A run reports at the end.
UnreportedInv ==
  \A r \in Runs : pc[r] \in {"start", "claim", "inspect", "cold", "ready", "run"} => report[r] = "none"

OwnerInv == TypeOK /\ HoldInv /\ ExclusiveInv /\ UsedInv

IInv ==
  /\ OwnerInv /\ FreshInv /\ RanInv /\ FilesInv /\ OwnWorkspace
  /\ SpentInv /\ Accounted /\ UnreportedInv /\ ReportIsEarned /\ GrantDiesWithJob

-----------------------------------------------------------------------------
\* Where an entry of the pool was before the i-th was taken out.
Shift(i, j) == IF j < i THEN j ELSE j + 1

\* idle.remove(at): the other members stay, in their order, and nothing is doubled.
LEMMA WithoutFacts ==
  ASSUME idle \in Seq(Keys \X Names), NEW i \in Places
  PROVE  /\ Without(i) \in Seq(Keys \X Names)
         /\ Len(Without(i)) = Len(idle) - 1
         /\ \A j \in 1..Len(Without(i)) : Shift(i, j) \in Places \ {i} /\ Without(i)[j] = idle[Shift(i, j)]
         /\ \A j, k \in 1..Len(Without(i)) : Shift(i, j) = Shift(i, k) => j = k
         /\ \A k \in Places \ {i} : \E j \in 1..Len(Without(i)) : Shift(i, j) = k
PROOF
  <1> DEFINE m == Len(idle) - 1
  <1>1. m \in Nat /\ Len(idle) \in Nat
    BY DEF Places
  <1>2. \A j \in 1..m : Shift(i, j) \in Places \ {i}
    BY <1>1 DEF Places, Shift
  <1>3. \A j \in 1..m : Without(i)[j] = idle[Shift(i, j)]
    BY DEF Without, Shift
  <1>4. \A j \in Places : idle[j] \in Keys \X Names
    BY DEF Places
  <1>5. Without(i) \in [1..m -> Keys \X Names]
    BY <1>1, <1>4 DEF Without, Places
  <1>6. Without(i) \in Seq(Keys \X Names) /\ Len(Without(i)) = m
    BY <1>1, <1>5, SMTT(30)
  <1>7. \A k \in Places \ {i} : \E j \in 1..m : Shift(i, j) = k
    <2> SUFFICES ASSUME NEW k \in Places, k # i
                 PROVE  \E j \in 1..m : Shift(i, j) = k
      OBVIOUS
    <2>1. CASE k < i
      BY <2>1, <1>1 DEF Places, Shift
    <2>2. CASE k > i
      <3>1. k - 1 \in 1..m /\ Shift(i, k - 1) = k
        BY <2>2, <1>1 DEF Places, Shift
      <3> QED
        BY <3>1
    <2> QED
      BY <2>1, <2>2, <1>1 DEF Places
  <1>8. \A j, k \in 1..m : Shift(i, j) = Shift(i, k) => j = k
    BY <1>1 DEF Shift, Places
  <1> HIDE DEF m
  <1> QED
    BY <1>2, <1>3, <1>6, <1>7, <1>8 DEF m

\* Nobody is not a container, and no run is a member.
LEMMA NamesApart == Nobody \notin Containers /\ Nobody \notin Runs /\ Nobody \notin Names /\ Names \cap Runs = {}
BY NodeRunsAssumption, NodeRunsNames DEF Containers

\* What the pool holds are members.
LEMMA PoolEntry == ASSUME NodeTypes PROVE \A i \in Places : idle[i][1] \in Keys /\ idle[i][2] \in Names
BY DEF NodeTypes, Places

LEMMA TaskIsSomebodys == ASSUME NodeTypes PROVE Nobody \notin dropTasks
BY NamesApart DEF NodeTypes

\* What claim and make_room take out of it.
LEMMA OldestIsPlace ==
  ASSUME NEW k
  PROVE  /\ \A i \in Oldest(IdleOf(k)) : i \in Places /\ idle[i][1] = k
         /\ \A i \in Oldest(IdleNotOf(k)) : i \in Places
BY DEF Oldest, IdleOf, IdleNotOf, Places

\* The pool after a member left it, and after one joined it.
LEMMA LeftThePool ==
  ASSUME NodeTypes, NEW i \in Places, idle' = Without(i)
  PROVE  /\ \A j \in Places' : Shift(i, j) \in Places /\ Shift(i, j) # i /\ idle'[j] = idle[Shift(i, j)]
         /\ \A j, k \in Places' : Shift(i, j) = Shift(i, k) => j = k
         /\ \A k \in Places : k # i => \E j \in Places' : idle'[j] = idle[k]
PROOF
  <1>1. Places' = 1..Len(Without(i))
    BY DEF Places
  <1>2. idle \in Seq(Keys \X Names)
    BY DEF NodeTypes
  <1>3. \A j \in 1..Len(Without(i)) : Shift(i, j) \in Places \ {i} /\ Without(i)[j] = idle[Shift(i, j)]
    BY <1>2, WithoutFacts
  <1>4. \A j, k \in 1..Len(Without(i)) : Shift(i, j) = Shift(i, k) => j = k
    BY <1>2, WithoutFacts
  <1>5. \A k \in Places \ {i} : \E j \in 1..Len(Without(i)) : Shift(i, j) = k
    BY <1>2, WithoutFacts
  <1>6. \A j \in Places' : Shift(i, j) \in Places /\ Shift(i, j) # i /\ idle'[j] = idle[Shift(i, j)]
    BY <1>1, <1>3
  <1> QED
    BY <1>1, <1>4, <1>5, <1>6

LEMMA JoinedThePool ==
  ASSUME NodeTypes, NEW e \in Keys \X Names, idle' = Append(idle, e)
  PROVE  /\ Places \subseteq Places' /\ Len(idle) + 1 \in Places' /\ Len(idle) + 1 \notin Places
         /\ \A j \in Places' : j \in Places \/ j = Len(idle) + 1
         /\ \A j \in Places : idle'[j] = idle[j]
         /\ idle'[Len(idle) + 1] = e
BY DEF NodeTypes, Places

-----------------------------------------------------------------------------

LEMMA RunTypesStep ==
  ASSUME RunTypes, DaemonTypes, NodeTypes, HoldInv, [Next]_vars
  PROVE  RunTypes'
PROOF
  <1>1. ASSUME NEW r \in Runs, Begin(r) PROVE RunTypes'
    BY <1>1 DEF Begin, Goto, Mishap, daemonVars, histVars, RunTypes, Stages
  <1>2. ASSUME NEW r \in Runs, TakeMatching(r) PROVE RunTypes'
    BY <1>2, PoolEntry DEF TakeMatching, Goto, IdleOf, Oldest, daemonVars, histVars, RunTypes,
       Stages, Containers, Places
  <1>3. ASSUME NEW r \in Runs, DiscardDead(r) PROVE RunTypes'
    BY <1>3 DEF DiscardDead, Goto, Removed, RemovedOrLeft, Mishap, daemonVars, histVars, RunTypes,
       Stages
  <1>4. ASSUME NEW r \in Runs, Adopt(r) PROVE RunTypes'
    BY <1>4 DEF Adopt, Goto, daemonVars, histVars, RunTypes, Stages
  <1>5. ASSUME NEW r \in Runs, AdoptFails(r) PROVE RunTypes'
    BY <1>5 DEF AdoptFails, Goto, RemovedOrLeft, Mishap, daemonVars, histVars, RunTypes, Stages
  <1>6. ASSUME NEW r \in Runs, Create(r) PROVE RunTypes'
    BY <1>6 DEF Create, Goto, Mishap, daemonVars, histVars, RunTypes, Stages, Containers
  <1>7. ASSUME NEW r \in Runs, Launch(r) PROVE RunTypes'
    BY <1>7, SMTT(30) DEF Launch, Goto, Mishap, Warm, daemonVars, histVars, RunTypes, Stages,
       HoldInv,
       Containers, DaemonTypes
  <1>8. ASSUME NEW r \in Runs, Exit(r) PROVE RunTypes'
    BY <1>8 DEF Exit, Goto, Mishap, Warm, daemonVars, histVars, RunTypes, Stages
  <1>22. ASSUME NEW r \in Runs, Unattached(r) PROVE RunTypes'
    BY <1>22 DEF Unattached, Goto, Mishap, Warm, daemonVars, histVars, RunTypes, Stages
  <1>9. ASSUME NEW r \in Runs, NeverStarted(r) PROVE RunTypes'
    BY <1>9 DEF NeverStarted, Goto, Mishap, Warm, daemonVars, histVars, RunTypes, Stages
  <1>10. ASSUME NEW r \in Runs, Destroy(r) PROVE RunTypes'
    BY <1>10 DEF Destroy, Goto, Removed, Mishap, Warm, daemonVars, histVars, RunTypes, Stages
  <1>11. ASSUME NEW r \in Runs, RefillNot(r) PROVE RunTypes'
    BY <1>11 DEF RefillNot, Goto, daemonVars, histVars, RunTypes, Stages
  <1>12. ASSUME NEW r \in Runs, MakeRoom(r) PROVE RunTypes'
    BY <1>12 DEF MakeRoom, Goto, Removed, Mishap, IdleNotOf, Oldest, daemonVars, histVars,
       RunTypes, Stages
  <1>13. ASSUME NEW r \in Runs, WarmOne(r) PROVE RunTypes'
    BY <1>13 DEF WarmOne, Goto, Mishap, daemonVars, histVars, RunTypes, Stages, Containers
  <1>14. ASSUME NEW r \in Runs, Push(r) PROVE RunTypes'
    BY <1>14 DEF Push, Goto, daemonVars, histVars, RunTypes, Stages
  <1>15. ASSUME NEW r \in Runs, End(r) PROVE RunTypes'
    BY <1>15 DEF End, Goto, daemonVars, histVars, RunTypes, Stages
  <1>16. ASSUME NEW r \in Runs, Cancel(r) PROVE RunTypes'
    BY <1>16 DEF Cancel, Goto, Mishap, daemonVars, histVars, RunTypes, Stages
  <1>17. ASSUME NEW n \in Containers, DropTask(n) PROVE RunTypes'
    BY <1>17 DEF DropTask, Removed, Mishap, daemonVars, histVars, RunTypes
  <1>18. ASSUME NEW n \in Containers, IdleDies(n) PROVE RunTypes'
    BY <1>18 DEF IdleDies, Mishap, daemonVars, histVars, RunTypes
  <1>19. CASE Crash
    BY <1>19 DEF Crash, Mishap, daemonVars, histVars, RunTypes, Stages
  <1>20. CASE Restart
    BY <1>20 DEF Restart, Mishap, Reap, daemonVars, histVars, RunTypes
  <1>21. CASE UNCHANGED vars
    BY <1>21 DEF vars, RunTypes
  <1> QED
    BY <1>1, <1>2, <1>3, <1>4, <1>5, <1>6, <1>7, <1>8, <1>22, <1>9, <1>10, <1>11, <1>12, <1>13,
       <1>14,
       <1>15, <1>16, <1>17, <1>18, <1>19, <1>20, <1>21 DEF Next

LEMMA DaemonTypesStep ==
  ASSUME RunTypes, DaemonTypes, NodeTypes, HoldInv, [Next]_vars
  PROVE  DaemonTypes'
PROOF
  <1>1. ASSUME NEW r \in Runs, Begin(r) PROVE DaemonTypes'
    BY <1>1 DEF Begin, Goto, Mishap, daemonVars, histVars, DaemonTypes
  <1>2. ASSUME NEW r \in Runs, TakeMatching(r) PROVE DaemonTypes'
    BY <1>2 DEF TakeMatching, Goto, IdleOf, Oldest, daemonVars, histVars, DaemonTypes
  <1>3. ASSUME NEW r \in Runs, DiscardDead(r) PROVE DaemonTypes'
    BY <1>3 DEF DiscardDead, Goto, Removed, RemovedOrLeft, Mishap, daemonVars, histVars, DaemonTypes
  <1>4. ASSUME NEW r \in Runs, Adopt(r) PROVE DaemonTypes'
    BY <1>4 DEF Adopt, Goto, daemonVars, histVars, DaemonTypes, HoldInv, Containers
  <1>5. ASSUME NEW r \in Runs, AdoptFails(r) PROVE DaemonTypes'
    BY <1>5, ZenonT(40) DEF AdoptFails, Goto, RemovedOrLeft, Mishap, daemonVars, histVars,
       DaemonTypes
  <1>6. ASSUME NEW r \in Runs, Create(r) PROVE DaemonTypes'
    BY <1>6, NodeRunsAssumption DEF Create, Goto, Mishap, daemonVars, histVars, DaemonTypes,
       Containers
  <1>7. ASSUME NEW r \in Runs, Launch(r) PROVE DaemonTypes'
    BY <1>7 DEF Launch, Goto, Mishap, Warm, daemonVars, histVars, DaemonTypes
  <1>8. ASSUME NEW r \in Runs, Exit(r) PROVE DaemonTypes'
    BY <1>8 DEF Exit, Goto, Mishap, Warm, daemonVars, histVars, DaemonTypes
  <1>22. ASSUME NEW r \in Runs, Unattached(r) PROVE DaemonTypes'
    BY <1>22 DEF Unattached, Goto, Mishap, Warm, daemonVars, histVars, DaemonTypes
  <1>9. ASSUME NEW r \in Runs, NeverStarted(r) PROVE DaemonTypes'
    BY <1>9 DEF NeverStarted, Goto, Mishap, Warm, daemonVars, histVars, DaemonTypes
  <1>10. ASSUME NEW r \in Runs, Destroy(r) PROVE DaemonTypes'
    BY <1>10 DEF Destroy, Goto, Removed, Mishap, Warm, daemonVars, histVars, DaemonTypes
  <1>11. ASSUME NEW r \in Runs, RefillNot(r) PROVE DaemonTypes'
    BY <1>11 DEF RefillNot, Goto, daemonVars, histVars, DaemonTypes
  <1>12. ASSUME NEW r \in Runs, MakeRoom(r) PROVE DaemonTypes'
    BY <1>12 DEF MakeRoom, Goto, Removed, Mishap, IdleNotOf, Oldest, daemonVars, histVars,
       DaemonTypes, NodeTypes, Containers
  <1>13. ASSUME NEW r \in Runs, WarmOne(r) PROVE DaemonTypes'
    BY <1>13, NodeRunsAssumption DEF WarmOne, Goto, Mishap, daemonVars, histVars, DaemonTypes,
       Containers
  <1>14. ASSUME NEW r \in Runs, Push(r) PROVE DaemonTypes'
    BY <1>14 DEF Push, Goto, daemonVars, histVars, DaemonTypes
  <1>15. ASSUME NEW r \in Runs, End(r) PROVE DaemonTypes'
    BY <1>15 DEF End, Goto, daemonVars, histVars, DaemonTypes
  <1>16. ASSUME NEW r \in Runs, Cancel(r) PROVE DaemonTypes'
    BY <1>16 DEF Cancel, Goto, Mishap, daemonVars, histVars, DaemonTypes
  <1>17. ASSUME NEW n \in Containers, DropTask(n) PROVE DaemonTypes'
    BY <1>17 DEF DropTask, Removed, Mishap, daemonVars, histVars, DaemonTypes
  <1>18. ASSUME NEW n \in Containers, IdleDies(n) PROVE DaemonTypes'
    BY <1>18 DEF IdleDies, Mishap, daemonVars, histVars, DaemonTypes
  <1>19. CASE Crash
    BY <1>19 DEF Crash, Mishap, daemonVars, histVars, DaemonTypes
  <1>20. CASE Restart
    BY <1>20 DEF Restart, Mishap, Reap, daemonVars, histVars, DaemonTypes, Containers
  <1>21. CASE UNCHANGED vars
    BY <1>21 DEF vars, DaemonTypes
  <1> QED
    BY <1>1, <1>2, <1>3, <1>4, <1>5, <1>6, <1>7, <1>8, <1>22, <1>9, <1>10, <1>11, <1>12, <1>13,
       <1>14,
       <1>15, <1>16, <1>17, <1>18, <1>19, <1>20, <1>21 DEF Next

LEMMA NodeTypesStep ==
  ASSUME RunTypes, NodeTypes, HoldInv, [Next]_vars
  PROVE  NodeTypes'
PROOF
  <1>1. ASSUME NEW r \in Runs, Begin(r) PROVE NodeTypes'
    BY <1>1 DEF Begin, Goto, Mishap, daemonVars, histVars, NodeTypes
  <1>2. ASSUME NEW r \in Runs, TakeMatching(r) PROVE NodeTypes'
    BY <1>2, WithoutFacts DEF TakeMatching, Goto, IdleOf, Oldest, daemonVars, histVars, NodeTypes,
       Places
  <1>3. ASSUME NEW r \in Runs, DiscardDead(r) PROVE NodeTypes'
    BY <1>3 DEF DiscardDead, Goto, Removed, RemovedOrLeft, Mishap, daemonVars, histVars, NodeTypes,
       HoldInv, Containers
  <1>4. ASSUME NEW r \in Runs, Adopt(r) PROVE NodeTypes'
    BY <1>4 DEF Adopt, Goto, daemonVars, histVars, NodeTypes
  <1>5. ASSUME NEW r \in Runs, AdoptFails(r) PROVE NodeTypes'
    BY <1>5 DEF AdoptFails, Goto, RemovedOrLeft, Mishap, daemonVars, histVars, NodeTypes, HoldInv,
       Containers
  <1>6. ASSUME NEW r \in Runs, Create(r) PROVE NodeTypes'
    BY <1>6 DEF Create, Goto, Mishap, daemonVars, histVars, NodeTypes
  <1>7. ASSUME NEW r \in Runs, Launch(r) PROVE NodeTypes'
    BY <1>7 DEF Launch, Goto, Mishap, Warm, daemonVars, histVars, NodeTypes
  <1>8. ASSUME NEW r \in Runs, Exit(r) PROVE NodeTypes'
    BY <1>8 DEF Exit, Goto, Mishap, Warm, daemonVars, histVars, NodeTypes
  <1>22. ASSUME NEW r \in Runs, Unattached(r) PROVE NodeTypes'
    BY <1>22 DEF Unattached, Goto, Mishap, Warm, daemonVars, histVars, NodeTypes
  <1>9. ASSUME NEW r \in Runs, NeverStarted(r) PROVE NodeTypes'
    BY <1>9 DEF NeverStarted, Goto, Mishap, Warm, daemonVars, histVars, NodeTypes
  <1>10. ASSUME NEW r \in Runs, Destroy(r) PROVE NodeTypes'
    BY <1>10 DEF Destroy, Goto, Removed, Mishap, Warm, daemonVars, histVars, NodeTypes, HoldInv,
       Containers
  <1>11. ASSUME NEW r \in Runs, RefillNot(r) PROVE NodeTypes'
    BY <1>11 DEF RefillNot, Goto, daemonVars, histVars, NodeTypes
  <1>12. ASSUME NEW r \in Runs, MakeRoom(r) PROVE NodeTypes'
    BY <1>12, WithoutFacts DEF MakeRoom, Goto, Removed, Mishap, IdleNotOf, Oldest, daemonVars,
       histVars, NodeTypes, Places, Containers
  <1>13. ASSUME NEW r \in Runs, WarmOne(r) PROVE NodeTypes'
    BY <1>13 DEF WarmOne, Goto, Mishap, daemonVars, histVars, NodeTypes, Containers
  <1>14. ASSUME NEW r \in Runs, Push(r) PROVE NodeTypes'
    BY <1>14, NodeRunsAssumption DEF Push, Goto, daemonVars, histVars, NodeTypes, HoldInv
  <1>15. ASSUME NEW r \in Runs, End(r) PROVE NodeTypes'
    BY <1>15 DEF End, Goto, daemonVars, histVars, NodeTypes, Released
  <1>16. ASSUME NEW r \in Runs, Cancel(r) PROVE NodeTypes'
    BY <1>16 DEF Cancel, Goto, Mishap, daemonVars, histVars, NodeTypes, Released, HoldInv,
       Containers
  <1>17. ASSUME NEW n \in Containers, DropTask(n) PROVE NodeTypes'
    BY <1>17 DEF DropTask, Removed, Mishap, daemonVars, histVars, NodeTypes
  <1>18. ASSUME NEW n \in Containers, IdleDies(n) PROVE NodeTypes'
    BY <1>18 DEF IdleDies, Mishap, daemonVars, histVars, NodeTypes
  <1>19. CASE Crash
    BY <1>19 DEF Crash, Mishap, daemonVars, histVars, NodeTypes
  <1>20. CASE Restart
    BY <1>20 DEF Restart, Mishap, Reap, daemonVars, histVars, NodeTypes
  <1>21. CASE UNCHANGED vars
    BY <1>21 DEF vars, NodeTypes
  <1> QED
    BY <1>1, <1>2, <1>3, <1>4, <1>5, <1>6, <1>7, <1>8, <1>22, <1>9, <1>10, <1>11, <1>12, <1>13,
       <1>14,
       <1>15, <1>16, <1>17, <1>18, <1>19, <1>20, <1>21 DEF Next

LEMMA HoldStep ==
  ASSUME RunTypes, NodeTypes, DaemonTypes, HoldInv, ExclusiveInv, UsedInv, [Next]_vars
  PROVE  HoldInv'
PROOF
  <1>1. ASSUME NEW r \in Runs, Begin(r) PROVE HoldInv'
    BY <1>1, NamesApart DEF Begin, Goto, Mishap, daemonVars, histVars, RunTypes, HoldInv
  <1>2. ASSUME NEW r \in Runs, TakeMatching(r) PROVE HoldInv'
    <2>1. CASE UNCHANGED <<hold, idle>> /\ Goto(r, "cold")
      BY <1>2, <2>1, NamesApart, PoolEntry DEF TakeMatching, Goto, daemonVars, histVars, Places,
         RunTypes, HoldInv
    <2>2. CASE \E i \in Oldest(IdleOf(KeyOf[r])) :
                 hold' = [hold EXCEPT ![r] = idle[i][2]] /\ idle' = Without(i) /\ Goto(r, "inspect")
      <3>1. PICK i \in Oldest(IdleOf(KeyOf[r])) :
                 hold' = [hold EXCEPT ![r] = idle[i][2]] /\ idle' = Without(i) /\ Goto(r, "inspect")
        BY <2>2
      <3>2. i \in Places /\ idle[i][1] = KeyOf[r] /\ idle[i][2] \in Names
        BY OldestIsPlace, PoolEntry
      <3>3. /\ \A j \in Places' : Shift(i, j) \in Places /\ Shift(i, j) # i /\ idle'[j] = idle[Shift(i, j)]
            /\ \A j, k \in Places' : Shift(i, j) = Shift(i, k) => j = k
            /\ \A k \in Places : k # i => \E j \in Places' : idle'[j] = idle[k]
        BY <3>1, <3>2, LeftThePool
      <3> QED
        BY <1>2, <3>1, <3>2, <3>3, NamesApart, PoolEntry DEF TakeMatching, Goto, daemonVars,
           histVars, RunTypes, HoldInv
    <2> QED
      BY <1>2, <2>1, <2>2 DEF TakeMatching
  <1>3. ASSUME NEW r \in Runs, DiscardDead(r) PROVE HoldInv'
    BY <1>3, NamesApart DEF DiscardDead, Goto, Removed, RemovedOrLeft, Mishap, daemonVars, histVars,
       RunTypes, HoldInv
  <1>4. ASSUME NEW r \in Runs, Adopt(r) PROVE HoldInv'
    BY <1>4, NamesApart DEF Adopt, Goto, daemonVars, histVars, RunTypes, HoldInv
  <1>5. ASSUME NEW r \in Runs, AdoptFails(r) PROVE HoldInv'
    BY <1>5, NamesApart DEF AdoptFails, Goto, RemovedOrLeft, Mishap, daemonVars, histVars, RunTypes,
       HoldInv
  <1>6. ASSUME NEW r \in Runs, Create(r) PROVE HoldInv'
    BY <1>6, NamesApart DEF Create, Goto, Mishap, daemonVars, histVars, RunTypes, HoldInv
  <1>7. ASSUME NEW r \in Runs, Launch(r) PROVE HoldInv'
    BY <1>7, NamesApart DEF Launch, Goto, Mishap, Warm, daemonVars, histVars, RunTypes, HoldInv
  <1>8. ASSUME NEW r \in Runs, Exit(r) PROVE HoldInv'
    BY <1>8, NamesApart DEF Exit, Goto, Mishap, Warm, daemonVars, histVars, RunTypes, HoldInv
  <1>22. ASSUME NEW r \in Runs, Unattached(r) PROVE HoldInv'
    BY <1>22, NamesApart DEF Unattached, Goto, Mishap, Warm, daemonVars, histVars, RunTypes, HoldInv
  <1>9. ASSUME NEW r \in Runs, NeverStarted(r) PROVE HoldInv'
    BY <1>9, NamesApart DEF NeverStarted, Goto, Mishap, Warm, daemonVars, histVars, RunTypes,
       HoldInv
  <1>10. ASSUME NEW r \in Runs, Destroy(r) PROVE HoldInv'
    BY <1>10, NamesApart DEF Destroy, Goto, Removed, Mishap, Warm, daemonVars, histVars, RunTypes,
       HoldInv
  <1>11. ASSUME NEW r \in Runs, RefillNot(r) PROVE HoldInv'
    BY <1>11, NamesApart DEF RefillNot, Goto, daemonVars, histVars, RunTypes, HoldInv
  <1>12. ASSUME NEW r \in Runs, MakeRoom(r) PROVE HoldInv'
    BY <1>12, NamesApart DEF MakeRoom, Goto, Removed, Mishap, IdleNotOf, Oldest, daemonVars,
       histVars, RunTypes, HoldInv
  <1>13. ASSUME NEW r \in Runs, WarmOne(r) PROVE HoldInv'
    BY <1>13, NamesApart DEF WarmOne, Goto, Mishap, daemonVars, histVars, RunTypes, HoldInv
  <1>14. ASSUME NEW r \in Runs, Push(r) PROVE HoldInv'
    BY <1>14, NamesApart DEF Push, Goto, daemonVars, histVars, RunTypes, HoldInv
  <1>15. ASSUME NEW r \in Runs, End(r) PROVE HoldInv'
    BY <1>15, NamesApart DEF End, Goto, daemonVars, histVars, RunTypes, HoldInv
  <1>16. ASSUME NEW r \in Runs, Cancel(r) PROVE HoldInv'
    BY <1>16, NamesApart DEF Cancel, Goto, Mishap, daemonVars, histVars, RunTypes, HoldInv
  <1>17. ASSUME NEW n \in Containers, DropTask(n) PROVE HoldInv'
    BY <1>17, NamesApart DEF DropTask, Removed, Mishap, daemonVars, histVars, RunTypes, HoldInv
  <1>18. ASSUME NEW n \in Containers, IdleDies(n) PROVE HoldInv'
    BY <1>18, NamesApart DEF IdleDies, Mishap, daemonVars, histVars, RunTypes, HoldInv
  <1>19. CASE Crash
    BY <1>19, NamesApart DEF Crash, Mishap, daemonVars, histVars, RunTypes, HoldInv
  <1>20. CASE Restart
    BY <1>20, NamesApart DEF Restart, Mishap, Reap, daemonVars, histVars, RunTypes, HoldInv
  <1>21. CASE UNCHANGED vars
    BY <1>21 DEF vars, RunTypes, HoldInv
  <1> QED
    BY <1>1, <1>2, <1>3, <1>4, <1>5, <1>6, <1>7, <1>8, <1>22, <1>9, <1>10, <1>11, <1>12, <1>13,
       <1>14,
       <1>15, <1>16, <1>17, <1>18, <1>19, <1>20, <1>21 DEF Next

LEMMA ExclusiveStep ==
  ASSUME RunTypes, NodeTypes, DaemonTypes, HoldInv, ExclusiveInv, UsedInv, [Next]_vars
  PROVE  ExclusiveInv'
PROOF
  <1>1. ASSUME NEW r \in Runs, Begin(r) PROVE ExclusiveInv'
    BY <1>1, NamesApart, PoolEntry DEF Begin, Goto, Mishap, daemonVars, histVars, RunTypes,
       NodeTypes, HoldInv, ExclusiveInv, Places
  <1>2. ASSUME NEW r \in Runs, TakeMatching(r) PROVE ExclusiveInv'
    <2>1. CASE UNCHANGED <<hold, idle>> /\ Goto(r, "cold")
      BY <1>2, <2>1, NamesApart, PoolEntry, TaskIsSomebodys DEF TakeMatching, Goto, daemonVars,
         histVars, Places, RunTypes, HoldInv, ExclusiveInv
    <2>2. CASE \E i \in Oldest(IdleOf(KeyOf[r])) :
                 hold' = [hold EXCEPT ![r] = idle[i][2]] /\ idle' = Without(i) /\ Goto(r, "inspect")
      <3>1. PICK i \in Oldest(IdleOf(KeyOf[r])) :
                 hold' = [hold EXCEPT ![r] = idle[i][2]] /\ idle' = Without(i) /\ Goto(r, "inspect")
        BY <2>2
      <3>2. i \in Places /\ idle[i][1] = KeyOf[r] /\ idle[i][2] \in Names
        BY OldestIsPlace, PoolEntry
      <3>3. /\ \A j \in Places' : Shift(i, j) \in Places /\ Shift(i, j) # i /\ idle'[j] = idle[Shift(i, j)]
            /\ \A j, k \in Places' : Shift(i, j) = Shift(i, k) => j = k
            /\ \A k \in Places : k # i => \E j \in Places' : idle'[j] = idle[k]
        BY <3>1, <3>2, LeftThePool
      <3> QED
        BY <1>2, <3>1, <3>2, <3>3, NamesApart, PoolEntry, TaskIsSomebodys DEF TakeMatching, Goto,
           daemonVars, histVars, RunTypes, HoldInv, ExclusiveInv
    <2> QED
      BY <1>2, <2>1, <2>2 DEF TakeMatching
  <1>3. ASSUME NEW r \in Runs, DiscardDead(r) PROVE ExclusiveInv'
    BY <1>3, NamesApart, PoolEntry DEF DiscardDead, Goto, Removed, RemovedOrLeft, Mishap,
       daemonVars, histVars, RunTypes,
       NodeTypes, HoldInv, ExclusiveInv, Places
  <1>4. ASSUME NEW r \in Runs, Adopt(r) PROVE ExclusiveInv'
    BY <1>4, NamesApart, PoolEntry DEF Adopt, Goto, daemonVars, histVars, RunTypes, NodeTypes,
       HoldInv, ExclusiveInv, Places
  <1>5. ASSUME NEW r \in Runs, AdoptFails(r) PROVE ExclusiveInv'
    BY <1>5, NamesApart, PoolEntry DEF AdoptFails, Goto, RemovedOrLeft, Mishap, daemonVars,
       histVars, RunTypes,
       NodeTypes, HoldInv, ExclusiveInv, Places
  <1>6. ASSUME NEW r \in Runs, Create(r) PROVE ExclusiveInv'
    BY <1>6, NamesApart, PoolEntry DEF Create, Goto, Mishap, daemonVars, histVars, RunTypes,
       NodeTypes, HoldInv, ExclusiveInv, Places
  <1>7. ASSUME NEW r \in Runs, Launch(r) PROVE ExclusiveInv'
    BY <1>7, NamesApart, PoolEntry DEF Launch, Goto, Mishap, Warm, daemonVars, histVars, RunTypes,
       NodeTypes, HoldInv, ExclusiveInv, Places
  <1>8. ASSUME NEW r \in Runs, Exit(r) PROVE ExclusiveInv'
    BY <1>8, NamesApart, PoolEntry DEF Exit, Goto, Mishap, Warm, daemonVars, histVars, RunTypes,
       NodeTypes, HoldInv, ExclusiveInv, Places
  <1>22. ASSUME NEW r \in Runs, Unattached(r) PROVE ExclusiveInv'
    BY <1>22, NamesApart, PoolEntry DEF Unattached, Goto, Mishap, Warm, daemonVars, histVars,
       RunTypes,
       NodeTypes, HoldInv, ExclusiveInv, Places
  <1>9. ASSUME NEW r \in Runs, NeverStarted(r) PROVE ExclusiveInv'
    BY <1>9, NamesApart, PoolEntry DEF NeverStarted, Goto, Mishap, Warm, daemonVars, histVars,
       RunTypes, NodeTypes, HoldInv, ExclusiveInv, Places
  <1>10. ASSUME NEW r \in Runs, Destroy(r) PROVE ExclusiveInv'
    BY <1>10, NamesApart, PoolEntry DEF Destroy, Goto, Removed, Mishap, Warm, daemonVars,
       histVars, RunTypes, NodeTypes, HoldInv, ExclusiveInv, Places
  <1>11. ASSUME NEW r \in Runs, RefillNot(r) PROVE ExclusiveInv'
    BY <1>11, NamesApart, PoolEntry DEF RefillNot, Goto, daemonVars, histVars, RunTypes,
       NodeTypes, HoldInv, ExclusiveInv, Places
  <1>12. ASSUME NEW r \in Runs, MakeRoom(r) PROVE ExclusiveInv'
    <2>1. CASE UNCHANGED <<idle, ctr, stray>>
      BY <1>12, <2>1, NamesApart, PoolEntry, TaskIsSomebodys DEF MakeRoom, Goto, daemonVars,
         histVars, Places, RunTypes, HoldInv, ExclusiveInv
    <2>2. CASE \E i \in Oldest(IdleNotOf(KeyOf[r])) : idle' = Without(i) /\ Removed(idle[i][2])
      <3>1. PICK i \in Oldest(IdleNotOf(KeyOf[r])) : idle' = Without(i) /\ Removed(idle[i][2])
        BY <2>2
      <3>2. i \in Places /\ idle[i][2] \in Names
        BY OldestIsPlace, PoolEntry
      <3>3. /\ \A j \in Places' : Shift(i, j) \in Places /\ Shift(i, j) # i /\ idle'[j] = idle[Shift(i, j)]
            /\ \A j, k \in Places' : Shift(i, j) = Shift(i, k) => j = k
            /\ \A k \in Places : k # i => \E j \in Places' : idle'[j] = idle[k]
        BY <3>1, <3>2, LeftThePool
      <3> QED
        BY <1>12, <3>1, <3>2, <3>3, NamesApart, PoolEntry, TaskIsSomebodys DEF MakeRoom, Removed,
           Goto, daemonVars, histVars, RunTypes, HoldInv, ExclusiveInv
    <2> QED
      BY <1>12, <2>1, <2>2 DEF MakeRoom
  <1>13. ASSUME NEW r \in Runs, WarmOne(r) PROVE ExclusiveInv'
    BY <1>13, NamesApart, PoolEntry DEF WarmOne, Goto, Mishap, daemonVars, histVars, RunTypes,
       NodeTypes, HoldInv, ExclusiveInv, Places, UsedInv
  <1>14. ASSUME NEW r \in Runs, Push(r) PROVE ExclusiveInv'
    <2> DEFINE e == <<KeyOf[r], hold[r]>>
    <2>1. e \in Keys \X Names
      BY <1>14, NodeRunsAssumption DEF Push, HoldInv
    <2>2. idle' = Append(idle, e)
      BY <1>14 DEF Push
    <2>3. e[1] = KeyOf[r] /\ e[2] = hold[r]
      OBVIOUS
    <2> HIDE DEF e
    <2>4. /\ Places \subseteq Places' /\ Len(idle) + 1 \in Places' /\ Len(idle) + 1 \notin Places
          /\ \A j \in Places' : j \in Places \/ j = Len(idle) + 1
          /\ \A j \in Places : idle'[j] = idle[j]
          /\ idle'[Len(idle) + 1] = e
      BY <2>1, <2>2, JoinedThePool
    <2>5. /\ \A s \in Runs : hold'[s] = IF s = r THEN Nobody ELSE hold[s]
          /\ pc[r] = "push" /\ hold[r] \in Names /\ UNCHANGED dropTasks
          /\ \A s \in Runs : pc'[s] = IF s = r THEN "end" ELSE pc[s]
      BY <1>14 DEF Push, Goto, RunTypes, HoldInv
    <2>6. \A j \in Places' : idle'[j][2] = hold[r] \/ (j \in Places /\ idle'[j] = idle[j])
      BY <2>3, <2>4
    <2>7. (\A s, t \in Runs : hold[s] = hold[t] /\ hold[s] # Nobody => s = t)'
      BY <2>5 DEF ExclusiveInv
    <2>8. (\A j \in Places, s \in Runs : hold[s] # idle[j][2])'
      BY <2>5, <2>6, NamesApart, PoolEntry DEF ExclusiveInv
    <2>9. (\A i, j \in Places : idle[i][2] = idle[j][2] => i = j)'
      BY <2>3, <2>4 DEF ExclusiveInv
    <2>10. (\A n \in dropTasks : (\A s \in Runs : hold[s] # n) /\ (\A i \in Places : idle[i][2] # n))'
      BY <2>5, <2>6, TaskIsSomebodys DEF ExclusiveInv
    <2>11. (\A s \in Runs : s \in dropTasks => pc[s] = "dropped")'
      BY <2>5 DEF ExclusiveInv
    <2> QED
      BY <2>7, <2>8, <2>9, <2>10, <2>11 DEF ExclusiveInv
  <1>15. ASSUME NEW r \in Runs, End(r) PROVE ExclusiveInv'
    BY <1>15, NamesApart, PoolEntry DEF End, Goto, daemonVars, histVars, RunTypes, NodeTypes,
       HoldInv, ExclusiveInv, Places
  <1>16. ASSUME NEW r \in Runs, Cancel(r) PROVE ExclusiveInv'
    BY <1>16, NamesApart, PoolEntry DEF Cancel, Goto, Mishap, daemonVars, histVars, RunTypes,
       NodeTypes, HoldInv, ExclusiveInv, Places
  <1>17. ASSUME NEW n \in Containers, DropTask(n) PROVE ExclusiveInv'
    BY <1>17, NamesApart, PoolEntry DEF DropTask, Removed, Mishap, daemonVars, histVars, RunTypes,
       NodeTypes, HoldInv, ExclusiveInv, Places
  <1>18. ASSUME NEW n \in Containers, IdleDies(n) PROVE ExclusiveInv'
    BY <1>18, NamesApart, PoolEntry DEF IdleDies, Mishap, daemonVars, histVars, RunTypes,
       NodeTypes, HoldInv, ExclusiveInv, Places
  <1>19. CASE Crash
    BY <1>19, NamesApart, PoolEntry DEF Crash, Mishap, daemonVars, histVars, RunTypes, NodeTypes,
       HoldInv, ExclusiveInv, Places
  <1>20. CASE Restart
    BY <1>20, NamesApart, PoolEntry DEF Restart, Mishap, Reap, daemonVars, histVars, RunTypes,
       NodeTypes, HoldInv, ExclusiveInv, Places
  <1>21. CASE UNCHANGED vars
    BY <1>21 DEF vars, RunTypes, NodeTypes, HoldInv, ExclusiveInv, Places
  <1> QED
    BY <1>1, <1>2, <1>3, <1>4, <1>5, <1>6, <1>7, <1>8, <1>22, <1>9, <1>10, <1>11, <1>12, <1>13,
       <1>14,
       <1>15, <1>16, <1>17, <1>18, <1>19, <1>20, <1>21 DEF Next

LEMMA UsedStep ==
  ASSUME RunTypes, NodeTypes, DaemonTypes, HoldInv, ExclusiveInv, UsedInv, [Next]_vars
  PROVE  UsedInv'
PROOF
  <1>1. ASSUME NEW r \in Runs, Begin(r) PROVE UsedInv'
    BY <1>1, NamesApart DEF Begin, Goto, Mishap, daemonVars, histVars, RunTypes, HoldInv, UsedInv,
       Places
  <1>2. ASSUME NEW r \in Runs, TakeMatching(r) PROVE UsedInv'
    <2>1. CASE UNCHANGED <<hold, idle>> /\ Goto(r, "cold")
      BY <1>2, <2>1, NamesApart, PoolEntry DEF TakeMatching, Goto, daemonVars, histVars, Places,
         RunTypes, HoldInv, UsedInv
    <2>2. CASE \E i \in Oldest(IdleOf(KeyOf[r])) :
                 hold' = [hold EXCEPT ![r] = idle[i][2]] /\ idle' = Without(i) /\ Goto(r, "inspect")
      <3>1. PICK i \in Oldest(IdleOf(KeyOf[r])) :
                 hold' = [hold EXCEPT ![r] = idle[i][2]] /\ idle' = Without(i) /\ Goto(r, "inspect")
        BY <2>2
      <3>2. i \in Places /\ idle[i][1] = KeyOf[r] /\ idle[i][2] \in Names
        BY OldestIsPlace, PoolEntry
      <3>3. /\ \A j \in Places' : Shift(i, j) \in Places /\ Shift(i, j) # i /\ idle'[j] = idle[Shift(i, j)]
            /\ \A j, k \in Places' : Shift(i, j) = Shift(i, k) => j = k
            /\ \A k \in Places : k # i => \E j \in Places' : idle'[j] = idle[k]
        BY <3>1, <3>2, LeftThePool
      <3> QED
        BY <1>2, <3>1, <3>2, <3>3, NamesApart, PoolEntry DEF TakeMatching, Goto, daemonVars,
           histVars, RunTypes, HoldInv, UsedInv
    <2> QED
      BY <1>2, <2>1, <2>2 DEF TakeMatching
  <1>3. ASSUME NEW r \in Runs, DiscardDead(r) PROVE UsedInv'
    BY <1>3, NamesApart DEF DiscardDead, Goto, Removed, RemovedOrLeft, Mishap, daemonVars, histVars,
       RunTypes, HoldInv, UsedInv,
       Places
  <1>4. ASSUME NEW r \in Runs, Adopt(r) PROVE UsedInv'
    BY <1>4, NamesApart DEF Adopt, Goto, daemonVars, histVars, RunTypes, HoldInv, UsedInv, Places
  <1>5. ASSUME NEW r \in Runs, AdoptFails(r) PROVE UsedInv'
    BY <1>5, NamesApart DEF AdoptFails, Goto, RemovedOrLeft, Mishap, daemonVars, histVars, RunTypes,
       HoldInv,
       UsedInv, Places
  <1>6. ASSUME NEW r \in Runs, Create(r) PROVE UsedInv'
    BY <1>6, NamesApart DEF Create, Goto, Mishap, daemonVars, histVars, RunTypes, HoldInv,
       UsedInv, Places
  <1>7. ASSUME NEW r \in Runs, Launch(r) PROVE UsedInv'
    BY <1>7, NamesApart DEF Launch, Goto, Mishap, Warm, daemonVars, histVars, RunTypes, HoldInv,
       UsedInv, Places, DaemonTypes, Containers
  <1>8. ASSUME NEW r \in Runs, Exit(r) PROVE UsedInv'
    BY <1>8, NamesApart DEF Exit, Goto, Mishap, Warm, daemonVars, histVars, RunTypes, HoldInv,
       UsedInv, Places
  <1>22. ASSUME NEW r \in Runs, Unattached(r) PROVE UsedInv'
    BY <1>22, NamesApart DEF Unattached, Goto, Mishap, Warm, daemonVars, histVars, RunTypes,
       HoldInv,
       UsedInv, Places
  <1>9. ASSUME NEW r \in Runs, NeverStarted(r) PROVE UsedInv'
    BY <1>9, NamesApart DEF NeverStarted, Goto, Mishap, Warm, daemonVars, histVars, RunTypes,
       HoldInv, UsedInv, Places
  <1>10. ASSUME NEW r \in Runs, Destroy(r) PROVE UsedInv'
    BY <1>10, NamesApart DEF Destroy, Goto, Removed, Mishap, Warm, daemonVars, histVars, RunTypes,
       HoldInv, UsedInv, Places
  <1>11. ASSUME NEW r \in Runs, RefillNot(r) PROVE UsedInv'
    BY <1>11, NamesApart DEF RefillNot, Goto, daemonVars, histVars, RunTypes, HoldInv, UsedInv,
       Places
  <1>12. ASSUME NEW r \in Runs, MakeRoom(r) PROVE UsedInv'
    <2>1. CASE UNCHANGED <<idle, ctr, stray>>
      BY <1>12, <2>1, NamesApart, PoolEntry DEF MakeRoom, Goto, daemonVars, histVars, Places,
         RunTypes, HoldInv, UsedInv
    <2>2. CASE \E i \in Oldest(IdleNotOf(KeyOf[r])) : idle' = Without(i) /\ Removed(idle[i][2])
      <3>1. PICK i \in Oldest(IdleNotOf(KeyOf[r])) : idle' = Without(i) /\ Removed(idle[i][2])
        BY <2>2
      <3>2. i \in Places /\ idle[i][2] \in Names
        BY OldestIsPlace, PoolEntry
      <3>3. /\ \A j \in Places' : Shift(i, j) \in Places /\ Shift(i, j) # i /\ idle'[j] = idle[Shift(i, j)]
            /\ \A j, k \in Places' : Shift(i, j) = Shift(i, k) => j = k
            /\ \A k \in Places : k # i => \E j \in Places' : idle'[j] = idle[k]
        BY <3>1, <3>2, LeftThePool
      <3> QED
        BY <1>12, <3>1, <3>2, <3>3, NamesApart, PoolEntry DEF MakeRoom, Removed, Goto, daemonVars,
           histVars, RunTypes, HoldInv, UsedInv
    <2> QED
      BY <1>12, <2>1, <2>2 DEF MakeRoom
  <1>13. ASSUME NEW r \in Runs, WarmOne(r) PROVE UsedInv'
    BY <1>13, NamesApart DEF WarmOne, Goto, Mishap, daemonVars, histVars, RunTypes, HoldInv,
       UsedInv, Places
  <1>14. ASSUME NEW r \in Runs, Push(r) PROVE UsedInv'
    <2> DEFINE e == <<KeyOf[r], hold[r]>>
    <2>1. e \in Keys \X Names
      BY <1>14, NodeRunsAssumption DEF Push, HoldInv
    <2>2. idle' = Append(idle, e)
      BY <1>14 DEF Push
    <2>3. e[1] = KeyOf[r] /\ e[2] = hold[r]
      OBVIOUS
    <2> HIDE DEF e
    <2>4. /\ Places \subseteq Places' /\ Len(idle) + 1 \in Places' /\ Len(idle) + 1 \notin Places
          /\ \A j \in Places' : j \in Places \/ j = Len(idle) + 1
          /\ \A j \in Places : idle'[j] = idle[j]
          /\ idle'[Len(idle) + 1] = e
      BY <2>1, <2>2, JoinedThePool
    <2> QED
      BY <1>14, <2>3, <2>4, NamesApart, PoolEntry DEF Push, Goto, daemonVars, histVars, RunTypes,
         HoldInv, UsedInv
  <1>15. ASSUME NEW r \in Runs, End(r) PROVE UsedInv'
    BY <1>15, NamesApart DEF End, Goto, daemonVars, histVars, RunTypes, HoldInv, UsedInv, Places
  <1>16. ASSUME NEW r \in Runs, Cancel(r) PROVE UsedInv'
    BY <1>16, NamesApart DEF Cancel, Goto, Mishap, daemonVars, histVars, RunTypes, HoldInv,
       UsedInv, Places
  <1>17. ASSUME NEW n \in Containers, DropTask(n) PROVE UsedInv'
    BY <1>17, NamesApart DEF DropTask, Removed, Mishap, daemonVars, histVars, RunTypes, HoldInv,
       UsedInv, Places
  <1>18. ASSUME NEW n \in Containers, IdleDies(n) PROVE UsedInv'
    BY <1>18, NamesApart DEF IdleDies, Mishap, daemonVars, histVars, RunTypes, HoldInv, UsedInv,
       Places
  <1>19. CASE Crash
    BY <1>19, NamesApart DEF Crash, Mishap, daemonVars, histVars, RunTypes, HoldInv, UsedInv, Places
  <1>20. CASE Restart
    BY <1>20, NamesApart DEF Restart, Mishap, Reap, daemonVars, histVars, RunTypes, HoldInv,
       UsedInv, Places
  <1>21. CASE UNCHANGED vars
    BY <1>21 DEF vars, RunTypes, HoldInv, UsedInv, Places
  <1> QED
    BY <1>1, <1>2, <1>3, <1>4, <1>5, <1>6, <1>7, <1>8, <1>22, <1>9, <1>10, <1>11, <1>12, <1>13,
       <1>14,
       <1>15, <1>16, <1>17, <1>18, <1>19, <1>20, <1>21 DEF Next

LEMMA FreshStep ==
  ASSUME RunTypes, NodeTypes, DaemonTypes, HoldInv, ExclusiveInv, UsedInv, FreshInv, [Next]_vars
  PROVE  FreshInv'
PROOF
  <1>1. ASSUME NEW r \in Runs, Begin(r) PROVE FreshInv'
    BY <1>1, NamesApart, PoolEntry DEF Begin, Goto, Mishap, daemonVars, histVars, RunTypes,
       DaemonTypes, HoldInv, FreshInv, FreshHeld, FreshPooled, FreshOwn, Places
  <1>2. ASSUME NEW r \in Runs, TakeMatching(r) PROVE FreshInv'
    <2>1. CASE UNCHANGED <<hold, idle>> /\ Goto(r, "cold")
      BY <1>2, <2>1, NamesApart, PoolEntry DEF TakeMatching, Goto, daemonVars, histVars, Places,
         RunTypes, HoldInv, FreshHeld, FreshPooled, FreshOwn, FreshInv
    <2>2. CASE \E i \in Oldest(IdleOf(KeyOf[r])) :
                 hold' = [hold EXCEPT ![r] = idle[i][2]] /\ idle' = Without(i) /\ Goto(r, "inspect")
      <3>1. PICK i \in Oldest(IdleOf(KeyOf[r])) :
                 hold' = [hold EXCEPT ![r] = idle[i][2]] /\ idle' = Without(i) /\ Goto(r, "inspect")
        BY <2>2
      <3>2. i \in Places /\ idle[i][1] = KeyOf[r] /\ idle[i][2] \in Names
        BY OldestIsPlace, PoolEntry
      <3>3. /\ \A j \in Places' : Shift(i, j) \in Places /\ Shift(i, j) # i /\ idle'[j] = idle[Shift(i, j)]
            /\ \A j, k \in Places' : Shift(i, j) = Shift(i, k) => j = k
            /\ \A k \in Places : k # i => \E j \in Places' : idle'[j] = idle[k]
        BY <3>1, <3>2, LeftThePool
      <3>7. FreshHeld'
        <4>1. /\ pc' = [pc EXCEPT ![r] = "inspect"] /\ UNCHANGED <<ranIn, made>>
              /\ hold' = [hold EXCEPT ![r] = idle[i][2]]
          BY <1>2, <3>1 DEF TakeMatching, Goto, daemonVars, histVars
        <4>2. ranIn[idle[i][2]] = {} /\ made[idle[i][2]] = KeyOf[r]
          BY <3>2 DEF FreshInv, FreshPooled
        <4> QED
          BY <4>1, <4>2 DEF RunTypes, FreshInv, FreshHeld
      <3>8. FreshPooled'
        <4> SUFFICES ASSUME NEW j \in Places'
                     PROVE  ranIn'[idle'[j][2]] = {} /\ made'[idle'[j][2]] = idle'[j][1]
          BY DEF FreshPooled
        <4>1. UNCHANGED <<ranIn, made>>
          BY <1>2 DEF TakeMatching, Goto, daemonVars, histVars
        <4>2. Shift(i, j) \in Places /\ idle'[j] = idle[Shift(i, j)]
          BY <3>3
        <4> QED
          BY <4>1, <4>2 DEF FreshInv, FreshPooled
      <3>9. FreshOwn'
        BY <1>2, <3>1, <3>2, <3>3, NamesApart, PoolEntry DEF TakeMatching, Goto, daemonVars,
           histVars, RunTypes, HoldInv, FreshInv, FreshHeld, FreshPooled, FreshOwn
      <3> QED
        BY <3>7, <3>8, <3>9 DEF FreshInv
    <2> QED
      BY <1>2, <2>1, <2>2 DEF TakeMatching
  <1>3. ASSUME NEW r \in Runs, DiscardDead(r) PROVE FreshInv'
    BY <1>3, NamesApart, PoolEntry DEF DiscardDead, Goto, Removed, RemovedOrLeft, Mishap,
       daemonVars, histVars, RunTypes,
       DaemonTypes, HoldInv, FreshInv, FreshHeld, FreshPooled, FreshOwn, Places
  <1>4. ASSUME NEW r \in Runs, Adopt(r) PROVE FreshInv'
    <2>1. /\ pc[r] = "inspect" /\ pc' = [pc EXCEPT ![r] = "ready"]
          /\ UNCHANGED <<hold, idle, ranIn, made>>
      BY <1>4 DEF Adopt, Goto, daemonVars, histVars
    <2> QED
      BY <2>1 DEF RunTypes, FreshInv, FreshHeld, FreshPooled, FreshOwn, Places
  <1>5. ASSUME NEW r \in Runs, AdoptFails(r) PROVE FreshInv'
    BY <1>5, NamesApart, PoolEntry DEF AdoptFails, Goto, RemovedOrLeft, Mishap, daemonVars,
       histVars, RunTypes,
       DaemonTypes, HoldInv, FreshInv, FreshHeld, FreshPooled, FreshOwn, Places
  <1>6. ASSUME NEW r \in Runs, Create(r) PROVE FreshInv'
    BY <1>6, NamesApart, PoolEntry DEF Create, Goto, Mishap, daemonVars, histVars, RunTypes,
       DaemonTypes, HoldInv, FreshInv, FreshHeld, FreshPooled, FreshOwn, Places, Containers
  <1>7. ASSUME NEW r \in Runs, Launch(r) PROVE FreshInv'
    <2>1. FreshHeld'
      BY <1>7, NamesApart, SMTT(30) DEF Launch, Goto, Mishap, Warm, daemonVars, histVars, RunTypes,
         DaemonTypes, HoldInv, FreshInv, FreshHeld, Containers, ExclusiveInv
    <2>2. FreshPooled'
      BY <1>7, NamesApart, PoolEntry, SMTT(30) DEF Launch, Goto, Mishap, Warm, daemonVars, histVars,
         RunTypes, DaemonTypes, HoldInv, FreshInv, FreshPooled, Places, Containers, ExclusiveInv
    <2>3. FreshOwn'
      BY <1>7, NamesApart, SMTT(30) DEF Launch, Goto, Mishap, Warm, daemonVars, histVars, RunTypes,
         DaemonTypes, HoldInv, FreshInv, FreshOwn, Containers, ExclusiveInv
    <2> QED
      BY <2>1, <2>2, <2>3 DEF FreshInv
  <1>8. ASSUME NEW r \in Runs, Exit(r) PROVE FreshInv'
    BY <1>8, NamesApart, PoolEntry DEF Exit, Goto, Mishap, Warm, daemonVars, histVars, RunTypes,
       DaemonTypes, HoldInv, FreshInv, FreshHeld, FreshPooled, FreshOwn, Places
  <1>22. ASSUME NEW r \in Runs, Unattached(r) PROVE FreshInv'
    BY <1>22, NamesApart, PoolEntry DEF Unattached, Goto, Mishap, Warm, daemonVars, histVars,
       RunTypes,
       DaemonTypes, HoldInv, FreshInv, FreshHeld, FreshPooled, FreshOwn, Places
  <1>9. ASSUME NEW r \in Runs, NeverStarted(r) PROVE FreshInv'
    BY <1>9, NamesApart, PoolEntry DEF NeverStarted, Goto, Mishap, Warm, daemonVars, histVars,
       RunTypes, DaemonTypes, HoldInv, FreshInv, FreshHeld, FreshPooled, FreshOwn, Places
  <1>10. ASSUME NEW r \in Runs, Destroy(r) PROVE FreshInv'
    BY <1>10, NamesApart, PoolEntry DEF Destroy, Goto, Removed, Mishap, Warm, daemonVars,
       histVars, RunTypes, DaemonTypes, HoldInv, FreshInv, FreshHeld, FreshPooled, FreshOwn,
       Places
  <1>11. ASSUME NEW r \in Runs, RefillNot(r) PROVE FreshInv'
    BY <1>11, NamesApart, PoolEntry DEF RefillNot, Goto, daemonVars, histVars, RunTypes,
       DaemonTypes, HoldInv, FreshInv, FreshHeld, FreshPooled, FreshOwn, Places
  <1>12. ASSUME NEW r \in Runs, MakeRoom(r) PROVE FreshInv'
    <2>1. CASE UNCHANGED <<idle, ctr, stray>>
      BY <1>12, <2>1, NamesApart, PoolEntry DEF MakeRoom, Goto, daemonVars, histVars, Places,
         RunTypes, HoldInv, FreshHeld, FreshPooled, FreshOwn, FreshInv
    <2>2. CASE \E i \in Oldest(IdleNotOf(KeyOf[r])) : idle' = Without(i) /\ Removed(idle[i][2])
      <3>1. PICK i \in Oldest(IdleNotOf(KeyOf[r])) : idle' = Without(i) /\ Removed(idle[i][2])
        BY <2>2
      <3>2. i \in Places /\ idle[i][2] \in Names
        BY OldestIsPlace, PoolEntry
      <3>3. /\ \A j \in Places' : Shift(i, j) \in Places /\ Shift(i, j) # i /\ idle'[j] = idle[Shift(i, j)]
            /\ \A j, k \in Places' : Shift(i, j) = Shift(i, k) => j = k
            /\ \A k \in Places : k # i => \E j \in Places' : idle'[j] = idle[k]
        BY <3>1, <3>2, LeftThePool
      <3>7. FreshHeld'
        BY <1>12, <3>1, <3>2, <3>3, NamesApart, PoolEntry DEF MakeRoom, Removed, Goto, daemonVars,
           histVars, RunTypes, HoldInv, FreshInv, FreshHeld, FreshPooled, FreshOwn
      <3>8. FreshPooled'
        <4> SUFFICES ASSUME NEW j \in Places'
                     PROVE  ranIn'[idle'[j][2]] = {} /\ made'[idle'[j][2]] = idle'[j][1]
          BY DEF FreshPooled
        <4>1. UNCHANGED <<ranIn, made>>
          BY <1>12 DEF MakeRoom, Removed, Goto, daemonVars, histVars
        <4>2. Shift(i, j) \in Places /\ idle'[j] = idle[Shift(i, j)]
          BY <3>3
        <4> QED
          BY <4>1, <4>2 DEF FreshInv, FreshPooled
      <3>9. FreshOwn'
        BY <1>12, <3>1, <3>2, <3>3, NamesApart, PoolEntry DEF MakeRoom, Removed, Goto, daemonVars,
           histVars, RunTypes, HoldInv, FreshInv, FreshHeld, FreshPooled, FreshOwn
      <3> QED
        BY <3>7, <3>8, <3>9 DEF FreshInv
    <2> QED
      BY <1>12, <2>1, <2>2 DEF MakeRoom
  <1>13. ASSUME NEW r \in Runs, WarmOne(r) PROVE FreshInv'
    BY <1>13, NamesApart, PoolEntry DEF WarmOne, Goto, Mishap, daemonVars, histVars, RunTypes,
       DaemonTypes, HoldInv, FreshInv, FreshHeld, FreshPooled, FreshOwn, Places, Containers,
       UsedInv
  <1>14. ASSUME NEW r \in Runs, Push(r) PROVE FreshInv'
    <2> DEFINE e == <<KeyOf[r], hold[r]>>
    <2>1. e \in Keys \X Names
      BY <1>14, NodeRunsAssumption DEF Push, HoldInv
    <2>2. idle' = Append(idle, e)
      BY <1>14 DEF Push
    <2>3. e[1] = KeyOf[r] /\ e[2] = hold[r]
      OBVIOUS
    <2> HIDE DEF e
    <2>4. /\ Places \subseteq Places' /\ Len(idle) + 1 \in Places' /\ Len(idle) + 1 \notin Places
          /\ \A j \in Places' : j \in Places \/ j = Len(idle) + 1
          /\ \A j \in Places : idle'[j] = idle[j]
          /\ idle'[Len(idle) + 1] = e
      BY <2>1, <2>2, JoinedThePool
    <2>7. FreshHeld'
      BY <1>14, <2>3, <2>4, NamesApart, PoolEntry DEF Push, Goto, daemonVars, histVars, RunTypes,
         HoldInv, FreshInv, FreshHeld, FreshPooled, FreshOwn
    <2>8. FreshPooled'
      <3> SUFFICES ASSUME NEW j \in Places'
                   PROVE  ranIn'[idle'[j][2]] = {} /\ made'[idle'[j][2]] = idle'[j][1]
        BY DEF FreshPooled
      <3>1. UNCHANGED <<ranIn, made>>
        BY <1>14 DEF Push, Goto, daemonVars, histVars
      <3>2. ranIn[hold[r]] = {} /\ made[hold[r]] = KeyOf[r]
        BY <1>14 DEF Push, FreshInv, FreshHeld
      <3>3. CASE j \in Places
        BY <3>1, <3>3, <2>4 DEF FreshInv, FreshPooled
      <3>4. CASE j = Len(idle) + 1
        BY <3>1, <3>2, <3>4, <2>3, <2>4
      <3> QED
        BY <3>3, <3>4, <2>4
    <2>9. FreshOwn'
      BY <1>14, <2>3, <2>4, NamesApart, PoolEntry DEF Push, Goto, daemonVars, histVars, RunTypes,
         HoldInv, FreshInv, FreshHeld, FreshPooled, FreshOwn
    <2> QED
      BY <2>7, <2>8, <2>9 DEF FreshInv
  <1>15. ASSUME NEW r \in Runs, End(r) PROVE FreshInv'
    BY <1>15, NamesApart, PoolEntry DEF End, Goto, daemonVars, histVars, RunTypes, DaemonTypes,
       HoldInv, FreshInv, FreshHeld, FreshPooled, FreshOwn, Places
  <1>16. ASSUME NEW r \in Runs, Cancel(r) PROVE FreshInv'
    BY <1>16, NamesApart, PoolEntry DEF Cancel, Goto, Mishap, daemonVars, histVars, RunTypes,
       DaemonTypes, HoldInv, FreshInv, FreshHeld, FreshPooled, FreshOwn, Places
  <1>17. ASSUME NEW n \in Containers, DropTask(n) PROVE FreshInv'
    BY <1>17, NamesApart, PoolEntry DEF DropTask, Removed, Mishap, daemonVars, histVars, RunTypes,
       DaemonTypes, HoldInv, FreshInv, FreshHeld, FreshPooled, FreshOwn, Places
  <1>18. ASSUME NEW n \in Containers, IdleDies(n) PROVE FreshInv'
    BY <1>18, NamesApart, PoolEntry DEF IdleDies, Mishap, daemonVars, histVars, RunTypes,
       DaemonTypes, HoldInv, FreshInv, FreshHeld, FreshPooled, FreshOwn, Places
  <1>19. CASE Crash
    BY <1>19, NamesApart, PoolEntry DEF Crash, Mishap, daemonVars, histVars, RunTypes,
       DaemonTypes, HoldInv, FreshInv, FreshHeld, FreshPooled, FreshOwn, Places
  <1>20. CASE Restart
    BY <1>20, NamesApart, PoolEntry DEF Restart, Mishap, Reap, daemonVars, histVars, RunTypes,
       DaemonTypes, HoldInv, FreshInv, FreshHeld, FreshPooled, FreshOwn, Places
  <1>21. CASE UNCHANGED vars
    BY <1>21 DEF vars, RunTypes, DaemonTypes, HoldInv, FreshInv, FreshHeld, FreshPooled, FreshOwn,
       Places
  <1> QED
    BY <1>1, <1>2, <1>3, <1>4, <1>5, <1>6, <1>7, <1>8, <1>22, <1>9, <1>10, <1>11, <1>12, <1>13,
       <1>14,
       <1>15, <1>16, <1>17, <1>18, <1>19, <1>20, <1>21 DEF Next

LEMMA RanStep ==
  ASSUME RunTypes, NodeTypes, DaemonTypes, HoldInv, ExclusiveInv, UsedInv, FreshInv, RanInv, [Next]_vars
  PROVE  RanInv'
PROOF
  <1>1. ASSUME NEW r \in Runs, Begin(r) PROVE RanInv'
    BY <1>1, NamesApart DEF Begin, Goto, Mishap, daemonVars, histVars, RunTypes, DaemonTypes,
       HoldInv, RanInv, Containers
  <1>2. ASSUME NEW r \in Runs, TakeMatching(r) PROVE RanInv'
    BY <1>2, NamesApart DEF TakeMatching, Goto, IdleOf, Oldest, daemonVars, histVars, RunTypes,
       DaemonTypes, HoldInv, RanInv, Containers
  <1>3. ASSUME NEW r \in Runs, DiscardDead(r) PROVE RanInv'
    BY <1>3, NamesApart DEF DiscardDead, Goto, Removed, RemovedOrLeft, Mishap, daemonVars, histVars,
       RunTypes, DaemonTypes,
       HoldInv, RanInv, Containers
  <1>4. ASSUME NEW r \in Runs, Adopt(r) PROVE RanInv'
    BY <1>4, NamesApart DEF Adopt, Goto, daemonVars, histVars, RunTypes, DaemonTypes, HoldInv,
       RanInv, Containers
  <1>5. ASSUME NEW r \in Runs, AdoptFails(r) PROVE RanInv'
    BY <1>5, NamesApart DEF AdoptFails, Goto, RemovedOrLeft, Mishap, daemonVars, histVars, RunTypes,
       DaemonTypes,
       HoldInv, RanInv, Containers
  <1>6. ASSUME NEW r \in Runs, Create(r) PROVE RanInv'
    BY <1>6, NamesApart DEF Create, Goto, Mishap, daemonVars, histVars, RunTypes, DaemonTypes,
       HoldInv, RanInv, Containers, FreshInv, FreshOwn
  <1>7. ASSUME NEW r \in Runs, Launch(r) PROVE RanInv'
    <2>1. CASE UNCHANGED ranIn
      BY <1>7, <2>1 DEF Launch, RanInv
    <2>2. CASE ranIn' = [ranIn EXCEPT ![hold[r]] = ranIn[hold[r]] \cup {r}]
      <3>1. ranIn[hold[r]] = {} /\ made[hold[r]] = KeyOf[r]
        BY <1>7 DEF Launch, FreshInv, FreshHeld
      <3>2. UNCHANGED made
        BY <1>7 DEF Launch
      <3> QED
        BY <2>2, <3>1, <3>2 DEF RanInv, DaemonTypes
    <2> QED
      BY <1>7, <2>1, <2>2 DEF Launch
  <1>8. ASSUME NEW r \in Runs, Exit(r) PROVE RanInv'
    BY <1>8, NamesApart DEF Exit, Goto, Mishap, Warm, daemonVars, histVars, RunTypes, DaemonTypes,
       HoldInv, RanInv, Containers
  <1>22. ASSUME NEW r \in Runs, Unattached(r) PROVE RanInv'
    BY <1>22, NamesApart DEF Unattached, Goto, Mishap, Warm, daemonVars, histVars, RunTypes,
       DaemonTypes,
       HoldInv, RanInv, Containers
  <1>9. ASSUME NEW r \in Runs, NeverStarted(r) PROVE RanInv'
    BY <1>9, NamesApart DEF NeverStarted, Goto, Mishap, Warm, daemonVars, histVars, RunTypes,
       DaemonTypes, HoldInv, RanInv, Containers
  <1>10. ASSUME NEW r \in Runs, Destroy(r) PROVE RanInv'
    BY <1>10, NamesApart DEF Destroy, Goto, Removed, Mishap, Warm, daemonVars, histVars, RunTypes,
       DaemonTypes, HoldInv, RanInv, Containers
  <1>11. ASSUME NEW r \in Runs, RefillNot(r) PROVE RanInv'
    BY <1>11, NamesApart DEF RefillNot, Goto, daemonVars, histVars, RunTypes, DaemonTypes,
       HoldInv, RanInv, Containers
  <1>12. ASSUME NEW r \in Runs, MakeRoom(r) PROVE RanInv'
    BY <1>12, NamesApart DEF MakeRoom, Goto, Removed, Mishap, IdleNotOf, Oldest, daemonVars,
       histVars, RunTypes, DaemonTypes, HoldInv, RanInv, Containers
  <1>13. ASSUME NEW r \in Runs, WarmOne(r) PROVE RanInv'
    BY <1>13, NamesApart DEF WarmOne, Goto, Mishap, daemonVars, histVars, RunTypes, DaemonTypes,
       HoldInv, RanInv, Containers, UsedInv
  <1>14. ASSUME NEW r \in Runs, Push(r) PROVE RanInv'
    BY <1>14, NamesApart DEF Push, Goto, daemonVars, histVars, RunTypes, DaemonTypes, HoldInv,
       RanInv, Containers
  <1>15. ASSUME NEW r \in Runs, End(r) PROVE RanInv'
    BY <1>15, NamesApart DEF End, Goto, daemonVars, histVars, RunTypes, DaemonTypes, HoldInv,
       RanInv, Containers
  <1>16. ASSUME NEW r \in Runs, Cancel(r) PROVE RanInv'
    BY <1>16, NamesApart DEF Cancel, Goto, Mishap, daemonVars, histVars, RunTypes, DaemonTypes,
       HoldInv, RanInv, Containers
  <1>17. ASSUME NEW n \in Containers, DropTask(n) PROVE RanInv'
    BY <1>17, NamesApart DEF DropTask, Removed, Mishap, daemonVars, histVars, RunTypes,
       DaemonTypes, HoldInv, RanInv, Containers
  <1>18. ASSUME NEW n \in Containers, IdleDies(n) PROVE RanInv'
    BY <1>18, NamesApart DEF IdleDies, Mishap, daemonVars, histVars, RunTypes, DaemonTypes,
       HoldInv, RanInv, Containers
  <1>19. CASE Crash
    BY <1>19, NamesApart DEF Crash, Mishap, daemonVars, histVars, RunTypes, DaemonTypes, HoldInv,
       RanInv, Containers
  <1>20. CASE Restart
    BY <1>20, NamesApart DEF Restart, Mishap, Reap, daemonVars, histVars, RunTypes, DaemonTypes,
       HoldInv, RanInv, Containers
  <1>21. CASE UNCHANGED vars
    BY <1>21 DEF vars, RunTypes, DaemonTypes, HoldInv, RanInv, Containers
  <1> QED
    BY <1>1, <1>2, <1>3, <1>4, <1>5, <1>6, <1>7, <1>8, <1>22, <1>9, <1>10, <1>11, <1>12, <1>13,
       <1>14,
       <1>15, <1>16, <1>17, <1>18, <1>19, <1>20, <1>21 DEF Next

LEMMA FilesStep ==
  ASSUME RunTypes, NodeTypes, DaemonTypes, HoldInv, ExclusiveInv, UsedInv, FilesInv, [Next]_vars
  PROVE  FilesInv'
PROOF
  <1>1. ASSUME NEW r \in Runs, Begin(r) PROVE FilesInv'
    BY <1>1, NamesApart DEF Begin, Goto, Mishap, daemonVars, histVars, RunTypes, DaemonTypes,
       HoldInv, FilesInv, Containers
  <1>2. ASSUME NEW r \in Runs, TakeMatching(r) PROVE FilesInv'
    BY <1>2, NamesApart DEF TakeMatching, Goto, IdleOf, Oldest, daemonVars, histVars, RunTypes,
       DaemonTypes, HoldInv, FilesInv, Containers
  <1>3. ASSUME NEW r \in Runs, DiscardDead(r) PROVE FilesInv'
    BY <1>3, NamesApart DEF DiscardDead, Goto, Removed, RemovedOrLeft, Mishap, daemonVars, histVars,
       RunTypes, DaemonTypes,
       HoldInv, FilesInv, Containers
  <1>4. ASSUME NEW r \in Runs, Adopt(r) PROVE FilesInv'
    BY <1>4, NamesApart DEF Adopt, Goto, daemonVars, histVars, RunTypes, DaemonTypes, HoldInv,
       FilesInv, Containers, ExclusiveInv
  <1>5. ASSUME NEW r \in Runs, AdoptFails(r) PROVE FilesInv'
    BY <1>5, NamesApart DEF AdoptFails, Goto, RemovedOrLeft, Mishap, daemonVars, histVars, RunTypes,
       DaemonTypes,
       HoldInv, FilesInv, Containers, ExclusiveInv
  <1>6. ASSUME NEW r \in Runs, Create(r) PROVE FilesInv'
    BY <1>6, NamesApart DEF Create, Goto, Mishap, daemonVars, histVars, RunTypes, DaemonTypes,
       HoldInv, FilesInv, Containers, ExclusiveInv
  <1>7. ASSUME NEW r \in Runs, Launch(r) PROVE FilesInv'
    BY <1>7, NamesApart DEF Launch, Goto, Mishap, Warm, daemonVars, histVars, RunTypes,
       DaemonTypes, HoldInv, FilesInv, Containers, ExclusiveInv
  <1>8. ASSUME NEW r \in Runs, Exit(r) PROVE FilesInv'
    BY <1>8, NamesApart DEF Exit, Goto, Mishap, Warm, daemonVars, histVars, RunTypes, DaemonTypes,
       HoldInv, FilesInv, Containers
  <1>22. ASSUME NEW r \in Runs, Unattached(r) PROVE FilesInv'
    BY <1>22, NamesApart DEF Unattached, Goto, Mishap, Warm, daemonVars, histVars, RunTypes,
       DaemonTypes,
       HoldInv, FilesInv, Containers
  <1>9. ASSUME NEW r \in Runs, NeverStarted(r) PROVE FilesInv'
    BY <1>9, NamesApart DEF NeverStarted, Goto, Mishap, Warm, daemonVars, histVars, RunTypes,
       DaemonTypes, HoldInv, FilesInv, Containers
  <1>10. ASSUME NEW r \in Runs, Destroy(r) PROVE FilesInv'
    BY <1>10, NamesApart DEF Destroy, Goto, Removed, Mishap, Warm, daemonVars, histVars, RunTypes,
       DaemonTypes, HoldInv, FilesInv, Containers, ExclusiveInv
  <1>11. ASSUME NEW r \in Runs, RefillNot(r) PROVE FilesInv'
    BY <1>11, NamesApart DEF RefillNot, Goto, daemonVars, histVars, RunTypes, DaemonTypes,
       HoldInv, FilesInv, Containers
  <1>12. ASSUME NEW r \in Runs, MakeRoom(r) PROVE FilesInv'
    BY <1>12, NamesApart DEF MakeRoom, Goto, Removed, Mishap, IdleNotOf, Oldest, daemonVars,
       histVars, RunTypes, DaemonTypes, HoldInv, FilesInv, Containers
  <1>13. ASSUME NEW r \in Runs, WarmOne(r) PROVE FilesInv'
    BY <1>13, NamesApart DEF WarmOne, Goto, Mishap, daemonVars, histVars, RunTypes, DaemonTypes,
       HoldInv, FilesInv, Containers
  <1>14. ASSUME NEW r \in Runs, Push(r) PROVE FilesInv'
    BY <1>14, NamesApart DEF Push, Goto, daemonVars, histVars, RunTypes, DaemonTypes, HoldInv,
       FilesInv, Containers
  <1>15. ASSUME NEW r \in Runs, End(r) PROVE FilesInv'
    BY <1>15, NamesApart DEF End, Goto, daemonVars, histVars, RunTypes, DaemonTypes, HoldInv,
       FilesInv, Containers
  <1>16. ASSUME NEW r \in Runs, Cancel(r) PROVE FilesInv'
    BY <1>16, NamesApart DEF Cancel, Goto, Mishap, daemonVars, histVars, RunTypes, DaemonTypes,
       HoldInv, FilesInv, Containers
  <1>17. ASSUME NEW n \in Containers, DropTask(n) PROVE FilesInv'
    BY <1>17, NamesApart DEF DropTask, Removed, Mishap, daemonVars, histVars, RunTypes,
       DaemonTypes, HoldInv, FilesInv, Containers, ExclusiveInv
  <1>18. ASSUME NEW n \in Containers, IdleDies(n) PROVE FilesInv'
    BY <1>18, NamesApart DEF IdleDies, Mishap, daemonVars, histVars, RunTypes, DaemonTypes,
       HoldInv, FilesInv, Containers
  <1>19. CASE Crash
    BY <1>19, NamesApart DEF Crash, Mishap, daemonVars, histVars, RunTypes, DaemonTypes, HoldInv,
       FilesInv, Containers
  <1>20. CASE Restart
    BY <1>20, NamesApart DEF Restart, Mishap, Reap, daemonVars, histVars, RunTypes, DaemonTypes,
       HoldInv, FilesInv, Containers
  <1>21. CASE UNCHANGED vars
    BY <1>21 DEF vars, RunTypes, DaemonTypes, HoldInv, FilesInv, Containers
  <1> QED
    BY <1>1, <1>2, <1>3, <1>4, <1>5, <1>6, <1>7, <1>8, <1>22, <1>9, <1>10, <1>11, <1>12, <1>13,
       <1>14,
       <1>15, <1>16, <1>17, <1>18, <1>19, <1>20, <1>21 DEF Next

LEMMA OwnStep ==
  ASSUME RunTypes, NodeTypes, DaemonTypes, HoldInv, ExclusiveInv, UsedInv, FilesInv, OwnWorkspace, [Next]_vars
  PROVE  OwnWorkspace'
PROOF
  <1>1. ASSUME NEW r \in Runs, Begin(r) PROVE OwnWorkspace'
    BY <1>1, NamesApart DEF Begin, Goto, Mishap, daemonVars, histVars, RunTypes, DaemonTypes,
       HoldInv, OwnWorkspace, Started, Containers
  <1>2. ASSUME NEW r \in Runs, TakeMatching(r) PROVE OwnWorkspace'
    BY <1>2, NamesApart DEF TakeMatching, Goto, IdleOf, Oldest, daemonVars, histVars, RunTypes,
       DaemonTypes, HoldInv, OwnWorkspace, Started, Containers
  <1>3. ASSUME NEW r \in Runs, DiscardDead(r) PROVE OwnWorkspace'
    BY <1>3, NamesApart DEF DiscardDead, Goto, Removed, RemovedOrLeft, Mishap, daemonVars, histVars,
       RunTypes, DaemonTypes,
       HoldInv, OwnWorkspace, Started, Containers
  <1>4. ASSUME NEW r \in Runs, Adopt(r) PROVE OwnWorkspace'
    BY <1>4, NamesApart DEF Adopt, Goto, daemonVars, histVars, RunTypes, DaemonTypes, HoldInv,
       OwnWorkspace, Started, Containers
  <1>5. ASSUME NEW r \in Runs, AdoptFails(r) PROVE OwnWorkspace'
    BY <1>5, NamesApart DEF AdoptFails, Goto, RemovedOrLeft, Mishap, daemonVars, histVars, RunTypes,
       DaemonTypes,
       HoldInv, OwnWorkspace, Started, Containers
  <1>6. ASSUME NEW r \in Runs, Create(r) PROVE OwnWorkspace'
    BY <1>6, NamesApart DEF Create, Goto, Mishap, daemonVars, histVars, RunTypes, DaemonTypes,
       HoldInv, OwnWorkspace, Started, Containers
  <1>7. ASSUME NEW r \in Runs, Launch(r) PROVE OwnWorkspace'
    <2>1. CASE UNCHANGED <<ctr, ranIn, saw>>
      BY <1>7, <2>1 DEF Launch, OwnWorkspace, Started
    <2>2. CASE /\ ranIn' = [ranIn EXCEPT ![hold[r]] = ranIn[hold[r]] \cup {r}]
               /\ saw' = [saw EXCEPT ![r] = files[hold[r]]]
      <3>1. files[hold[r]] = Own(r) \/ r \in split
        BY <1>7 DEF Launch, FilesInv
      <3>2. UNCHANGED split /\ saw'[r] = files[hold[r]] /\ \A s \in Runs : s # r => saw'[s] = saw[s]
        BY <1>7, <2>2 DEF Launch, RunTypes
      <3>3. ASSUME NEW s \in Runs, s # r, Started(s)' PROVE Started(s)
        BY <1>7, <2>2, <3>3 DEF Started, DaemonTypes
      <3> QED
        BY <3>1, <3>2, <3>3 DEF OwnWorkspace, Own
    <2> QED
      BY <1>7, <2>1, <2>2 DEF Launch
  <1>8. ASSUME NEW r \in Runs, Exit(r) PROVE OwnWorkspace'
    BY <1>8, NamesApart DEF Exit, Goto, Mishap, Warm, daemonVars, histVars, RunTypes, DaemonTypes,
       HoldInv, OwnWorkspace, Started, Containers
  <1>22. ASSUME NEW r \in Runs, Unattached(r) PROVE OwnWorkspace'
    BY <1>22, NamesApart DEF Unattached, Goto, Mishap, Warm, daemonVars, histVars, RunTypes,
       DaemonTypes,
       HoldInv, OwnWorkspace, Started, Containers
  <1>9. ASSUME NEW r \in Runs, NeverStarted(r) PROVE OwnWorkspace'
    BY <1>9, NamesApart DEF NeverStarted, Goto, Mishap, Warm, daemonVars, histVars, RunTypes,
       DaemonTypes, HoldInv, OwnWorkspace, Started, Containers
  <1>10. ASSUME NEW r \in Runs, Destroy(r) PROVE OwnWorkspace'
    BY <1>10, NamesApart DEF Destroy, Goto, Removed, Mishap, Warm, daemonVars, histVars, RunTypes,
       DaemonTypes, HoldInv, OwnWorkspace, Started, Containers
  <1>11. ASSUME NEW r \in Runs, RefillNot(r) PROVE OwnWorkspace'
    BY <1>11, NamesApart DEF RefillNot, Goto, daemonVars, histVars, RunTypes, DaemonTypes,
       HoldInv, OwnWorkspace, Started, Containers
  <1>12. ASSUME NEW r \in Runs, MakeRoom(r) PROVE OwnWorkspace'
    BY <1>12, NamesApart DEF MakeRoom, Goto, Removed, Mishap, IdleNotOf, Oldest, daemonVars,
       histVars, RunTypes, DaemonTypes, HoldInv, OwnWorkspace, Started, Containers
  <1>13. ASSUME NEW r \in Runs, WarmOne(r) PROVE OwnWorkspace'
    BY <1>13, NamesApart DEF WarmOne, Goto, Mishap, daemonVars, histVars, RunTypes, DaemonTypes,
       HoldInv, OwnWorkspace, Started, Containers
  <1>14. ASSUME NEW r \in Runs, Push(r) PROVE OwnWorkspace'
    BY <1>14, NamesApart DEF Push, Goto, daemonVars, histVars, RunTypes, DaemonTypes, HoldInv,
       OwnWorkspace, Started, Containers
  <1>15. ASSUME NEW r \in Runs, End(r) PROVE OwnWorkspace'
    BY <1>15, NamesApart DEF End, Goto, daemonVars, histVars, RunTypes, DaemonTypes, HoldInv,
       OwnWorkspace, Started, Containers
  <1>16. ASSUME NEW r \in Runs, Cancel(r) PROVE OwnWorkspace'
    BY <1>16, NamesApart DEF Cancel, Goto, Mishap, daemonVars, histVars, RunTypes, DaemonTypes,
       HoldInv, OwnWorkspace, Started, Containers
  <1>17. ASSUME NEW n \in Containers, DropTask(n) PROVE OwnWorkspace'
    BY <1>17, NamesApart DEF DropTask, Removed, Mishap, daemonVars, histVars, RunTypes,
       DaemonTypes, HoldInv, OwnWorkspace, Started, Containers
  <1>18. ASSUME NEW n \in Containers, IdleDies(n) PROVE OwnWorkspace'
    BY <1>18, NamesApart DEF IdleDies, Mishap, daemonVars, histVars, RunTypes, DaemonTypes,
       HoldInv, OwnWorkspace, Started, Containers
  <1>19. CASE Crash
    BY <1>19, NamesApart DEF Crash, Mishap, daemonVars, histVars, RunTypes, DaemonTypes, HoldInv,
       OwnWorkspace, Started, Containers
  <1>20. CASE Restart
    BY <1>20, NamesApart DEF Restart, Mishap, Reap, daemonVars, histVars, RunTypes, DaemonTypes,
       HoldInv, OwnWorkspace, Started, Containers
  <1>21. CASE UNCHANGED vars
    BY <1>21 DEF vars, RunTypes, DaemonTypes, HoldInv, OwnWorkspace, Started, Containers
  <1> QED
    BY <1>1, <1>2, <1>3, <1>4, <1>5, <1>6, <1>7, <1>8, <1>22, <1>9, <1>10, <1>11, <1>12, <1>13,
       <1>14,
       <1>15, <1>16, <1>17, <1>18, <1>19, <1>20, <1>21 DEF Next

LEMMA SpentStep ==
  ASSUME RunTypes, NodeTypes, DaemonTypes, HoldInv, ExclusiveInv, UsedInv, SpentInv, [Next]_vars
  PROVE  SpentInv'
PROOF
  <1>1. ASSUME NEW r \in Runs, Begin(r) PROVE SpentInv'
    BY <1>1, NamesApart DEF Begin, Goto, Mishap, daemonVars, histVars, RunTypes, DaemonTypes,
       HoldInv, SpentInv, Containers
  <1>2. ASSUME NEW r \in Runs, TakeMatching(r) PROVE SpentInv'
    BY <1>2, NamesApart DEF TakeMatching, Goto, IdleOf, Oldest, daemonVars, histVars, RunTypes,
       DaemonTypes, HoldInv, SpentInv, Containers
  <1>3. ASSUME NEW r \in Runs, DiscardDead(r) PROVE SpentInv'
    BY <1>3, NamesApart DEF DiscardDead, Goto, Removed, RemovedOrLeft, Mishap, daemonVars, histVars,
       RunTypes, DaemonTypes,
       HoldInv, SpentInv, Containers
  <1>4. ASSUME NEW r \in Runs, Adopt(r) PROVE SpentInv'
    BY <1>4, NamesApart DEF Adopt, Goto, daemonVars, histVars, RunTypes, DaemonTypes, HoldInv,
       SpentInv, Containers
  <1>5. ASSUME NEW r \in Runs, AdoptFails(r) PROVE SpentInv'
    BY <1>5, NamesApart DEF AdoptFails, Goto, RemovedOrLeft, Mishap, daemonVars, histVars, RunTypes,
       DaemonTypes,
       HoldInv, SpentInv, Containers
  <1>6. ASSUME NEW r \in Runs, Create(r) PROVE SpentInv'
    BY <1>6, NamesApart DEF Create, Goto, Mishap, daemonVars, histVars, RunTypes, DaemonTypes,
       HoldInv, SpentInv, Containers, ExclusiveInv
  <1>7. ASSUME NEW r \in Runs, Launch(r) PROVE SpentInv'
    BY <1>7, NamesApart DEF Launch, Goto, Mishap, Warm, daemonVars, histVars, RunTypes,
       DaemonTypes, HoldInv, SpentInv, Containers, ExclusiveInv
  <1>8. ASSUME NEW r \in Runs, Exit(r) PROVE SpentInv'
    BY <1>8, NamesApart DEF Exit, Goto, Mishap, Warm, daemonVars, histVars, RunTypes, DaemonTypes,
       HoldInv, SpentInv, Containers, ExclusiveInv
  <1>22. ASSUME NEW r \in Runs, Unattached(r) PROVE SpentInv'
    BY <1>22, NamesApart DEF Unattached, Goto, Mishap, Warm, daemonVars, histVars, RunTypes,
       DaemonTypes,
       HoldInv, SpentInv, Containers, ExclusiveInv
  <1>9. ASSUME NEW r \in Runs, NeverStarted(r) PROVE SpentInv'
    BY <1>9, NamesApart DEF NeverStarted, Goto, Mishap, Warm, daemonVars, histVars, RunTypes,
       DaemonTypes, HoldInv, SpentInv, Containers, ExclusiveInv
  <1>10. ASSUME NEW r \in Runs, Destroy(r) PROVE SpentInv'
    BY <1>10, NamesApart DEF Destroy, Goto, Removed, Mishap, Warm, daemonVars, histVars, RunTypes,
       DaemonTypes, HoldInv, SpentInv, Containers, ExclusiveInv
  <1>11. ASSUME NEW r \in Runs, RefillNot(r) PROVE SpentInv'
    BY <1>11, NamesApart DEF RefillNot, Goto, daemonVars, histVars, RunTypes, DaemonTypes,
       HoldInv, SpentInv, Containers
  <1>12. ASSUME NEW r \in Runs, MakeRoom(r) PROVE SpentInv'
    BY <1>12, NamesApart DEF MakeRoom, Goto, Removed, Mishap, IdleNotOf, Oldest, daemonVars,
       histVars, RunTypes, DaemonTypes, HoldInv, SpentInv, Containers
  <1>13. ASSUME NEW r \in Runs, WarmOne(r) PROVE SpentInv'
    BY <1>13, NamesApart DEF WarmOne, Goto, Mishap, daemonVars, histVars, RunTypes, DaemonTypes,
       HoldInv, SpentInv, Containers, UsedInv
  <1>14. ASSUME NEW r \in Runs, Push(r) PROVE SpentInv'
    BY <1>14, NamesApart DEF Push, Goto, daemonVars, histVars, RunTypes, DaemonTypes, HoldInv,
       SpentInv, Containers
  <1>15. ASSUME NEW r \in Runs, End(r) PROVE SpentInv'
    BY <1>15, NamesApart DEF End, Goto, daemonVars, histVars, RunTypes, DaemonTypes, HoldInv,
       SpentInv, Containers
  <1>16. ASSUME NEW r \in Runs, Cancel(r) PROVE SpentInv'
    BY <1>16, NamesApart DEF Cancel, Goto, Mishap, daemonVars, histVars, RunTypes, DaemonTypes,
       HoldInv, SpentInv, Containers
  <1>17. ASSUME NEW n \in Containers, DropTask(n) PROVE SpentInv'
    BY <1>17, NamesApart DEF DropTask, Removed, Mishap, daemonVars, histVars, RunTypes,
       DaemonTypes, HoldInv, SpentInv, Containers, ExclusiveInv
  <1>18. ASSUME NEW n \in Containers, IdleDies(n) PROVE SpentInv'
    BY <1>18, NamesApart DEF IdleDies, Mishap, daemonVars, histVars, RunTypes, DaemonTypes,
       HoldInv, SpentInv, Containers
  <1>19. CASE Crash
    BY <1>19, NamesApart DEF Crash, Mishap, daemonVars, histVars, RunTypes, DaemonTypes, HoldInv,
       SpentInv, Containers
  <1>20. CASE Restart
    BY <1>20, NamesApart DEF Restart, Mishap, Reap, daemonVars, histVars, RunTypes, DaemonTypes,
       HoldInv, SpentInv, Containers
  <1>21. CASE UNCHANGED vars
    BY <1>21 DEF vars, RunTypes, DaemonTypes, HoldInv, SpentInv, Containers
  <1> QED
    BY <1>1, <1>2, <1>3, <1>4, <1>5, <1>6, <1>7, <1>8, <1>22, <1>9, <1>10, <1>11, <1>12, <1>13,
       <1>14,
       <1>15, <1>16, <1>17, <1>18, <1>19, <1>20, <1>21 DEF Next

LEMMA AccountedStep ==
  ASSUME RunTypes, NodeTypes, DaemonTypes, HoldInv, ExclusiveInv, UsedInv, SpentInv, Accounted, [Next]_vars
  PROVE  Accounted'
PROOF
  <1>1. ASSUME NEW r \in Runs, Begin(r) PROVE Accounted'
    BY <1>1, NamesApart DEF Begin, Goto, Mishap, daemonVars, histVars, RunTypes, DaemonTypes,
       HoldInv, SpentInv, Accounted, Containers
  <1>2. ASSUME NEW r \in Runs, TakeMatching(r) PROVE Accounted'
    <2>1. CASE UNCHANGED <<hold, idle>> /\ Goto(r, "cold")
      BY <1>2, <2>1, NamesApart, PoolEntry DEF TakeMatching, Goto, daemonVars, histVars, Places,
         RunTypes, DaemonTypes, HoldInv, Accounted
    <2>2. CASE \E i \in Oldest(IdleOf(KeyOf[r])) :
                 hold' = [hold EXCEPT ![r] = idle[i][2]] /\ idle' = Without(i) /\ Goto(r, "inspect")
      <3>1. PICK i \in Oldest(IdleOf(KeyOf[r])) :
                 hold' = [hold EXCEPT ![r] = idle[i][2]] /\ idle' = Without(i) /\ Goto(r, "inspect")
        BY <2>2
      <3>2. i \in Places /\ idle[i][1] = KeyOf[r] /\ idle[i][2] \in Names
        BY OldestIsPlace, PoolEntry
      <3>3. /\ \A j \in Places' : Shift(i, j) \in Places /\ Shift(i, j) # i /\ idle'[j] = idle[Shift(i, j)]
            /\ \A j, k \in Places' : Shift(i, j) = Shift(i, k) => j = k
            /\ \A k \in Places : k # i => \E j \in Places' : idle'[j] = idle[k]
        BY <3>1, <3>2, LeftThePool
      <3>4. \A n : (\E k \in Places : idle[k][2] = n) => n = idle[i][2] \/ \E j \in Places' : idle'[j][2] = n
        BY <3>3
      <3>5. hold'[r] = idle[i][2] /\ hold[r] = Nobody /\ \A s \in Runs : s # r => hold'[s] = hold[s]
        BY <1>2, <3>1 DEF TakeMatching, RunTypes, HoldInv
      <3>6. UNCHANGED <<ctr, up, stray, dropTasks>>
        BY <1>2 DEF TakeMatching, daemonVars
      <3> QED
        BY <3>4, <3>5, <3>6, NamesApart DEF Accounted, Places
    <2> QED
      BY <1>2, <2>1, <2>2 DEF TakeMatching
  <1>3. ASSUME NEW r \in Runs, DiscardDead(r) PROVE Accounted'
    BY <1>3, NamesApart DEF DiscardDead, Goto, Removed, RemovedOrLeft, Mishap, daemonVars, histVars,
       RunTypes, DaemonTypes,
       HoldInv, SpentInv, Accounted, Containers
  <1>4. ASSUME NEW r \in Runs, Adopt(r) PROVE Accounted'
    BY <1>4, NamesApart DEF Adopt, Goto, daemonVars, histVars, RunTypes, DaemonTypes, HoldInv,
       SpentInv, Accounted, Containers
  <1>5. ASSUME NEW r \in Runs, AdoptFails(r) PROVE Accounted'
    BY <1>5, NamesApart DEF AdoptFails, Goto, RemovedOrLeft, Mishap, daemonVars, histVars, RunTypes,
       DaemonTypes,
       HoldInv, SpentInv, Accounted, Containers
  <1>6. ASSUME NEW r \in Runs, Create(r) PROVE Accounted'
    BY <1>6, NamesApart DEF Create, Goto, Mishap, daemonVars, histVars, RunTypes, DaemonTypes,
       HoldInv, SpentInv, Accounted, Containers
  <1>7. ASSUME NEW r \in Runs, Launch(r) PROVE Accounted'
    BY <1>7, NamesApart DEF Launch, Goto, Mishap, Warm, daemonVars, histVars, RunTypes,
       DaemonTypes, HoldInv, SpentInv, Accounted, Containers
  <1>8. ASSUME NEW r \in Runs, Exit(r) PROVE Accounted'
    BY <1>8, NamesApart DEF Exit, Goto, Mishap, Warm, daemonVars, histVars, RunTypes, DaemonTypes,
       HoldInv, SpentInv, Accounted, Containers
  <1>22. ASSUME NEW r \in Runs, Unattached(r) PROVE Accounted'
    BY <1>22, NamesApart DEF Unattached, Goto, Mishap, Warm, daemonVars, histVars, RunTypes,
       DaemonTypes,
       HoldInv, SpentInv, Accounted, Containers
  <1>9. ASSUME NEW r \in Runs, NeverStarted(r) PROVE Accounted'
    BY <1>9, NamesApart DEF NeverStarted, Goto, Mishap, Warm, daemonVars, histVars, RunTypes,
       DaemonTypes, HoldInv, SpentInv, Accounted, Containers
  <1>10. ASSUME NEW r \in Runs, Destroy(r) PROVE Accounted'
    BY <1>10, NamesApart DEF Destroy, Goto, Removed, Mishap, Warm, daemonVars, histVars, RunTypes,
       DaemonTypes, HoldInv, SpentInv, Accounted, Containers
  <1>11. ASSUME NEW r \in Runs, RefillNot(r) PROVE Accounted'
    BY <1>11, NamesApart DEF RefillNot, Goto, daemonVars, histVars, RunTypes, DaemonTypes,
       HoldInv, SpentInv, Accounted, Containers
  <1>12. ASSUME NEW r \in Runs, MakeRoom(r) PROVE Accounted'
    <2>1. CASE UNCHANGED <<idle, ctr, stray>>
      BY <1>12, <2>1, NamesApart, PoolEntry DEF MakeRoom, Goto, daemonVars, histVars, Places,
         RunTypes, DaemonTypes, HoldInv, Accounted
    <2>2. CASE \E i \in Oldest(IdleNotOf(KeyOf[r])) : idle' = Without(i) /\ Removed(idle[i][2])
      <3>1. PICK i \in Oldest(IdleNotOf(KeyOf[r])) : idle' = Without(i) /\ Removed(idle[i][2])
        BY <2>2
      <3>2. i \in Places /\ idle[i][2] \in Names
        BY OldestIsPlace, PoolEntry
      <3>3. /\ \A j \in Places' : Shift(i, j) \in Places /\ Shift(i, j) # i /\ idle'[j] = idle[Shift(i, j)]
            /\ \A j, k \in Places' : Shift(i, j) = Shift(i, k) => j = k
            /\ \A k \in Places : k # i => \E j \in Places' : idle'[j] = idle[k]
        BY <3>1, <3>2, LeftThePool
      <3>4. \A n : (\E k \in Places : idle[k][2] = n) => n = idle[i][2] \/ \E j \in Places' : idle'[j][2] = n
        BY <3>3
      <3>5. ctr'[idle[i][2]] = "none" \/ idle[i][2] \in stray'
        BY <3>1, <3>2 DEF Removed, DaemonTypes, Containers
      <3>6. /\ UNCHANGED <<hold, up, dropTasks>> /\ stray \subseteq stray'
            /\ \A n \in Containers : ctr'[n] # "none" => ctr[n] # "none"
        BY <1>12, <3>1, <3>2 DEF MakeRoom, Removed, DaemonTypes
      <3> QED
        BY <3>4, <3>5, <3>6 DEF Accounted, Places
    <2> QED
      BY <1>12, <2>1, <2>2 DEF MakeRoom
  <1>13. ASSUME NEW r \in Runs, WarmOne(r) PROVE Accounted'
    BY <1>13, NamesApart DEF WarmOne, Goto, Mishap, daemonVars, histVars, RunTypes, DaemonTypes,
       HoldInv, SpentInv, Accounted, Containers
  <1>14. ASSUME NEW r \in Runs, Push(r) PROVE Accounted'
    <2> DEFINE e == <<KeyOf[r], hold[r]>>
    <2>1. e \in Keys \X Names
      BY <1>14, NodeRunsAssumption DEF Push, HoldInv
    <2>2. idle' = Append(idle, e)
      BY <1>14 DEF Push
    <2>3. e[1] = KeyOf[r] /\ e[2] = hold[r]
      OBVIOUS
    <2> HIDE DEF e
    <2>4. /\ Places \subseteq Places' /\ Len(idle) + 1 \in Places' /\ Len(idle) + 1 \notin Places
          /\ \A j \in Places' : j \in Places \/ j = Len(idle) + 1
          /\ \A j \in Places : idle'[j] = idle[j]
          /\ idle'[Len(idle) + 1] = e
      BY <2>1, <2>2, JoinedThePool
    <2>5. \A n : (\E k \in Places : idle[k][2] = n) \/ n = hold[r] => \E j \in Places' : idle'[j][2] = n
      BY <2>3, <2>4
    <2>6. hold'[r] = Nobody /\ \A s \in Runs : s # r => hold'[s] = hold[s]
      BY <1>14 DEF Push, RunTypes
    <2>7. UNCHANGED <<ctr, up, stray, dropTasks>>
      BY <1>14 DEF Push, daemonVars
    <2> QED
      BY <2>5, <2>6, <2>7 DEF Accounted, Places
  <1>15. ASSUME NEW r \in Runs, End(r) PROVE Accounted'
    BY <1>15, NamesApart DEF End, Goto, daemonVars, histVars, RunTypes, DaemonTypes, HoldInv,
       SpentInv, Accounted, Containers
  <1>16. ASSUME NEW r \in Runs, Cancel(r) PROVE Accounted'
    BY <1>16, NamesApart DEF Cancel, Goto, Mishap, daemonVars, histVars, RunTypes, DaemonTypes,
       HoldInv, SpentInv, Accounted, Containers
  <1>17. ASSUME NEW n \in Containers, DropTask(n) PROVE Accounted'
    BY <1>17, NamesApart DEF DropTask, Removed, Mishap, daemonVars, histVars, RunTypes,
       DaemonTypes, HoldInv, SpentInv, Accounted, Containers
  <1>18. ASSUME NEW n \in Containers, IdleDies(n) PROVE Accounted'
    BY <1>18, NamesApart DEF IdleDies, Mishap, daemonVars, histVars, RunTypes, DaemonTypes,
       HoldInv, SpentInv, Accounted, Containers
  <1>19. CASE Crash
    BY <1>19, NamesApart DEF Crash, Mishap, daemonVars, histVars, RunTypes, DaemonTypes, HoldInv,
       SpentInv, Accounted, Containers
  <1>20. CASE Restart
    BY <1>20, NamesApart DEF Restart, Mishap, Reap, daemonVars, histVars, RunTypes, DaemonTypes,
       HoldInv, SpentInv, Accounted, Containers
  <1>21. CASE UNCHANGED vars
    BY <1>21 DEF vars, RunTypes, DaemonTypes, HoldInv, SpentInv, Accounted, Containers
  <1> QED
    BY <1>1, <1>2, <1>3, <1>4, <1>5, <1>6, <1>7, <1>8, <1>22, <1>9, <1>10, <1>11, <1>12, <1>13,
       <1>14,
       <1>15, <1>16, <1>17, <1>18, <1>19, <1>20, <1>21 DEF Next

LEMMA UnreportedStep ==
  ASSUME RunTypes, UnreportedInv, [Next]_vars
  PROVE  UnreportedInv'
PROOF
  <1>1. ASSUME NEW r \in Runs, Begin(r) PROVE UnreportedInv'
    BY <1>1 DEF Begin, Goto, Mishap, daemonVars, histVars, RunTypes, UnreportedInv
  <1>2. ASSUME NEW r \in Runs, TakeMatching(r) PROVE UnreportedInv'
    BY <1>2 DEF TakeMatching, Goto, IdleOf, Oldest, daemonVars, histVars, RunTypes, UnreportedInv
  <1>3. ASSUME NEW r \in Runs, DiscardDead(r) PROVE UnreportedInv'
    BY <1>3 DEF DiscardDead, Goto, Removed, RemovedOrLeft, Mishap, daemonVars, histVars, RunTypes,
       UnreportedInv
  <1>4. ASSUME NEW r \in Runs, Adopt(r) PROVE UnreportedInv'
    BY <1>4 DEF Adopt, Goto, daemonVars, histVars, RunTypes, UnreportedInv
  <1>5. ASSUME NEW r \in Runs, AdoptFails(r) PROVE UnreportedInv'
    BY <1>5 DEF AdoptFails, Goto, RemovedOrLeft, Mishap, daemonVars, histVars, RunTypes,
       UnreportedInv
  <1>6. ASSUME NEW r \in Runs, Create(r) PROVE UnreportedInv'
    BY <1>6 DEF Create, Goto, Mishap, daemonVars, histVars, RunTypes, UnreportedInv
  <1>7. ASSUME NEW r \in Runs, Launch(r) PROVE UnreportedInv'
    BY <1>7 DEF Launch, Goto, Mishap, Warm, daemonVars, histVars, RunTypes, UnreportedInv
  <1>8. ASSUME NEW r \in Runs, Exit(r) PROVE UnreportedInv'
    BY <1>8 DEF Exit, Goto, Mishap, Warm, daemonVars, histVars, RunTypes, UnreportedInv
  <1>22. ASSUME NEW r \in Runs, Unattached(r) PROVE UnreportedInv'
    BY <1>22 DEF Unattached, Goto, Mishap, Warm, daemonVars, histVars, RunTypes, UnreportedInv
  <1>9. ASSUME NEW r \in Runs, NeverStarted(r) PROVE UnreportedInv'
    BY <1>9 DEF NeverStarted, Goto, Mishap, Warm, daemonVars, histVars, RunTypes, UnreportedInv
  <1>10. ASSUME NEW r \in Runs, Destroy(r) PROVE UnreportedInv'
    BY <1>10 DEF Destroy, Goto, Removed, Mishap, Warm, daemonVars, histVars, RunTypes, UnreportedInv
  <1>11. ASSUME NEW r \in Runs, RefillNot(r) PROVE UnreportedInv'
    BY <1>11 DEF RefillNot, Goto, daemonVars, histVars, RunTypes, UnreportedInv
  <1>12. ASSUME NEW r \in Runs, MakeRoom(r) PROVE UnreportedInv'
    BY <1>12 DEF MakeRoom, Goto, Removed, Mishap, IdleNotOf, Oldest, daemonVars, histVars,
       RunTypes, UnreportedInv
  <1>13. ASSUME NEW r \in Runs, WarmOne(r) PROVE UnreportedInv'
    BY <1>13 DEF WarmOne, Goto, Mishap, daemonVars, histVars, RunTypes, UnreportedInv
  <1>14. ASSUME NEW r \in Runs, Push(r) PROVE UnreportedInv'
    BY <1>14 DEF Push, Goto, daemonVars, histVars, RunTypes, UnreportedInv
  <1>15. ASSUME NEW r \in Runs, End(r) PROVE UnreportedInv'
    BY <1>15 DEF End, Goto, daemonVars, histVars, RunTypes, UnreportedInv
  <1>16. ASSUME NEW r \in Runs, Cancel(r) PROVE UnreportedInv'
    BY <1>16 DEF Cancel, Goto, Mishap, daemonVars, histVars, RunTypes, UnreportedInv
  <1>17. ASSUME NEW n \in Containers, DropTask(n) PROVE UnreportedInv'
    BY <1>17 DEF DropTask, Removed, Mishap, daemonVars, histVars, RunTypes, UnreportedInv
  <1>18. ASSUME NEW n \in Containers, IdleDies(n) PROVE UnreportedInv'
    BY <1>18 DEF IdleDies, Mishap, daemonVars, histVars, RunTypes, UnreportedInv
  <1>19. CASE Crash
    BY <1>19 DEF Crash, Mishap, daemonVars, histVars, RunTypes, UnreportedInv
  <1>20. CASE Restart
    BY <1>20 DEF Restart, Mishap, Reap, daemonVars, histVars, RunTypes, UnreportedInv
  <1>21. CASE UNCHANGED vars
    BY <1>21 DEF vars, RunTypes, UnreportedInv
  <1> QED
    BY <1>1, <1>2, <1>3, <1>4, <1>5, <1>6, <1>7, <1>8, <1>22, <1>9, <1>10, <1>11, <1>12, <1>13,
       <1>14,
       <1>15, <1>16, <1>17, <1>18, <1>19, <1>20, <1>21 DEF Next

LEMMA ReportStep ==
  ASSUME RunTypes, UnreportedInv, ReportIsEarned, [Next]_vars
  PROVE  ReportIsEarned'
PROOF
  <1>1. ASSUME NEW r \in Runs, Begin(r) PROVE ReportIsEarned'
    BY <1>1 DEF Begin, Goto, Mishap, daemonVars, histVars, RunTypes, UnreportedInv, ReportIsEarned
  <1>2. ASSUME NEW r \in Runs, TakeMatching(r) PROVE ReportIsEarned'
    BY <1>2 DEF TakeMatching, Goto, IdleOf, Oldest, daemonVars, histVars, RunTypes, UnreportedInv,
       ReportIsEarned
  <1>3. ASSUME NEW r \in Runs, DiscardDead(r) PROVE ReportIsEarned'
    BY <1>3 DEF DiscardDead, Goto, Removed, RemovedOrLeft, Mishap, daemonVars, histVars, RunTypes,
       UnreportedInv, ReportIsEarned
  <1>4. ASSUME NEW r \in Runs, Adopt(r) PROVE ReportIsEarned'
    BY <1>4 DEF Adopt, Goto, daemonVars, histVars, RunTypes, UnreportedInv, ReportIsEarned
  <1>5. ASSUME NEW r \in Runs, AdoptFails(r) PROVE ReportIsEarned'
    BY <1>5 DEF AdoptFails, Goto, RemovedOrLeft, Mishap, daemonVars, histVars, RunTypes,
       UnreportedInv,
       ReportIsEarned
  <1>6. ASSUME NEW r \in Runs, Create(r) PROVE ReportIsEarned'
    BY <1>6 DEF Create, Goto, Mishap, daemonVars, histVars, RunTypes, UnreportedInv, ReportIsEarned
  <1>7. ASSUME NEW r \in Runs, Launch(r) PROVE ReportIsEarned'
    BY <1>7 DEF Launch, Goto, Mishap, Warm, daemonVars, histVars, RunTypes, UnreportedInv,
       ReportIsEarned
  <1>8. ASSUME NEW r \in Runs, Exit(r) PROVE ReportIsEarned'
    BY <1>8 DEF Exit, Goto, Mishap, Warm, daemonVars, histVars, RunTypes, UnreportedInv,
       ReportIsEarned
  <1>22. ASSUME NEW r \in Runs, Unattached(r) PROVE ReportIsEarned'
    BY <1>22 DEF Unattached, Goto, Mishap, Warm, daemonVars, histVars, RunTypes, UnreportedInv,
       ReportIsEarned
  <1>9. ASSUME NEW r \in Runs, NeverStarted(r) PROVE ReportIsEarned'
    BY <1>9 DEF NeverStarted, Goto, Mishap, Warm, daemonVars, histVars, RunTypes, UnreportedInv,
       ReportIsEarned
  <1>10. ASSUME NEW r \in Runs, Destroy(r) PROVE ReportIsEarned'
    BY <1>10 DEF Destroy, Goto, Removed, Mishap, Warm, daemonVars, histVars, RunTypes,
       UnreportedInv, ReportIsEarned
  <1>11. ASSUME NEW r \in Runs, RefillNot(r) PROVE ReportIsEarned'
    BY <1>11 DEF RefillNot, Goto, daemonVars, histVars, RunTypes, UnreportedInv, ReportIsEarned
  <1>12. ASSUME NEW r \in Runs, MakeRoom(r) PROVE ReportIsEarned'
    BY <1>12 DEF MakeRoom, Goto, Removed, Mishap, IdleNotOf, Oldest, daemonVars, histVars,
       RunTypes, UnreportedInv, ReportIsEarned
  <1>13. ASSUME NEW r \in Runs, WarmOne(r) PROVE ReportIsEarned'
    BY <1>13 DEF WarmOne, Goto, Mishap, daemonVars, histVars, RunTypes, UnreportedInv,
       ReportIsEarned
  <1>14. ASSUME NEW r \in Runs, Push(r) PROVE ReportIsEarned'
    BY <1>14 DEF Push, Goto, daemonVars, histVars, RunTypes, UnreportedInv, ReportIsEarned
  <1>15. ASSUME NEW r \in Runs, End(r) PROVE ReportIsEarned'
    BY <1>15 DEF End, Goto, daemonVars, histVars, RunTypes, UnreportedInv, ReportIsEarned
  <1>16. ASSUME NEW r \in Runs, Cancel(r) PROVE ReportIsEarned'
    BY <1>16 DEF Cancel, Goto, Mishap, daemonVars, histVars, RunTypes, UnreportedInv, ReportIsEarned
  <1>17. ASSUME NEW n \in Containers, DropTask(n) PROVE ReportIsEarned'
    BY <1>17 DEF DropTask, Removed, Mishap, daemonVars, histVars, RunTypes, UnreportedInv,
       ReportIsEarned
  <1>18. ASSUME NEW n \in Containers, IdleDies(n) PROVE ReportIsEarned'
    BY <1>18 DEF IdleDies, Mishap, daemonVars, histVars, RunTypes, UnreportedInv, ReportIsEarned
  <1>19. CASE Crash
    BY <1>19 DEF Crash, Mishap, daemonVars, histVars, RunTypes, UnreportedInv, ReportIsEarned
  <1>20. CASE Restart
    BY <1>20 DEF Restart, Mishap, Reap, daemonVars, histVars, RunTypes, UnreportedInv,
       ReportIsEarned
  <1>21. CASE UNCHANGED vars
    BY <1>21 DEF vars, RunTypes, UnreportedInv, ReportIsEarned
  <1> QED
    BY <1>1, <1>2, <1>3, <1>4, <1>5, <1>6, <1>7, <1>8, <1>22, <1>9, <1>10, <1>11, <1>12, <1>13,
       <1>14,
       <1>15, <1>16, <1>17, <1>18, <1>19, <1>20, <1>21 DEF Next

LEMMA GrantStep ==
  ASSUME RunTypes, NodeTypes, GrantDiesWithJob, [Next]_vars
  PROVE  GrantDiesWithJob'
PROOF
  <1>1. ASSUME NEW r \in Runs, Begin(r) PROVE GrantDiesWithJob'
    BY <1>1 DEF Begin, Goto, Mishap, daemonVars, histVars, RunTypes, NodeTypes, GrantDiesWithJob,
       Released
  <1>2. ASSUME NEW r \in Runs, TakeMatching(r) PROVE GrantDiesWithJob'
    BY <1>2 DEF TakeMatching, Goto, IdleOf, Oldest, daemonVars, histVars, RunTypes, NodeTypes,
       GrantDiesWithJob, Released
  <1>3. ASSUME NEW r \in Runs, DiscardDead(r) PROVE GrantDiesWithJob'
    BY <1>3 DEF DiscardDead, Goto, Removed, RemovedOrLeft, Mishap, daemonVars, histVars, RunTypes,
       NodeTypes, GrantDiesWithJob,
       Released
  <1>4. ASSUME NEW r \in Runs, Adopt(r) PROVE GrantDiesWithJob'
    BY <1>4 DEF Adopt, Goto, daemonVars, histVars, RunTypes, NodeTypes, GrantDiesWithJob, Released
  <1>5. ASSUME NEW r \in Runs, AdoptFails(r) PROVE GrantDiesWithJob'
    BY <1>5 DEF AdoptFails, Goto, RemovedOrLeft, Mishap, daemonVars, histVars, RunTypes, NodeTypes,
       GrantDiesWithJob, Released
  <1>6. ASSUME NEW r \in Runs, Create(r) PROVE GrantDiesWithJob'
    BY <1>6 DEF Create, Goto, Mishap, daemonVars, histVars, RunTypes, NodeTypes, GrantDiesWithJob,
       Released
  <1>7. ASSUME NEW r \in Runs, Launch(r) PROVE GrantDiesWithJob'
    BY <1>7 DEF Launch, Goto, Mishap, Warm, daemonVars, histVars, RunTypes, NodeTypes,
       GrantDiesWithJob, Released
  <1>8. ASSUME NEW r \in Runs, Exit(r) PROVE GrantDiesWithJob'
    BY <1>8 DEF Exit, Goto, Mishap, Warm, daemonVars, histVars, RunTypes, NodeTypes,
       GrantDiesWithJob, Released
  <1>22. ASSUME NEW r \in Runs, Unattached(r) PROVE GrantDiesWithJob'
    BY <1>22 DEF Unattached, Goto, Mishap, Warm, daemonVars, histVars, RunTypes, NodeTypes,
       GrantDiesWithJob, Released
  <1>9. ASSUME NEW r \in Runs, NeverStarted(r) PROVE GrantDiesWithJob'
    BY <1>9 DEF NeverStarted, Goto, Mishap, Warm, daemonVars, histVars, RunTypes, NodeTypes,
       GrantDiesWithJob, Released
  <1>10. ASSUME NEW r \in Runs, Destroy(r) PROVE GrantDiesWithJob'
    BY <1>10 DEF Destroy, Goto, Removed, Mishap, Warm, daemonVars, histVars, RunTypes, NodeTypes,
       GrantDiesWithJob, Released
  <1>11. ASSUME NEW r \in Runs, RefillNot(r) PROVE GrantDiesWithJob'
    BY <1>11 DEF RefillNot, Goto, daemonVars, histVars, RunTypes, NodeTypes, GrantDiesWithJob,
       Released
  <1>12. ASSUME NEW r \in Runs, MakeRoom(r) PROVE GrantDiesWithJob'
    BY <1>12 DEF MakeRoom, Goto, Removed, Mishap, IdleNotOf, Oldest, daemonVars, histVars,
       RunTypes, NodeTypes, GrantDiesWithJob, Released
  <1>13. ASSUME NEW r \in Runs, WarmOne(r) PROVE GrantDiesWithJob'
    BY <1>13 DEF WarmOne, Goto, Mishap, daemonVars, histVars, RunTypes, NodeTypes,
       GrantDiesWithJob, Released
  <1>14. ASSUME NEW r \in Runs, Push(r) PROVE GrantDiesWithJob'
    BY <1>14 DEF Push, Goto, daemonVars, histVars, RunTypes, NodeTypes, GrantDiesWithJob, Released
  <1>15. ASSUME NEW r \in Runs, End(r) PROVE GrantDiesWithJob'
    BY <1>15 DEF End, Goto, daemonVars, histVars, RunTypes, NodeTypes, GrantDiesWithJob, Released
  <1>16. ASSUME NEW r \in Runs, Cancel(r) PROVE GrantDiesWithJob'
    BY <1>16 DEF Cancel, Goto, Mishap, daemonVars, histVars, RunTypes, NodeTypes,
       GrantDiesWithJob, Released
  <1>17. ASSUME NEW n \in Containers, DropTask(n) PROVE GrantDiesWithJob'
    BY <1>17 DEF DropTask, Removed, Mishap, daemonVars, histVars, RunTypes, NodeTypes,
       GrantDiesWithJob, Released
  <1>18. ASSUME NEW n \in Containers, IdleDies(n) PROVE GrantDiesWithJob'
    BY <1>18 DEF IdleDies, Mishap, daemonVars, histVars, RunTypes, NodeTypes, GrantDiesWithJob,
       Released
  <1>19. CASE Crash
    BY <1>19 DEF Crash, Mishap, daemonVars, histVars, RunTypes, NodeTypes, GrantDiesWithJob,
       Released
  <1>20. CASE Restart
    BY <1>20 DEF Restart, Mishap, Reap, daemonVars, histVars, RunTypes, NodeTypes,
       GrantDiesWithJob, Released
  <1>21. CASE UNCHANGED vars
    BY <1>21 DEF vars, RunTypes, NodeTypes, GrantDiesWithJob, Released
  <1> QED
    BY <1>1, <1>2, <1>3, <1>4, <1>5, <1>6, <1>7, <1>8, <1>22, <1>9, <1>10, <1>11, <1>12, <1>13,
       <1>14,
       <1>15, <1>16, <1>17, <1>18, <1>19, <1>20, <1>21 DEF Next

LEMMA UpStep ==
  ASSUME up \in BOOLEAN, [Next]_vars
  PROVE  up' \in BOOLEAN
PROOF
  <1>1. ASSUME NEW r \in Runs, Begin(r) PROVE up' \in BOOLEAN
    BY <1>1 DEF Begin, daemonVars, histVars
  <1>2. ASSUME NEW r \in Runs, TakeMatching(r) PROVE up' \in BOOLEAN
    BY <1>2 DEF TakeMatching, daemonVars, histVars
  <1>3. ASSUME NEW r \in Runs, DiscardDead(r) PROVE up' \in BOOLEAN
    BY <1>3 DEF DiscardDead, daemonVars, histVars
  <1>4. ASSUME NEW r \in Runs, Adopt(r) PROVE up' \in BOOLEAN
    BY <1>4 DEF Adopt, daemonVars, histVars
  <1>5. ASSUME NEW r \in Runs, AdoptFails(r) PROVE up' \in BOOLEAN
    BY <1>5 DEF AdoptFails, daemonVars, histVars
  <1>6. ASSUME NEW r \in Runs, Create(r) PROVE up' \in BOOLEAN
    BY <1>6 DEF Create, daemonVars, histVars
  <1>7. ASSUME NEW r \in Runs, Launch(r) PROVE up' \in BOOLEAN
    BY <1>7 DEF Launch, daemonVars, histVars
  <1>8. ASSUME NEW r \in Runs, Exit(r) PROVE up' \in BOOLEAN
    BY <1>8 DEF Exit, daemonVars, histVars
  <1>22. ASSUME NEW r \in Runs, Unattached(r) PROVE up' \in BOOLEAN
    BY <1>22 DEF Unattached, daemonVars, histVars
  <1>9. ASSUME NEW r \in Runs, NeverStarted(r) PROVE up' \in BOOLEAN
    BY <1>9 DEF NeverStarted, daemonVars, histVars
  <1>10. ASSUME NEW r \in Runs, Destroy(r) PROVE up' \in BOOLEAN
    BY <1>10 DEF Destroy, daemonVars, histVars
  <1>11. ASSUME NEW r \in Runs, RefillNot(r) PROVE up' \in BOOLEAN
    BY <1>11 DEF RefillNot, daemonVars, histVars
  <1>12. ASSUME NEW r \in Runs, MakeRoom(r) PROVE up' \in BOOLEAN
    BY <1>12 DEF MakeRoom, daemonVars, histVars
  <1>13. ASSUME NEW r \in Runs, WarmOne(r) PROVE up' \in BOOLEAN
    BY <1>13 DEF WarmOne, daemonVars, histVars
  <1>14. ASSUME NEW r \in Runs, Push(r) PROVE up' \in BOOLEAN
    BY <1>14 DEF Push, daemonVars, histVars
  <1>15. ASSUME NEW r \in Runs, End(r) PROVE up' \in BOOLEAN
    BY <1>15 DEF End, daemonVars, histVars
  <1>16. ASSUME NEW r \in Runs, Cancel(r) PROVE up' \in BOOLEAN
    BY <1>16 DEF Cancel, daemonVars, histVars
  <1>17. ASSUME NEW n \in Containers, DropTask(n) PROVE up' \in BOOLEAN
    BY <1>17 DEF DropTask, daemonVars, histVars
  <1>18. ASSUME NEW n \in Containers, IdleDies(n) PROVE up' \in BOOLEAN
    BY <1>18 DEF IdleDies, daemonVars, histVars
  <1>19. CASE Crash
    BY <1>19 DEF Crash, daemonVars, histVars
  <1>20. CASE Restart
    BY <1>20 DEF Restart, daemonVars, histVars
  <1>21. CASE UNCHANGED vars
    BY <1>21 DEF vars
  <1> QED
    BY <1>1, <1>2, <1>3, <1>4, <1>5, <1>6, <1>7, <1>8, <1>22, <1>9, <1>10, <1>11, <1>12, <1>13,
       <1>14,
       <1>15, <1>16, <1>17, <1>18, <1>19, <1>20, <1>21 DEF Next

-----------------------------------------------------------------------------
LEMMA InitIInv == Init => IInv
PROOF
  <1> SUFFICES ASSUME Init PROVE IInv
    OBVIOUS
  <1>1. RunTypes
    BY NodeRunsAssumption DEF Init, RunTypes, Stages
  <1>2. DaemonTypes
    BY DEF Init, DaemonTypes, Containers, Own
  <1>3. NodeTypes
    BY DEF Init, NodeTypes
  <1>4. up \in BOOLEAN
    BY DEF Init
  <1>5. Places = {}
    BY DEF Init, Places
  <1>6. HoldInv /\ ExclusiveInv /\ UsedInv
    BY <1>5, NamesApart DEF Init, HoldInv, ExclusiveInv, UsedInv, Containers
  <1>7. FreshInv /\ RanInv
    BY <1>5 DEF Init, FreshInv, FreshHeld, FreshPooled, FreshOwn, RanInv, Containers
  <1>8. FilesInv /\ OwnWorkspace
    BY DEF Init, FilesInv, OwnWorkspace, Started, Containers
  <1>9. SpentInv /\ Accounted
    BY DEF Init, SpentInv, Accounted
  <1>10. UnreportedInv /\ ReportIsEarned /\ GrantDiesWithJob
    BY DEF Init, UnreportedInv, ReportIsEarned, GrantDiesWithJob
  <1> QED
    BY <1>1, <1>2, <1>3, <1>4, <1>6, <1>7, <1>8, <1>9, <1>10 DEF IInv, OwnerInv, TypeOK

LEMMA StepIInv == IInv /\ [Next]_vars => IInv'
PROOF
  <1> SUFFICES ASSUME IInv, [Next]_vars PROVE IInv'
    OBVIOUS
  <1>1. /\ RunTypes /\ DaemonTypes /\ NodeTypes /\ up \in BOOLEAN /\ HoldInv /\ ExclusiveInv /\ UsedInv
        /\ FreshInv /\ RanInv /\ FilesInv /\ OwnWorkspace
        /\ SpentInv /\ Accounted /\ UnreportedInv /\ ReportIsEarned /\ GrantDiesWithJob
    BY DEF IInv, OwnerInv, TypeOK
  <1>2. TypeOK'
    BY <1>1, RunTypesStep, DaemonTypesStep, NodeTypesStep, UpStep DEF TypeOK
  <1>3. HoldInv' /\ ExclusiveInv' /\ UsedInv'
    BY <1>1, HoldStep, ExclusiveStep, UsedStep
  <1>4. FreshInv' /\ RanInv' /\ FilesInv' /\ OwnWorkspace'
    BY <1>1, FreshStep, RanStep, FilesStep, OwnStep
  <1>5. SpentInv' /\ Accounted'
    BY <1>1, SpentStep, AccountedStep
  <1>6. UnreportedInv' /\ ReportIsEarned' /\ GrantDiesWithJob'
    BY <1>1, UnreportedStep, ReportStep, GrantStep
  <1> QED
    BY <1>2, <1>3, <1>4, <1>5, <1>6 DEF IInv, OwnerInv

\* IInv holds of every behaviour of the node, whatever dies, is dropped or goes unheard.
THEOREM NodeInvariant == Spec => []IInv
BY InitIInv, StepIInv, PTL DEF Spec

\* What a run holds, what the daemon has and what the pool keeps is of its type.
THEOREM NodeTypeCorrect == Spec => []TypeOK
PROOF
  <1>1. IInv => TypeOK
    BY DEF IInv, OwnerInv
  <1> QED
    BY <1>1, NodeInvariant, PTL

\* A sandbox is never reused, runs only a step of the key it was made for, and the step finds
\* its own workspace in it unless a failing filesystem split that (SandboxPool::claim and
\* warm_one, adopt_workspace, ContainerInstance::exec).
THEOREM SandboxesAreOwn == Spec => []SandboxIsItsOwn
PROOF
  <1>1. IInv => SandboxIsItsOwn
    <2> SUFFICES ASSUME IInv PROVE SandboxIsItsOwn
      OBVIOUS
    <2>1. OwnWorkspace /\ RanInv
      BY DEF IInv
    <2>2. ASSUME NEW n \in Containers PROVE Cardinality(ranIn[n]) <= 1
      <3>1. CASE ranIn[n] = {}
        BY <3>1, FS_EmptySet
      <3>2. CASE ranIn[n] # {}
        <4>1. PICK r \in ranIn[n] : TRUE
          BY <3>2
        <4>2. ranIn[n] = {r}
          BY <4>1, <2>1 DEF RanInv
        <4>3. Cardinality({r}) = 1
          BY FS_Singleton
        <4> QED
          BY <4>2, <4>3
      <3> QED
        BY <3>1, <3>2
    <2>3. NeverReused
      BY <2>1, <2>2 DEF NeverReused, RanInv
    <2> QED
      BY <2>1, <2>3 DEF SandboxIsItsOwn
  <1> QED
    BY <1>1, NodeInvariant, PTL

\* No container is forgotten: whatever the daemon has is in the pool, a run's, a destructor's
\* task's or left to the reaper of the next start (destroy, drop, warm_one, reap_orphans).
THEOREM ContainersAreAccounted == Spec => []Accounted
PROOF
  <1>1. IInv => Accounted
    BY DEF IInv
  <1> QED
    BY <1>1, NodeInvariant, PTL

\* Passed and failed are only reported for a command that ended so, or that the daemon refused
\* with the same exit (run_inner, exec_never_started).
THEOREM ReportsAreEarned == Spec => []ReportIsEarned
PROOF
  <1>1. IInv => ReportIsEarned
    BY DEF IInv
  <1> QED
    BY <1>1, NodeInvariant, PTL

\* No package grant outlives the steps of its job on this node (GrantGuard, release).
THEOREM GrantsDieWithJobs == Spec => []GrantDiesWithJob
PROOF
  <1>1. IInv => GrantDiesWithJob
    BY DEF IInv
  <1> QED
    BY <1>1, NodeInvariant, PTL

=============================================================================
