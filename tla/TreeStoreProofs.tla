-------------------------- MODULE TreeStoreProofs --------------------------
(***************************************************************************)
(* Proofs about TreeStore, for any number of trees, files, fetches, sweeps *)
(* and crashes, with or without a filesystem that refuses things.          *)
(*                                                                         *)
(* HeldIsPresent rests on PinInv: a fetch that has seen its tree, or is    *)
(* about to look for it, is in the pin table, which Condemn reads in the   *)
(* same step as it renames.  TreeIsWhole rests on ShareInv: every name on  *)
(* the way into a tree (staging, scratch link, blob, a blob that a sweep   *)
(* has in hand) is of an inode with the bytes and the mode its key says.   *)
(*                                                                         *)
(* SweepIsThorough is about a sweep during which nobody else moves (Tidy): *)
(* by phases, what it has seen of its listing is dealt with, and what it   *)
(* has not seen is on the listing still.  That a blob with one link has    *)
(* no user is arithmetic about the inode's names (LinkedElsewhere).        *)
(***************************************************************************)
EXTENDS TreeStore, FiniteSetTheorems, TLAPS

\* Where a fetch holds a PinGuard.
Pinning == {"opening", "found", "held", "committing", "sharing", "reusing", "swapping",
            "retrying", "published", "lost", "grown"}

\* Where a fetch has a staged tree, and where it works on one file of it.
Staging == {"staged", "committing", "sharing", "reusing", "swapping", "retrying"}
OnFile == {"reusing", "swapping", "retrying"}

\* What a sweep has in hand is a tree or a key, according to its phase.
CandInv ==
  /\ \A s \in Sweepers : swp[s] \in {"condemning", "unstamping"} => cand[s] \in Trees
  /\ \A s \in Sweepers :
       swp[s] \in {"retiring", "restating", "restoring", "unlinking"} => cand[s] \in Keys
  /\ \A r \in Requests : call[r] \in OnFile => file[r] \in Files

PinInv == \A r \in Requests : call[r] \in Pinning => r \in pins[TreeOf[r]]

\* The parts of ShareInv.
StagedInv ==
  /\ \A r \in Requests, f \in Files : staged[r][f] # Nil => Is(staged[r][f], f)
  /\ \A r \in Requests, f \in Files :
       call[r] \in Staging /\ Home[f] = TreeOf[r] => staged[r][f] # Nil

FileInv ==
  /\ \A r \in Requests : \A f \in todo[r] : Home[f] = TreeOf[r]
  /\ \A r \in Requests : call[r] \in OnFile => Home[file[r]] = TreeOf[r]
  /\ \A r \in Requests : call[r] = "swapping" => Is(link[r], file[r])

BlobInv == \A f \in Files : blob[BlobKey(f)] # Nil => Is(blob[BlobKey(f)], f)

TombInv ==
  \A s \in Sweepers : swp[s] \in {"restating", "restoring", "unlinking"} =>
    \A f \in Files : BlobKey(f) = cand[s] => Is(tomb[s], f)

ShareInv == StagedInv /\ FileInv /\ BlobInv /\ TombInv

TypeInv == TypeOK /\ CandInv

\* What is in the pin table is the pin of a fetch that needs it.
ReleaseInv == \A t \in Trees : \A r \in pins[t] : t = TreeOf[r] /\ call[r] \in Pinning

\* The phases of a sweep; where it has a blob in its scratch directory.
TreePhase == {"trees", "condemning"}
StampPhase == {"stamps", "unstamping"}
BlobPhase == {"blobs", "retiring", "restating", "restoring", "unlinking"}
HasTomb == {"restating", "restoring", "unlinking", "dead"}

ScratchInv == \A s \in Sweepers : at[s] <= clock /\ (swp[s] \notin HasTomb => tomb[s] = Nil)

\* A tree a sweep may leave behind, and what a sweep that nobody disturbs has done of
\* its trees, its stamps and its blobs when it is in a phase of its walk or past it.
Kept(s, t) == pins[t] # {} \/ at[s] < stamp[t] + Retention
TreesDone(s) ==
  swp[s] \in TreePhase => trees \subseteq listed[s] /\ \A t \in trees \cap seen[s] : Kept(s, t)
AllKept(s) == swp[s] \in StampPhase \cup BlobPhase \cup {"done"} => \A t \in trees : Kept(s, t)
GraveClosed(s) == swp[s] \in StampPhase \cup BlobPhase => grave[s] = Empty
StampsDone(s) ==
  swp[s] \in StampPhase => \A t \in Trees \ trees : stamp[t] # NoStamp => t \in listed[s] \ seen[s]
NoneStamped(s) == swp[s] \in BlobPhase \cup {"done"} => \A t \in Trees \ trees : stamp[t] = NoStamp
BlobsDone(s) ==
  swp[s] \in BlobPhase => \A k \in Keys : blob[k] # Nil =>
    k \in listed[s] \ seen[s] \/ NamedBeside(s, blob[k])
TombDone(s) ==
  /\ swp[s] = "restating" => blob[cand[s]] = Nil
  /\ swp[s] = "restoring" => blob[cand[s]] = Nil /\ NamedBeside(s, tomb[s])
  /\ swp[s] = "unlinking" => blob[cand[s]] = Nil \/ NamedBeside(s, blob[cand[s]])
AllNamed(s) == swp[s] = "done" => \A k \in Keys : blob[k] # Nil => NamedBeside(s, blob[k])
Tidy(s) ==
  /\ TreesDone(s) /\ AllKept(s) /\ GraveClosed(s) /\ StampsDone(s) /\ NoneStamped(s)
  /\ BlobsDone(s) /\ TombDone(s) /\ AllNamed(s)
ThoroughInv == ~IoFails /\ Retention > 0 => \A s \in Sweepers : alone[s] => Tidy(s)


\* The key of a file is a key, and the clock is a stamp.
LEMMA KeyOf == ASSUME NEW f \in Files PROVE BlobKey(f) \in Keys
BY DEF Keys

LEMMA SameKey ==
  ASSUME NEW f \in Files, NEW g \in Files, BlobKey(f) = BlobKey(g), NEW i, Is(i, f)
  PROVE  Is(i, g)
BY DEF BlobKey, Is

LEMMA ClockIsAStamp == ASSUME clock \in 0..MaxTime PROVE clock \in 0..NoStamp
BY StoreAssumption DEF NoStamp

LEMMA NoStampIsAStamp == NoStamp \in 0..NoStamp
BY StoreAssumption DEF NoStamp

LEMMA RecordUseType ==
  ASSUME stamp \in [Trees -> 0..NoStamp], clock \in 0..MaxTime, NEW t \in Trees, RecordUse(t)
  PROVE  stamp' \in [Trees -> 0..NoStamp]
PROOF
  <1>1. CASE stamp' = [stamp EXCEPT ![t] = clock]
    BY <1>1, ClockIsAStamp
  <1>2. CASE UNCHANGED stamp
    BY <1>2
  <1>3. CASE stamp' = [stamp EXCEPT ![t] = NoStamp]
    BY <1>3, NoStampIsAStamp
  <1> QED
    BY <1>1, <1>2, <1>3 DEF RecordUse

\* Every action keeps the types.
LEMMA TypeStep ==
  ASSUME TypeInv, [Next]_vars
  PROVE  (FsTypeOK /\ CallTypeOK /\ SweepTypeOK /\ CandInv)'
PROOF
  <1> USE StoreAssumption
  <1>1. ASSUME NEW r \in Requests, Open(r)
        PROVE (FsTypeOK /\ CallTypeOK /\ SweepTypeOK /\ CandInv)'
    BY <1>1 DEF Open, Goto, Pin, fsVars, swpVars, TypeInv, TypeOK, FsTypeOK, CallTypeOK,
       SweepTypeOK, CandInv, OnFile, CallStates, SweepStates, Names
  <1>2. ASSUME NEW r \in Requests, OpenHit(r)
        PROVE (FsTypeOK /\ CallTypeOK /\ SweepTypeOK /\ CandInv)'
    BY <1>2 DEF OpenHit, Goto, fsVars, swpVars, TypeInv, TypeOK, FsTypeOK, CallTypeOK,
       SweepTypeOK, CandInv, OnFile, CallStates, SweepStates, Names
  <1>3. ASSUME NEW r \in Requests, OpenMiss(r)
        PROVE (FsTypeOK /\ CallTypeOK /\ SweepTypeOK /\ CandInv)'
    BY <1>3 DEF OpenMiss, Goto, Unpin, fsVars, swpVars, TypeInv, TypeOK, FsTypeOK,
       CallTypeOK, SweepTypeOK, CandInv, OnFile, CallStates, SweepStates, Names
  <1>4. ASSUME NEW r \in Requests, StampHit(r)
        PROVE (FsTypeOK /\ CallTypeOK /\ SweepTypeOK /\ CandInv)'
    <2>1. stamp' \in [Trees -> 0..NoStamp]
      BY <1>4, RecordUseType DEF StampHit, TypeInv, TypeOK, FsTypeOK, SweepTypeOK
    <2>2. FsTypeOK'
      BY <1>4, <2>1 DEF StampHit, TypeInv, TypeOK, FsTypeOK
    <2>3. CallTypeOK'
      BY <1>4 DEF StampHit, Goto, TypeInv, TypeOK, CallTypeOK, CallStates
    <2>4. SweepTypeOK' /\ CandInv'
      BY <1>4 DEF StampHit, Goto, swpVars, TypeInv, TypeOK, CallTypeOK, SweepTypeOK,
         CandInv, OnFile
    <2> QED
      BY <2>2, <2>3, <2>4
  <1>5. ASSUME NEW r \in Requests, Drop(r)
        PROVE (FsTypeOK /\ CallTypeOK /\ SweepTypeOK /\ CandInv)'
    BY <1>5 DEF Drop, Goto, Unpin, fsVars, swpVars, TypeInv, TypeOK, FsTypeOK, CallTypeOK,
       SweepTypeOK, CandInv, OnFile, CallStates, SweepStates, Names
  <1>6. ASSUME NEW r \in Requests, FetchFails(r)
        PROVE (FsTypeOK /\ CallTypeOK /\ SweepTypeOK /\ CandInv)'
    BY <1>6 DEF FetchFails, Goto, fsVars, swpVars, TypeInv, TypeOK, FsTypeOK, CallTypeOK,
       SweepTypeOK, CandInv, OnFile, CallStates, SweepStates, Names
  <1>7. ASSUME NEW r \in Requests, Ingest(r)
        PROVE (FsTypeOK /\ CallTypeOK /\ SweepTypeOK /\ CandInv)'
    <2>1. FsTypeOK'
      BY <1>7, KeyOf, ClockIsAStamp, NoStampIsAStamp DEF Ingest, Goto, swpVars, TypeInv,
         TypeOK, FsTypeOK, SweepTypeOK, CandInv, OnFile, Names, Inodes
    <2>2. CallTypeOK'
      BY <1>7, KeyOf, ClockIsAStamp, NoStampIsAStamp DEF Ingest, Goto, swpVars, TypeInv,
         TypeOK, CallTypeOK, CallStates
    <2>3. SweepTypeOK'
      BY <1>7, KeyOf, ClockIsAStamp, NoStampIsAStamp DEF Ingest, Goto, swpVars, TypeInv,
         TypeOK, SweepTypeOK, SweepStates, FsTypeOK, CandInv
    <2>4. CandInv'
      BY <1>7, KeyOf, ClockIsAStamp, NoStampIsAStamp DEF Ingest, Goto, swpVars, TypeInv,
         TypeOK, CallTypeOK, SweepTypeOK, CandInv, OnFile
    <2> QED
      BY <2>1, <2>2, <2>3, <2>4
  <1>8. ASSUME NEW r \in Requests, Commit(r)
        PROVE (FsTypeOK /\ CallTypeOK /\ SweepTypeOK /\ CandInv)'
    BY <1>8 DEF Commit, Goto, Pin, fsVars, swpVars, TypeInv, TypeOK, FsTypeOK, CallTypeOK,
       SweepTypeOK, CandInv, OnFile, CallStates, SweepStates, Names
  <1>9. ASSUME NEW r \in Requests, CommitFound(r)
        PROVE (FsTypeOK /\ CallTypeOK /\ SweepTypeOK /\ CandInv)'
    BY <1>9 DEF CommitFound, Goto, Empty, swpVars, TypeInv, TypeOK, FsTypeOK, CallTypeOK,
       SweepTypeOK, CandInv, OnFile, CallStates, SweepStates, Names
  <1>10. ASSUME NEW r \in Requests, CommitShares(r)
         PROVE (FsTypeOK /\ CallTypeOK /\ SweepTypeOK /\ CandInv)'
    BY <1>10 DEF CommitShares, Goto, FilesOf, fsVars, swpVars, TypeInv, TypeOK, FsTypeOK,
       CallTypeOK, SweepTypeOK, CandInv, OnFile, CallStates, SweepStates, Names
  <1>11. ASSUME NEW r \in Requests, CommitFails(r)
         PROVE (FsTypeOK /\ CallTypeOK /\ SweepTypeOK /\ CandInv)'
    BY <1>11 DEF CommitFails, Goto, Unpin, Empty, swpVars, TypeInv, TypeOK, FsTypeOK,
       CallTypeOK, SweepTypeOK, CandInv, OnFile, CallStates, SweepStates, Names
  <1>12. ASSUME NEW r \in Requests, LinkBlob(r)
         PROVE (FsTypeOK /\ CallTypeOK /\ SweepTypeOK /\ CandInv)'
    <2>1. FsTypeOK'
      BY <1>12, KeyOf, ClockIsAStamp, NoStampIsAStamp DEF LinkBlob, Goto, swpVars, BlobKey,
         TypeInv, TypeOK, FsTypeOK, SweepTypeOK, CandInv, OnFile, Names, Inodes
    <2>2. CallTypeOK'
      BY <1>12, KeyOf, ClockIsAStamp, NoStampIsAStamp DEF LinkBlob, Goto, swpVars, BlobKey,
         TypeInv, TypeOK, CallTypeOK, CallStates
    <2>3. SweepTypeOK'
      BY <1>12, KeyOf, ClockIsAStamp, NoStampIsAStamp DEF LinkBlob, Goto, swpVars, BlobKey,
         TypeInv, TypeOK, SweepTypeOK, SweepStates, FsTypeOK, CandInv
    <2>4. CandInv'
      BY <1>12, KeyOf, ClockIsAStamp, NoStampIsAStamp DEF LinkBlob, Goto, swpVars, BlobKey,
         TypeInv, TypeOK, CallTypeOK, SweepTypeOK, CandInv, OnFile
    <2> QED
      BY <2>1, <2>2, <2>3, <2>4
  <1>13. ASSUME NEW r \in Requests, LinkRefused(r)
         PROVE (FsTypeOK /\ CallTypeOK /\ SweepTypeOK /\ CandInv)'
    BY <1>13 DEF LinkRefused, Goto, NextFile, fsVars, swpVars, TypeInv, TypeOK, FsTypeOK,
       CallTypeOK, SweepTypeOK, CandInv, OnFile, CallStates, SweepStates, Names
  <1>14. ASSUME NEW r \in Requests, Swap(r)
         PROVE (FsTypeOK /\ CallTypeOK /\ SweepTypeOK /\ CandInv)'
    BY <1>14 DEF Swap, Goto, NextFile, swpVars, TypeInv, TypeOK, FsTypeOK, CallTypeOK,
       SweepTypeOK, CandInv, OnFile, CallStates, SweepStates, Names
  <1>15. ASSUME NEW r \in Requests, SwapRefused(r)
         PROVE (FsTypeOK /\ CallTypeOK /\ SweepTypeOK /\ CandInv)'
    BY <1>15 DEF SwapRefused, Goto, NextFile, swpVars, TypeInv, TypeOK, FsTypeOK,
       CallTypeOK, SweepTypeOK, CandInv, OnFile, CallStates, SweepStates, Names
  <1>16. ASSUME NEW r \in Requests, LinkGone(r)
         PROVE (FsTypeOK /\ CallTypeOK /\ SweepTypeOK /\ CandInv)'
    BY <1>16 DEF LinkGone, Goto, fsVars, swpVars, TypeInv, TypeOK, FsTypeOK, CallTypeOK,
       SweepTypeOK, CandInv, OnFile, CallStates, SweepStates, Names
  <1>17. ASSUME NEW r \in Requests, Retry(r)
         PROVE (FsTypeOK /\ CallTypeOK /\ SweepTypeOK /\ CandInv)'
    <2>1. blob' \in [Keys -> Names]
      <3>1. BlobKey(file[r]) \in Keys /\ staged[r][file[r]] \in Names
        BY <1>17, KeyOf DEF Retry, TypeInv, TypeOK, FsTypeOK, CandInv, OnFile
      <3>2. CASE blob' = [blob EXCEPT ![BlobKey(file[r])] = staged[r][file[r]]]
        BY <3>1, <3>2 DEF TypeInv, TypeOK, FsTypeOK
      <3>3. CASE UNCHANGED blob
        BY <3>3 DEF TypeInv, TypeOK, FsTypeOK
      <3> QED
        BY <1>17, <3>2, <3>3 DEF Retry
    <2>2. FsTypeOK'
      BY <1>17, <2>1 DEF Retry, TypeInv, TypeOK, FsTypeOK
    <2>3. CallTypeOK'
      BY <1>17 DEF Retry, Goto, NextFile, TypeInv, TypeOK, CallTypeOK, CallStates
    <2>4. SweepTypeOK' /\ CandInv'
      BY <1>17 DEF Retry, Goto, NextFile, swpVars, TypeInv, TypeOK, CallTypeOK, SweepTypeOK,
         CandInv, OnFile
    <2> QED
      BY <2>2, <2>3, <2>4
  <1>18. ASSUME NEW r \in Requests, Publish(r)
         PROVE (FsTypeOK /\ CallTypeOK /\ SweepTypeOK /\ CandInv)'
    BY <1>18 DEF Publish, Goto, Empty, swpVars, TypeInv, TypeOK, FsTypeOK, CallTypeOK,
       SweepTypeOK, CandInv, OnFile, CallStates, SweepStates, Names
  <1>19. ASSUME NEW r \in Requests, PublishLoses(r)
         PROVE (FsTypeOK /\ CallTypeOK /\ SweepTypeOK /\ CandInv)'
    BY <1>19 DEF PublishLoses, Goto, Empty, swpVars, TypeInv, TypeOK, FsTypeOK, CallTypeOK,
       SweepTypeOK, CandInv, OnFile, CallStates, SweepStates, Names
  <1>20. ASSUME NEW r \in Requests, LostFound(r)
         PROVE (FsTypeOK /\ CallTypeOK /\ SweepTypeOK /\ CandInv)'
    BY <1>20 DEF LostFound, Goto, fsVars, swpVars, TypeInv, TypeOK, FsTypeOK, CallTypeOK,
       SweepTypeOK, CandInv, OnFile, CallStates, SweepStates, Names
  <1>21. ASSUME NEW r \in Requests, LostError(r)
         PROVE (FsTypeOK /\ CallTypeOK /\ SweepTypeOK /\ CandInv)'
    BY <1>21 DEF LostError, Goto, Unpin, fsVars, swpVars, TypeInv, TypeOK, FsTypeOK,
       CallTypeOK, SweepTypeOK, CandInv, OnFile, CallStates, SweepStates, Names
  <1>22. ASSUME NEW r \in Requests, StampPublished(r)
         PROVE (FsTypeOK /\ CallTypeOK /\ SweepTypeOK /\ CandInv)'
    <2>1. stamp' \in [Trees -> 0..NoStamp]
      BY <1>22, RecordUseType DEF StampPublished, TypeInv, TypeOK, FsTypeOK, SweepTypeOK
    <2>2. FsTypeOK'
      BY <1>22, <2>1 DEF StampPublished, TypeInv, TypeOK, FsTypeOK
    <2>3. CallTypeOK'
      BY <1>22 DEF StampPublished, Goto, TypeInv, TypeOK, CallTypeOK, CallStates
    <2>4. SweepTypeOK' /\ CandInv'
      BY <1>22 DEF StampPublished, Goto, swpVars, TypeInv, TypeOK, CallTypeOK, SweepTypeOK,
         CandInv, OnFile
    <2> QED
      BY <2>2, <2>3, <2>4
  <1>23. ASSUME NEW r \in Requests, Grown(r)
         PROVE (FsTypeOK /\ CallTypeOK /\ SweepTypeOK /\ CandInv)'
    <2>1. FsTypeOK'
      BY <1>23 DEF Grown, fsVars, TypeInv, TypeOK, FsTypeOK
    <2>2. swp' \in [Sweepers -> SweepStates] /\ cooling' \in BOOLEAN
      BY <1>23 DEF Grown, TypeInv, TypeOK, CallTypeOK, SweepTypeOK, SweepStates
    <2>3. CallTypeOK'
      BY <1>23, <2>2 DEF Grown, Goto, TypeInv, TypeOK, CallTypeOK, CallStates
    <2>4. SweepTypeOK'
      BY <1>23, <2>2 DEF Grown, TypeInv, TypeOK, SweepTypeOK
    <2>5. CandInv'
      BY <1>23 DEF Grown, Goto, TypeInv, TypeOK, CallTypeOK, SweepTypeOK, CandInv, OnFile
    <2> QED
      BY <2>1, <2>3, <2>4, <2>5
  <1>24. ASSUME NEW r \in Requests, NEW f \in Files, ShareCreates(r, f)
         PROVE (FsTypeOK /\ CallTypeOK /\ SweepTypeOK /\ CandInv)'
    <2>1. FsTypeOK'
      BY <1>24, KeyOf, ClockIsAStamp, NoStampIsAStamp DEF ShareCreates, swpVars, BlobKey,
         TypeInv, TypeOK, FsTypeOK, SweepTypeOK, CandInv, OnFile, Names, Inodes
    <2>2. CallTypeOK'
      BY <1>24, KeyOf, ClockIsAStamp, NoStampIsAStamp DEF ShareCreates, swpVars, BlobKey,
         TypeInv, TypeOK, CallTypeOK, CallStates
    <2>3. SweepTypeOK'
      BY <1>24, KeyOf, ClockIsAStamp, NoStampIsAStamp DEF ShareCreates, swpVars, BlobKey,
         TypeInv, TypeOK, SweepTypeOK, SweepStates, FsTypeOK, CandInv
    <2>4. CandInv'
      BY <1>24, KeyOf, ClockIsAStamp, NoStampIsAStamp DEF ShareCreates, swpVars, BlobKey,
         TypeInv, TypeOK, CallTypeOK, SweepTypeOK, CandInv, OnFile
    <2> QED
      BY <2>1, <2>2, <2>3, <2>4
  <1>25. ASSUME NEW r \in Requests, NEW f \in Files, ShareExists(r, f)
         PROVE (FsTypeOK /\ CallTypeOK /\ SweepTypeOK /\ CandInv)'
    BY <1>25 DEF ShareExists, Goto, fsVars, swpVars, TypeInv, TypeOK, FsTypeOK, CallTypeOK,
       SweepTypeOK, CandInv, OnFile, CallStates, SweepStates, Names
  <1>26. ASSUME NEW r \in Requests, NEW f \in Files, ShareRefused(r, f)
         PROVE (FsTypeOK /\ CallTypeOK /\ SweepTypeOK /\ CandInv)'
    BY <1>26 DEF ShareRefused, fsVars, swpVars, TypeInv, TypeOK, FsTypeOK, CallTypeOK,
       SweepTypeOK, CandInv, OnFile, CallStates, SweepStates, Names
  <1>27. ASSUME NEW s \in Sweepers, SweepBegins(s)
         PROVE (FsTypeOK /\ CallTypeOK /\ SweepTypeOK /\ CandInv)'
    BY <1>27 DEF SweepBegins, Phase, fsVars, callVars, TypeInv, TypeOK, FsTypeOK,
       CallTypeOK, SweepTypeOK, CandInv, OnFile, CallStates, SweepStates, Names
  <1>28. ASSUME NEW s \in Sweepers, Condemn(s)
         PROVE (FsTypeOK /\ CallTypeOK /\ SweepTypeOK /\ CandInv)'
    <2>1. FsTypeOK'
      <3>1. CASE Bury(s, cand[s])
        BY <1>28, <3>1 DEF Condemn, Bury, TypeInv, TypeOK, FsTypeOK, Names
      <3>2. CASE UNCHANGED <<trees, grave, entry>>
        BY <1>28, <3>2 DEF Condemn, TypeInv, TypeOK, FsTypeOK
      <3> QED
        BY <1>28, <3>1, <3>2 DEF Condemn
    <2>2. CallTypeOK'
      BY <1>28 DEF Condemn, callVars, TypeInv, TypeOK, CallTypeOK
    <2>3. SweepTypeOK' /\ CandInv'
      BY <1>28 DEF Condemn, Done, callVars, TypeInv, TypeOK, SweepTypeOK, SweepStates,
         CandInv
    <2> QED
      BY <2>1, <2>2, <2>3
  <1>29. ASSUME NEW s \in Sweepers, CloseGrave(s)
         PROVE (FsTypeOK /\ CallTypeOK /\ SweepTypeOK /\ CandInv)'
    <2>1. FsTypeOK'
      BY <1>29, KeyOf, ClockIsAStamp, NoStampIsAStamp DEF CloseGrave, Phase, Empty, NoStamp,
         callVars, TypeInv, TypeOK, FsTypeOK, SweepTypeOK, CandInv, OnFile, Names, Inodes
    <2>2. CallTypeOK'
      BY <1>29, KeyOf, ClockIsAStamp, NoStampIsAStamp DEF CloseGrave, Phase, Empty, NoStamp,
         callVars, TypeInv, TypeOK, CallTypeOK, CallStates
    <2>3. SweepTypeOK'
      BY <1>29, KeyOf, ClockIsAStamp, NoStampIsAStamp DEF CloseGrave, Phase, Empty, NoStamp,
         callVars, TypeInv, TypeOK, SweepTypeOK, SweepStates, FsTypeOK, CandInv
    <2>4. CandInv'
      BY <1>29, KeyOf, ClockIsAStamp, NoStampIsAStamp DEF CloseGrave, Phase, Empty, NoStamp,
         callVars, TypeInv, TypeOK, CallTypeOK, SweepTypeOK, CandInv, OnFile
    <2> QED
      BY <2>1, <2>2, <2>3, <2>4
  <1>30. ASSUME NEW s \in Sweepers, RemoveStamp(s)
         PROVE (FsTypeOK /\ CallTypeOK /\ SweepTypeOK /\ CandInv)'
    <2>1. FsTypeOK'
      BY <1>30, KeyOf, ClockIsAStamp, NoStampIsAStamp DEF RemoveStamp, Done, NoStamp,
         callVars, TypeInv, TypeOK, FsTypeOK, SweepTypeOK, CandInv, OnFile, Names, Inodes
    <2>2. CallTypeOK'
      BY <1>30, KeyOf, ClockIsAStamp, NoStampIsAStamp DEF RemoveStamp, Done, NoStamp,
         callVars, TypeInv, TypeOK, CallTypeOK, CallStates
    <2>3. SweepTypeOK'
      BY <1>30, KeyOf, ClockIsAStamp, NoStampIsAStamp DEF RemoveStamp, Done, NoStamp,
         callVars, TypeInv, TypeOK, SweepTypeOK, SweepStates, FsTypeOK, CandInv
    <2>4. CandInv'
      BY <1>30, KeyOf, ClockIsAStamp, NoStampIsAStamp DEF RemoveStamp, Done, NoStamp,
         callVars, TypeInv, TypeOK, CallTypeOK, SweepTypeOK, CandInv, OnFile
    <2> QED
      BY <2>1, <2>2, <2>3, <2>4
  <1>31. ASSUME NEW s \in Sweepers, ListBlobs(s)
         PROVE (FsTypeOK /\ CallTypeOK /\ SweepTypeOK /\ CandInv)'
    BY <1>31 DEF ListBlobs, Phase, fsVars, callVars, TypeInv, TypeOK, FsTypeOK, CallTypeOK,
       SweepTypeOK, CandInv, OnFile, CallStates, SweepStates, Names
  <1>32. ASSUME NEW s \in Sweepers, TakeBlob(s)
         PROVE (FsTypeOK /\ CallTypeOK /\ SweepTypeOK /\ CandInv)'
    <2>1. FsTypeOK'
      <3>1. CASE UNCHANGED <<blob, tomb>>
        BY <1>32, <3>1 DEF TakeBlob, TypeInv, TypeOK, FsTypeOK
      <3>2. CASE /\ tomb' = [tomb EXCEPT ![s] = blob[cand[s]]]
                 /\ blob' = [blob EXCEPT ![cand[s]] = Nil]
        <4>1. cand[s] \in Keys /\ blob[cand[s]] \in Names /\ Nil \in Names
          BY <1>32 DEF TakeBlob, TypeInv, TypeOK, FsTypeOK, CandInv, Names
        <4>2. tomb' \in [Sweepers -> Names]
          BY <3>2, <4>1 DEF TypeInv, TypeOK, FsTypeOK
        <4>3. blob' \in [Keys -> Names]
          BY <3>2, <4>1 DEF TypeInv, TypeOK, FsTypeOK
        <4> QED
          BY <1>32, <4>2, <4>3 DEF TakeBlob, TypeInv, TypeOK, FsTypeOK
      <3> QED
        BY <1>32, <3>1, <3>2 DEF TakeBlob
    <2>3. CallTypeOK'
      BY <1>32 DEF TakeBlob, callVars, TypeInv, TypeOK, CallTypeOK
    <2>2. SweepTypeOK' /\ CandInv'
      <3>1. CASE Done(s, "blobs")
        BY <1>32, <3>1 DEF TakeBlob, Done, callVars, TypeInv, TypeOK, SweepTypeOK,
           SweepStates, CandInv
      <3>2. CASE /\ swp' = [swp EXCEPT ![s] = "restating"]
                 /\ UNCHANGED <<cand, listed, seen, at>>
        BY <1>32, <3>2 DEF TakeBlob, callVars, TypeInv, TypeOK, SweepTypeOK, SweepStates,
           CandInv
      <3> QED
        BY <1>32, <3>1, <3>2 DEF TakeBlob
    <2> QED
      BY <2>1, <2>2, <2>3
  <1>33. ASSUME NEW s \in Sweepers, RestatBlob(s)
         PROVE (FsTypeOK /\ CallTypeOK /\ SweepTypeOK /\ CandInv)'
    BY <1>33 DEF RestatBlob, fsVars, callVars, TypeInv, TypeOK, FsTypeOK, CallTypeOK,
       SweepTypeOK, CandInv, OnFile, CallStates, SweepStates, Names
  <1>34. ASSUME NEW s \in Sweepers, RestoreBlob(s)
         PROVE (FsTypeOK /\ CallTypeOK /\ SweepTypeOK /\ CandInv)'
    BY <1>34 DEF RestoreBlob, callVars, TypeInv, TypeOK, FsTypeOK, CallTypeOK, SweepTypeOK,
       CandInv, OnFile, CallStates, SweepStates, Names
  <1>35. ASSUME NEW s \in Sweepers, UnlinkTomb(s)
         PROVE (FsTypeOK /\ CallTypeOK /\ SweepTypeOK /\ CandInv)'
    BY <1>35 DEF UnlinkTomb, Done, callVars, TypeInv, TypeOK, FsTypeOK, CallTypeOK,
       SweepTypeOK, CandInv, OnFile, CallStates, SweepStates, Names
  <1>36. ASSUME NEW s \in Sweepers, SweepEnds(s)
         PROVE (FsTypeOK /\ CallTypeOK /\ SweepTypeOK /\ CandInv)'
    BY <1>36 DEF SweepEnds, Phase, fsVars, callVars, TypeInv, TypeOK, FsTypeOK, CallTypeOK,
       SweepTypeOK, CandInv, OnFile, CallStates, SweepStates, Names
  <1>37. ASSUME NEW s \in Sweepers, NEW t \in Trees, ReadStamp(s, t)
         PROVE (FsTypeOK /\ CallTypeOK /\ SweepTypeOK /\ CandInv)'
    <2>1. FsTypeOK' /\ CallTypeOK'
      <3>1. stamp' \in [Trees -> 0..NoStamp]
        BY <1>37, RecordUseType DEF ReadStamp, TypeInv, TypeOK, FsTypeOK, SweepTypeOK
      <3> QED
        BY <1>37, <3>1 DEF ReadStamp, callVars, TypeInv, TypeOK, FsTypeOK, CallTypeOK
    <2>2. SweepTypeOK' /\ CandInv'
      <3>1. CASE Visited(s, t)
        BY <1>37, <3>1 DEF ReadStamp, Visited, callVars, TypeInv, TypeOK, SweepTypeOK,
           CandInv
      <3>2. CASE Takes(s, t, "condemning")
        BY <1>37, <3>2 DEF ReadStamp, Takes, callVars, TypeInv, TypeOK, SweepTypeOK,
           SweepStates, CandInv
      <3> QED
        BY <1>37, <3>1, <3>2 DEF ReadStamp
    <2> QED
      BY <2>1, <2>2
  <1>38. ASSUME NEW s \in Sweepers, NEW t \in Trees, CheckStamp(s, t)
         PROVE (FsTypeOK /\ CallTypeOK /\ SweepTypeOK /\ CandInv)'
    <2>1. FsTypeOK' /\ CallTypeOK'
      BY <1>38 DEF CheckStamp, fsVars, callVars, TypeInv, TypeOK, FsTypeOK, CallTypeOK
    <2>2. SweepTypeOK' /\ CandInv'
      <3>1. CASE Visited(s, t)
        BY <1>38, <3>1 DEF CheckStamp, Visited, callVars, TypeInv, TypeOK, SweepTypeOK,
           CandInv
      <3>2. CASE Takes(s, t, "unstamping")
        BY <1>38, <3>2 DEF CheckStamp, Takes, callVars, TypeInv, TypeOK, SweepTypeOK,
           SweepStates, CandInv
      <3> QED
        BY <1>38, <3>1, <3>2 DEF CheckStamp
    <2> QED
      BY <2>1, <2>2
  <1>39. ASSUME NEW s \in Sweepers, NEW k \in Keys, StatBlob(s, k)
         PROVE (FsTypeOK /\ CallTypeOK /\ SweepTypeOK /\ CandInv)'
    <2>1. FsTypeOK' /\ CallTypeOK'
      BY <1>39 DEF StatBlob, fsVars, callVars, TypeInv, TypeOK, FsTypeOK, CallTypeOK
    <2>2. SweepTypeOK' /\ CandInv'
      <3>1. CASE Visited(s, k)
        BY <1>39, <3>1 DEF StatBlob, Visited, callVars, TypeInv, TypeOK, SweepTypeOK,
           CandInv
      <3>2. CASE Takes(s, k, "retiring")
        BY <1>39, <3>2 DEF StatBlob, Takes, callVars, TypeInv, TypeOK, SweepTypeOK,
           SweepStates, CandInv
      <3> QED
        BY <1>39, <3>1, <3>2 DEF StatBlob
    <2> QED
      BY <2>1, <2>2
  <1>40. CASE Tick
    BY <1>40 DEF Tick, fsVars, callVars, swpVars, TypeInv, TypeOK, FsTypeOK, CallTypeOK,
       SweepTypeOK, CandInv, OnFile, CallStates, SweepStates, Names
  <1>41. CASE CooldownElapses
    BY <1>41 DEF CooldownElapses, fsVars, callVars, swpVars, TypeInv, TypeOK, FsTypeOK,
       CallTypeOK, SweepTypeOK, CandInv, OnFile, CallStates, SweepStates, Names
  <1>42. CASE Crash
    <2>1. FsTypeOK'
      BY <1>42, KeyOf, ClockIsAStamp, NoStampIsAStamp DEF Crash, fsVars, TypeInv, TypeOK,
         FsTypeOK, SweepTypeOK, CandInv, OnFile, Names, Inodes
    <2>2. CallTypeOK'
      BY <1>42, KeyOf, ClockIsAStamp, NoStampIsAStamp DEF Crash, fsVars, TypeInv, TypeOK,
         CallTypeOK, CallStates
    <2>3. SweepTypeOK'
      BY <1>42, KeyOf, ClockIsAStamp, NoStampIsAStamp DEF Crash, fsVars, TypeInv, TypeOK,
         SweepTypeOK, SweepStates, FsTypeOK, CandInv
    <2>4. CandInv'
      BY <1>42, KeyOf, ClockIsAStamp, NoStampIsAStamp DEF Crash, fsVars, TypeInv, TypeOK,
         CallTypeOK, SweepTypeOK, CandInv, OnFile
    <2> QED
      BY <2>1, <2>2, <2>3, <2>4
  <1>43. CASE UNCHANGED vars
    BY <1>43 DEF TypeInv, TypeOK, FsTypeOK, CallTypeOK, SweepTypeOK, CandInv, OnFile,
       CallStates, SweepStates, Names, vars, fsVars, callVars, swpVars
  <1>44. ASSUME NEW r \in Requests, Fetch(r)
         PROVE (FsTypeOK /\ CallTypeOK /\ SweepTypeOK /\ CandInv)'
    BY <1>44, <1>1, <1>2, <1>3, <1>4, <1>5, <1>6, <1>7, <1>8, <1>9, <1>10, <1>11, <1>12,
       <1>13, <1>14, <1>15, <1>16, <1>17, <1>18, <1>19, <1>20, <1>21, <1>22, <1>23, <1>24,
       <1>25, <1>26 DEF Fetch
  <1>45. ASSUME NEW s \in Sweepers, Sweep(s)
         PROVE (FsTypeOK /\ CallTypeOK /\ SweepTypeOK /\ CandInv)'
    BY <1>45, <1>27, <1>28, <1>29, <1>30, <1>31, <1>32, <1>33, <1>34, <1>35, <1>36, <1>37,
       <1>38, <1>39 DEF Sweep
  <1> QED
    BY <1>40, <1>41, <1>42, <1>43, <1>44, <1>45 DEF Next

\* Every action keeps its fetch in the pin table for as long as it needs to be.
LEMMA PinStep ==
  ASSUME TypeInv, PinInv, [Next]_vars
  PROVE  PinInv'
PROOF
  <1> USE StoreAssumption
  <1>1. ASSUME NEW r \in Requests, Open(r) PROVE PinInv'
    BY <1>1 DEF Open, Goto, Pin, fsVars, swpVars, TypeInv, TypeOK, CallTypeOK, PinInv,
       Pinning
  <1>2. ASSUME NEW r \in Requests, OpenHit(r) PROVE PinInv'
    BY <1>2 DEF OpenHit, Goto, fsVars, swpVars, TypeInv, TypeOK, CallTypeOK, PinInv, Pinning
  <1>3. ASSUME NEW r \in Requests, OpenMiss(r) PROVE PinInv'
    BY <1>3 DEF OpenMiss, Goto, Unpin, fsVars, swpVars, TypeInv, TypeOK, CallTypeOK, PinInv,
       Pinning
  <1>4. ASSUME NEW r \in Requests, StampHit(r) PROVE PinInv'
    BY <1>4 DEF StampHit, Goto, RecordUse, NoStamp, swpVars, TypeInv, TypeOK, CallTypeOK,
       PinInv, Pinning
  <1>5. ASSUME NEW r \in Requests, Drop(r) PROVE PinInv'
    BY <1>5 DEF Drop, Goto, Unpin, fsVars, swpVars, TypeInv, TypeOK, CallTypeOK, PinInv,
       Pinning
  <1>6. ASSUME NEW r \in Requests, FetchFails(r) PROVE PinInv'
    BY <1>6 DEF FetchFails, Goto, fsVars, swpVars, TypeInv, TypeOK, CallTypeOK, PinInv,
       Pinning
  <1>7. ASSUME NEW r \in Requests, Ingest(r) PROVE PinInv'
    BY <1>7 DEF Ingest, Goto, swpVars, TypeInv, TypeOK, CallTypeOK, PinInv, Pinning
  <1>8. ASSUME NEW r \in Requests, Commit(r) PROVE PinInv'
    BY <1>8 DEF Commit, Goto, Pin, fsVars, swpVars, TypeInv, TypeOK, CallTypeOK, PinInv,
       Pinning
  <1>9. ASSUME NEW r \in Requests, CommitFound(r) PROVE PinInv'
    BY <1>9 DEF CommitFound, Goto, Empty, swpVars, TypeInv, TypeOK, CallTypeOK, PinInv,
       Pinning
  <1>10. ASSUME NEW r \in Requests, CommitShares(r) PROVE PinInv'
    BY <1>10 DEF CommitShares, Goto, FilesOf, fsVars, swpVars, TypeInv, TypeOK, CallTypeOK,
       PinInv, Pinning
  <1>11. ASSUME NEW r \in Requests, CommitFails(r) PROVE PinInv'
    BY <1>11 DEF CommitFails, Goto, Unpin, Empty, swpVars, TypeInv, TypeOK, CallTypeOK,
       PinInv, Pinning
  <1>12. ASSUME NEW r \in Requests, LinkBlob(r) PROVE PinInv'
    BY <1>12 DEF LinkBlob, Goto, swpVars, TypeInv, TypeOK, CallTypeOK, PinInv, Pinning
  <1>13. ASSUME NEW r \in Requests, LinkRefused(r) PROVE PinInv'
    BY <1>13 DEF LinkRefused, Goto, NextFile, fsVars, swpVars, TypeInv, TypeOK, CallTypeOK,
       PinInv, Pinning
  <1>14. ASSUME NEW r \in Requests, Swap(r) PROVE PinInv'
    BY <1>14 DEF Swap, Goto, NextFile, swpVars, TypeInv, TypeOK, CallTypeOK, PinInv, Pinning
  <1>15. ASSUME NEW r \in Requests, SwapRefused(r) PROVE PinInv'
    BY <1>15 DEF SwapRefused, Goto, NextFile, swpVars, TypeInv, TypeOK, CallTypeOK, PinInv,
       Pinning
  <1>16. ASSUME NEW r \in Requests, LinkGone(r) PROVE PinInv'
    BY <1>16 DEF LinkGone, Goto, fsVars, swpVars, TypeInv, TypeOK, CallTypeOK, PinInv,
       Pinning
  <1>17. ASSUME NEW r \in Requests, Retry(r) PROVE PinInv'
    BY <1>17 DEF Retry, Goto, NextFile, swpVars, TypeInv, TypeOK, CallTypeOK, PinInv,
       Pinning
  <1>18. ASSUME NEW r \in Requests, Publish(r) PROVE PinInv'
    BY <1>18 DEF Publish, Goto, Empty, swpVars, TypeInv, TypeOK, CallTypeOK, PinInv, Pinning
  <1>19. ASSUME NEW r \in Requests, PublishLoses(r) PROVE PinInv'
    BY <1>19 DEF PublishLoses, Goto, Empty, swpVars, TypeInv, TypeOK, CallTypeOK, PinInv,
       Pinning
  <1>20. ASSUME NEW r \in Requests, LostFound(r) PROVE PinInv'
    BY <1>20 DEF LostFound, Goto, fsVars, swpVars, TypeInv, TypeOK, CallTypeOK, PinInv,
       Pinning
  <1>21. ASSUME NEW r \in Requests, LostError(r) PROVE PinInv'
    BY <1>21 DEF LostError, Goto, Unpin, fsVars, swpVars, TypeInv, TypeOK, CallTypeOK,
       PinInv, Pinning
  <1>22. ASSUME NEW r \in Requests, StampPublished(r) PROVE PinInv'
    BY <1>22 DEF StampPublished, Goto, RecordUse, NoStamp, swpVars, TypeInv, TypeOK,
       CallTypeOK, PinInv, Pinning
  <1>23. ASSUME NEW r \in Requests, Grown(r) PROVE PinInv'
    BY <1>23 DEF Grown, Goto, fsVars, TypeInv, TypeOK, CallTypeOK, PinInv, Pinning
  <1>24. ASSUME NEW r \in Requests, NEW f \in Files, ShareCreates(r, f) PROVE PinInv'
    BY <1>24 DEF ShareCreates, swpVars, TypeInv, TypeOK, CallTypeOK, PinInv, Pinning
  <1>25. ASSUME NEW r \in Requests, NEW f \in Files, ShareExists(r, f) PROVE PinInv'
    BY <1>25 DEF ShareExists, Goto, fsVars, swpVars, TypeInv, TypeOK, CallTypeOK, PinInv,
       Pinning
  <1>26. ASSUME NEW r \in Requests, NEW f \in Files, ShareRefused(r, f) PROVE PinInv'
    BY <1>26 DEF ShareRefused, fsVars, swpVars, TypeInv, TypeOK, CallTypeOK, PinInv, Pinning
  <1>27. ASSUME NEW s \in Sweepers, SweepBegins(s) PROVE PinInv'
    BY <1>27 DEF SweepBegins, Phase, fsVars, callVars, TypeInv, TypeOK, CallTypeOK, PinInv,
       Pinning
  <1>28. ASSUME NEW s \in Sweepers, Condemn(s) PROVE PinInv'
    BY <1>28 DEF Condemn, Done, Bury, callVars, TypeInv, TypeOK, CallTypeOK, PinInv, Pinning
  <1>29. ASSUME NEW s \in Sweepers, CloseGrave(s) PROVE PinInv'
    BY <1>29 DEF CloseGrave, Phase, Empty, NoStamp, callVars, TypeInv, TypeOK, CallTypeOK,
       PinInv, Pinning
  <1>30. ASSUME NEW s \in Sweepers, RemoveStamp(s) PROVE PinInv'
    BY <1>30 DEF RemoveStamp, Done, NoStamp, callVars, TypeInv, TypeOK, CallTypeOK, PinInv,
       Pinning
  <1>31. ASSUME NEW s \in Sweepers, ListBlobs(s) PROVE PinInv'
    BY <1>31 DEF ListBlobs, Phase, fsVars, callVars, TypeInv, TypeOK, CallTypeOK, PinInv,
       Pinning
  <1>32. ASSUME NEW s \in Sweepers, TakeBlob(s) PROVE PinInv'
    BY <1>32 DEF TakeBlob, Done, callVars, TypeInv, TypeOK, CallTypeOK, PinInv, Pinning
  <1>33. ASSUME NEW s \in Sweepers, RestatBlob(s) PROVE PinInv'
    BY <1>33 DEF RestatBlob, fsVars, callVars, TypeInv, TypeOK, CallTypeOK, PinInv, Pinning
  <1>34. ASSUME NEW s \in Sweepers, RestoreBlob(s) PROVE PinInv'
    BY <1>34 DEF RestoreBlob, callVars, TypeInv, TypeOK, CallTypeOK, PinInv, Pinning
  <1>35. ASSUME NEW s \in Sweepers, UnlinkTomb(s) PROVE PinInv'
    BY <1>35 DEF UnlinkTomb, Done, callVars, TypeInv, TypeOK, CallTypeOK, PinInv, Pinning
  <1>36. ASSUME NEW s \in Sweepers, SweepEnds(s) PROVE PinInv'
    BY <1>36 DEF SweepEnds, Phase, fsVars, callVars, TypeInv, TypeOK, CallTypeOK, PinInv,
       Pinning
  <1>37. ASSUME NEW s \in Sweepers, NEW t \in Trees, ReadStamp(s, t) PROVE PinInv'
    BY <1>37 DEF ReadStamp, RecordUse, Visited, Takes, NoStamp, callVars, TypeInv, TypeOK,
       CallTypeOK, PinInv, Pinning
  <1>38. ASSUME NEW s \in Sweepers, NEW t \in Trees, CheckStamp(s, t) PROVE PinInv'
    BY <1>38 DEF CheckStamp, Visited, Takes, NoStamp, fsVars, callVars, TypeInv, TypeOK,
       CallTypeOK, PinInv, Pinning
  <1>39. ASSUME NEW s \in Sweepers, NEW k \in Keys, StatBlob(s, k) PROVE PinInv'
    BY <1>39 DEF StatBlob, Visited, Takes, fsVars, callVars, TypeInv, TypeOK, CallTypeOK,
       PinInv, Pinning
  <1>40. CASE Tick
    BY <1>40 DEF Tick, fsVars, callVars, swpVars, TypeInv, TypeOK, CallTypeOK, PinInv,
       Pinning
  <1>41. CASE CooldownElapses
    BY <1>41 DEF CooldownElapses, fsVars, callVars, swpVars, TypeInv, TypeOK, CallTypeOK,
       PinInv, Pinning
  <1>42. CASE Crash
    BY <1>42 DEF Crash, fsVars, TypeInv, TypeOK, CallTypeOK, PinInv, Pinning
  <1>43. CASE UNCHANGED vars
    BY <1>43 DEF TypeInv, TypeOK, CallTypeOK, PinInv, Pinning, vars, fsVars, callVars,
       swpVars
  <1>44. ASSUME NEW r \in Requests, Fetch(r) PROVE PinInv'
    BY <1>44, <1>1, <1>2, <1>3, <1>4, <1>5, <1>6, <1>7, <1>8, <1>9, <1>10, <1>11, <1>12,
       <1>13, <1>14, <1>15, <1>16, <1>17, <1>18, <1>19, <1>20, <1>21, <1>22, <1>23, <1>24,
       <1>25, <1>26 DEF Fetch
  <1>45. ASSUME NEW s \in Sweepers, Sweep(s) PROVE PinInv'
    BY <1>45, <1>27, <1>28, <1>29, <1>30, <1>31, <1>32, <1>33, <1>34, <1>35, <1>36, <1>37,
       <1>38, <1>39 DEF Sweep
  <1> QED
    BY <1>40, <1>41, <1>42, <1>43, <1>44, <1>45 DEF Next

\* No action takes a tree away from a fetch that was told it is there.
LEMMA HeldStep ==
  ASSUME TypeInv, PinInv, HeldIsPresent, [Next]_vars
  PROVE  HeldIsPresent'
PROOF
  <1> USE StoreAssumption
  <1>1. ASSUME NEW r \in Requests, Open(r) PROVE HeldIsPresent'
    BY <1>1 DEF Open, Goto, Pin, fsVars, swpVars, TypeInv, TypeOK, CallTypeOK, FsTypeOK,
       PinInv, Pinning, HeldIsPresent, Has
  <1>2. ASSUME NEW r \in Requests, OpenHit(r) PROVE HeldIsPresent'
    BY <1>2 DEF OpenHit, Goto, fsVars, swpVars, TypeInv, TypeOK, CallTypeOK, FsTypeOK,
       PinInv, Pinning, HeldIsPresent, Has
  <1>3. ASSUME NEW r \in Requests, OpenMiss(r) PROVE HeldIsPresent'
    BY <1>3 DEF OpenMiss, Goto, Unpin, fsVars, swpVars, TypeInv, TypeOK, CallTypeOK,
       FsTypeOK, PinInv, Pinning, HeldIsPresent, Has
  <1>4. ASSUME NEW r \in Requests, StampHit(r) PROVE HeldIsPresent'
    BY <1>4 DEF StampHit, Goto, RecordUse, NoStamp, swpVars, TypeInv, TypeOK, CallTypeOK,
       FsTypeOK, PinInv, Pinning, HeldIsPresent, Has
  <1>5. ASSUME NEW r \in Requests, Drop(r) PROVE HeldIsPresent'
    BY <1>5 DEF Drop, Goto, Unpin, fsVars, swpVars, TypeInv, TypeOK, CallTypeOK, FsTypeOK,
       PinInv, Pinning, HeldIsPresent, Has
  <1>6. ASSUME NEW r \in Requests, FetchFails(r) PROVE HeldIsPresent'
    BY <1>6 DEF FetchFails, Goto, fsVars, swpVars, TypeInv, TypeOK, CallTypeOK, FsTypeOK,
       PinInv, Pinning, HeldIsPresent, Has
  <1>7. ASSUME NEW r \in Requests, Ingest(r) PROVE HeldIsPresent'
    BY <1>7 DEF Ingest, Goto, swpVars, TypeInv, TypeOK, CallTypeOK, FsTypeOK, PinInv,
       Pinning, HeldIsPresent, Has
  <1>8. ASSUME NEW r \in Requests, Commit(r) PROVE HeldIsPresent'
    BY <1>8 DEF Commit, Goto, Pin, fsVars, swpVars, TypeInv, TypeOK, CallTypeOK, FsTypeOK,
       PinInv, Pinning, HeldIsPresent, Has
  <1>9. ASSUME NEW r \in Requests, CommitFound(r) PROVE HeldIsPresent'
    BY <1>9 DEF CommitFound, Goto, Empty, swpVars, TypeInv, TypeOK, CallTypeOK, FsTypeOK,
       PinInv, Pinning, HeldIsPresent, Has
  <1>10. ASSUME NEW r \in Requests, CommitShares(r) PROVE HeldIsPresent'
    BY <1>10 DEF CommitShares, Goto, FilesOf, fsVars, swpVars, TypeInv, TypeOK, CallTypeOK,
       FsTypeOK, PinInv, Pinning, HeldIsPresent, Has
  <1>11. ASSUME NEW r \in Requests, CommitFails(r) PROVE HeldIsPresent'
    BY <1>11 DEF CommitFails, Goto, Unpin, Empty, swpVars, TypeInv, TypeOK, CallTypeOK,
       FsTypeOK, PinInv, Pinning, HeldIsPresent, Has
  <1>12. ASSUME NEW r \in Requests, LinkBlob(r) PROVE HeldIsPresent'
    BY <1>12 DEF LinkBlob, Goto, swpVars, TypeInv, TypeOK, CallTypeOK, FsTypeOK, PinInv,
       Pinning, HeldIsPresent, Has
  <1>13. ASSUME NEW r \in Requests, LinkRefused(r) PROVE HeldIsPresent'
    BY <1>13 DEF LinkRefused, Goto, NextFile, fsVars, swpVars, TypeInv, TypeOK, CallTypeOK,
       FsTypeOK, PinInv, Pinning, HeldIsPresent, Has
  <1>14. ASSUME NEW r \in Requests, Swap(r) PROVE HeldIsPresent'
    BY <1>14 DEF Swap, Goto, NextFile, swpVars, TypeInv, TypeOK, CallTypeOK, FsTypeOK,
       PinInv, Pinning, HeldIsPresent, Has
  <1>15. ASSUME NEW r \in Requests, SwapRefused(r) PROVE HeldIsPresent'
    BY <1>15 DEF SwapRefused, Goto, NextFile, swpVars, TypeInv, TypeOK, CallTypeOK,
       FsTypeOK, PinInv, Pinning, HeldIsPresent, Has
  <1>16. ASSUME NEW r \in Requests, LinkGone(r) PROVE HeldIsPresent'
    BY <1>16 DEF LinkGone, Goto, fsVars, swpVars, TypeInv, TypeOK, CallTypeOK, FsTypeOK,
       PinInv, Pinning, HeldIsPresent, Has
  <1>17. ASSUME NEW r \in Requests, Retry(r) PROVE HeldIsPresent'
    BY <1>17 DEF Retry, Goto, NextFile, swpVars, TypeInv, TypeOK, CallTypeOK, FsTypeOK,
       PinInv, Pinning, HeldIsPresent, Has
  <1>18. ASSUME NEW r \in Requests, Publish(r) PROVE HeldIsPresent'
    BY <1>18 DEF Publish, Goto, Empty, swpVars, TypeInv, TypeOK, CallTypeOK, FsTypeOK,
       PinInv, Pinning, HeldIsPresent, Has
  <1>19. ASSUME NEW r \in Requests, PublishLoses(r) PROVE HeldIsPresent'
    BY <1>19 DEF PublishLoses, Goto, Empty, swpVars, TypeInv, TypeOK, CallTypeOK, FsTypeOK,
       PinInv, Pinning, HeldIsPresent, Has
  <1>20. ASSUME NEW r \in Requests, LostFound(r) PROVE HeldIsPresent'
    BY <1>20 DEF LostFound, Goto, fsVars, swpVars, TypeInv, TypeOK, CallTypeOK, FsTypeOK,
       PinInv, Pinning, HeldIsPresent, Has
  <1>21. ASSUME NEW r \in Requests, LostError(r) PROVE HeldIsPresent'
    BY <1>21 DEF LostError, Goto, Unpin, fsVars, swpVars, TypeInv, TypeOK, CallTypeOK,
       FsTypeOK, PinInv, Pinning, HeldIsPresent, Has
  <1>22. ASSUME NEW r \in Requests, StampPublished(r) PROVE HeldIsPresent'
    BY <1>22 DEF StampPublished, Goto, RecordUse, NoStamp, swpVars, TypeInv, TypeOK,
       CallTypeOK, FsTypeOK, PinInv, Pinning, HeldIsPresent, Has
  <1>23. ASSUME NEW r \in Requests, Grown(r) PROVE HeldIsPresent'
    BY <1>23 DEF Grown, Goto, fsVars, TypeInv, TypeOK, CallTypeOK, FsTypeOK, PinInv,
       Pinning, HeldIsPresent, Has
  <1>24. ASSUME NEW r \in Requests, NEW f \in Files, ShareCreates(r, f) PROVE HeldIsPresent'
    BY <1>24 DEF ShareCreates, swpVars, TypeInv, TypeOK, CallTypeOK, FsTypeOK, PinInv,
       Pinning, HeldIsPresent, Has
  <1>25. ASSUME NEW r \in Requests, NEW f \in Files, ShareExists(r, f) PROVE HeldIsPresent'
    BY <1>25 DEF ShareExists, Goto, fsVars, swpVars, TypeInv, TypeOK, CallTypeOK, FsTypeOK,
       PinInv, Pinning, HeldIsPresent, Has
  <1>26. ASSUME NEW r \in Requests, NEW f \in Files, ShareRefused(r, f) PROVE HeldIsPresent'
    BY <1>26 DEF ShareRefused, fsVars, swpVars, TypeInv, TypeOK, CallTypeOK, FsTypeOK,
       PinInv, Pinning, HeldIsPresent, Has
  <1>27. ASSUME NEW s \in Sweepers, SweepBegins(s) PROVE HeldIsPresent'
    BY <1>27 DEF SweepBegins, Phase, fsVars, callVars, TypeInv, TypeOK, CallTypeOK,
       FsTypeOK, PinInv, Pinning, HeldIsPresent, Has
  <1>28. ASSUME NEW s \in Sweepers, Condemn(s) PROVE HeldIsPresent'
    BY <1>28 DEF Condemn, Done, Bury, callVars, TypeInv, TypeOK, CallTypeOK, FsTypeOK,
       PinInv, Pinning, HeldIsPresent, Has
  <1>29. ASSUME NEW s \in Sweepers, CloseGrave(s) PROVE HeldIsPresent'
    BY <1>29 DEF CloseGrave, Phase, Empty, NoStamp, callVars, TypeInv, TypeOK, CallTypeOK,
       FsTypeOK, PinInv, Pinning, HeldIsPresent, Has
  <1>30. ASSUME NEW s \in Sweepers, RemoveStamp(s) PROVE HeldIsPresent'
    BY <1>30 DEF RemoveStamp, Done, NoStamp, callVars, TypeInv, TypeOK, CallTypeOK,
       FsTypeOK, PinInv, Pinning, HeldIsPresent, Has
  <1>31. ASSUME NEW s \in Sweepers, ListBlobs(s) PROVE HeldIsPresent'
    BY <1>31 DEF ListBlobs, Phase, fsVars, callVars, TypeInv, TypeOK, CallTypeOK, FsTypeOK,
       PinInv, Pinning, HeldIsPresent, Has
  <1>32. ASSUME NEW s \in Sweepers, TakeBlob(s) PROVE HeldIsPresent'
    BY <1>32 DEF TakeBlob, Done, callVars, TypeInv, TypeOK, CallTypeOK, FsTypeOK, PinInv,
       Pinning, HeldIsPresent, Has
  <1>33. ASSUME NEW s \in Sweepers, RestatBlob(s) PROVE HeldIsPresent'
    BY <1>33 DEF RestatBlob, fsVars, callVars, TypeInv, TypeOK, CallTypeOK, FsTypeOK,
       PinInv, Pinning, HeldIsPresent, Has
  <1>34. ASSUME NEW s \in Sweepers, RestoreBlob(s) PROVE HeldIsPresent'
    BY <1>34 DEF RestoreBlob, callVars, TypeInv, TypeOK, CallTypeOK, FsTypeOK, PinInv,
       Pinning, HeldIsPresent, Has
  <1>35. ASSUME NEW s \in Sweepers, UnlinkTomb(s) PROVE HeldIsPresent'
    BY <1>35 DEF UnlinkTomb, Done, callVars, TypeInv, TypeOK, CallTypeOK, FsTypeOK, PinInv,
       Pinning, HeldIsPresent, Has
  <1>36. ASSUME NEW s \in Sweepers, SweepEnds(s) PROVE HeldIsPresent'
    BY <1>36 DEF SweepEnds, Phase, fsVars, callVars, TypeInv, TypeOK, CallTypeOK, FsTypeOK,
       PinInv, Pinning, HeldIsPresent, Has
  <1>37. ASSUME NEW s \in Sweepers, NEW t \in Trees, ReadStamp(s, t) PROVE HeldIsPresent'
    BY <1>37 DEF ReadStamp, RecordUse, Visited, Takes, NoStamp, callVars, TypeInv, TypeOK,
       CallTypeOK, FsTypeOK, PinInv, Pinning, HeldIsPresent, Has
  <1>38. ASSUME NEW s \in Sweepers, NEW t \in Trees, CheckStamp(s, t) PROVE HeldIsPresent'
    BY <1>38 DEF CheckStamp, Visited, Takes, NoStamp, fsVars, callVars, TypeInv, TypeOK,
       CallTypeOK, FsTypeOK, PinInv, Pinning, HeldIsPresent, Has
  <1>39. ASSUME NEW s \in Sweepers, NEW k \in Keys, StatBlob(s, k) PROVE HeldIsPresent'
    BY <1>39 DEF StatBlob, Visited, Takes, fsVars, callVars, TypeInv, TypeOK, CallTypeOK,
       FsTypeOK, PinInv, Pinning, HeldIsPresent, Has
  <1>40. CASE Tick
    BY <1>40 DEF Tick, fsVars, callVars, swpVars, TypeInv, TypeOK, CallTypeOK, FsTypeOK,
       PinInv, Pinning, HeldIsPresent, Has
  <1>41. CASE CooldownElapses
    BY <1>41 DEF CooldownElapses, fsVars, callVars, swpVars, TypeInv, TypeOK, CallTypeOK,
       FsTypeOK, PinInv, Pinning, HeldIsPresent, Has
  <1>42. CASE Crash
    BY <1>42 DEF Crash, fsVars, TypeInv, TypeOK, CallTypeOK, FsTypeOK, PinInv, Pinning,
       HeldIsPresent, Has
  <1>43. CASE UNCHANGED vars
    BY <1>43 DEF TypeInv, TypeOK, CallTypeOK, FsTypeOK, PinInv, Pinning, HeldIsPresent, Has,
       vars, fsVars, callVars, swpVars
  <1>44. ASSUME NEW r \in Requests, Fetch(r) PROVE HeldIsPresent'
    BY <1>44, <1>1, <1>2, <1>3, <1>4, <1>5, <1>6, <1>7, <1>8, <1>9, <1>10, <1>11, <1>12,
       <1>13, <1>14, <1>15, <1>16, <1>17, <1>18, <1>19, <1>20, <1>21, <1>22, <1>23, <1>24,
       <1>25, <1>26 DEF Fetch
  <1>45. ASSUME NEW s \in Sweepers, Sweep(s) PROVE HeldIsPresent'
    BY <1>45, <1>27, <1>28, <1>29, <1>30, <1>31, <1>32, <1>33, <1>34, <1>35, <1>36, <1>37,
       <1>38, <1>39 DEF Sweep
  <1> QED
    BY <1>40, <1>41, <1>42, <1>43, <1>44, <1>45 DEF Next

\* Staged files stay complete and right.
LEMMA StagedStep ==
  ASSUME TypeInv, ShareInv, [Next]_vars
  PROVE  StagedInv'
PROOF
  <1> USE StoreAssumption
  <1>1. ASSUME NEW r \in Requests, Open(r) PROVE StagedInv'
    BY <1>1 DEF Open, Goto, Pin, fsVars, swpVars, TypeInv, TypeOK, CallTypeOK, FsTypeOK,
       ShareInv, StagedInv, FileInv, Staging, OnFile, CandInv, Is
  <1>2. ASSUME NEW r \in Requests, OpenHit(r) PROVE StagedInv'
    BY <1>2 DEF OpenHit, Goto, fsVars, swpVars, TypeInv, TypeOK, CallTypeOK, FsTypeOK,
       ShareInv, StagedInv, FileInv, Staging, OnFile, CandInv, Is
  <1>3. ASSUME NEW r \in Requests, OpenMiss(r) PROVE StagedInv'
    BY <1>3 DEF OpenMiss, Goto, Unpin, fsVars, swpVars, TypeInv, TypeOK, CallTypeOK,
       FsTypeOK, ShareInv, StagedInv, FileInv, Staging, OnFile, CandInv, Is
  <1>4. ASSUME NEW r \in Requests, StampHit(r) PROVE StagedInv'
    BY <1>4 DEF StampHit, Goto, RecordUse, NoStamp, swpVars, TypeInv, TypeOK, CallTypeOK,
       FsTypeOK, ShareInv, StagedInv, FileInv, Staging, OnFile, CandInv, Is
  <1>5. ASSUME NEW r \in Requests, Drop(r) PROVE StagedInv'
    BY <1>5 DEF Drop, Goto, Unpin, fsVars, swpVars, TypeInv, TypeOK, CallTypeOK, FsTypeOK,
       ShareInv, StagedInv, FileInv, Staging, OnFile, CandInv, Is
  <1>6. ASSUME NEW r \in Requests, FetchFails(r) PROVE StagedInv'
    BY <1>6 DEF FetchFails, Goto, fsVars, swpVars, TypeInv, TypeOK, CallTypeOK, FsTypeOK,
       ShareInv, StagedInv, FileInv, Staging, OnFile, CandInv, Is
  <1>7. ASSUME NEW r \in Requests, Ingest(r) PROVE StagedInv'
    <2>1. \A g \in Files : Home[g] = TreeOf[r] => staged'[r][g] = <<r, g>>
      BY <1>7 DEF Ingest, TypeInv, TypeOK, FsTypeOK
    <2>2. \A g \in Files : Home[g] # TreeOf[r] => staged'[r][g] = Nil
      BY <1>7 DEF Ingest, TypeInv, TypeOK, FsTypeOK
    <2>3. \A q \in Requests : q # r => staged'[q] = staged[q] /\ call'[q] = call[q]
      BY <1>7 DEF Ingest, Goto, TypeInv, TypeOK, FsTypeOK, CallTypeOK
    <2>4. \A g \in Files : Is(<<r, g>>, g) /\ <<r, g>> # Nil
      BY DEF Is, Inodes
    <2>5. \A q \in Requests, g \in Files : staged'[q][g] # Nil => Is(staged'[q][g], g)
      <3> TAKE q \in Requests, g \in Files
      <3>1. CASE q = r
        BY <2>1, <2>2, <2>4, <3>1
      <3>2. CASE q # r
        BY <2>3, <3>2 DEF ShareInv, StagedInv
      <3> QED
        BY <3>1, <3>2
    <2>6. \A q \in Requests, g \in Files :
            call'[q] \in Staging /\ Home[g] = TreeOf[q] => staged'[q][g] # Nil
      <3> TAKE q \in Requests, g \in Files
      <3>1. CASE q = r
        BY <2>1, <2>4, <3>1
      <3>2. CASE q # r
        BY <2>3, <3>2 DEF ShareInv, StagedInv
      <3> QED
        BY <3>1, <3>2
    <2> QED
      BY <2>5, <2>6 DEF StagedInv
  <1>8. ASSUME NEW r \in Requests, Commit(r) PROVE StagedInv'
    BY <1>8 DEF Commit, Goto, Pin, fsVars, swpVars, TypeInv, TypeOK, CallTypeOK, FsTypeOK,
       ShareInv, StagedInv, FileInv, Staging, OnFile, CandInv, Is
  <1>9. ASSUME NEW r \in Requests, CommitFound(r) PROVE StagedInv'
    BY <1>9 DEF CommitFound, Goto, Empty, swpVars, TypeInv, TypeOK, CallTypeOK, FsTypeOK,
       ShareInv, StagedInv, FileInv, Staging, OnFile, CandInv, Is
  <1>10. ASSUME NEW r \in Requests, CommitShares(r) PROVE StagedInv'
    BY <1>10 DEF CommitShares, Goto, FilesOf, fsVars, swpVars, TypeInv, TypeOK, CallTypeOK,
       FsTypeOK, ShareInv, StagedInv, FileInv, Staging, OnFile, CandInv, Is
  <1>11. ASSUME NEW r \in Requests, CommitFails(r) PROVE StagedInv'
    BY <1>11 DEF CommitFails, Goto, Unpin, Empty, swpVars, TypeInv, TypeOK, CallTypeOK,
       FsTypeOK, ShareInv, StagedInv, FileInv, Staging, OnFile, CandInv, Is
  <1>12. ASSUME NEW r \in Requests, LinkBlob(r) PROVE StagedInv'
    BY <1>12 DEF LinkBlob, Goto, swpVars, TypeInv, TypeOK, CallTypeOK, FsTypeOK, ShareInv,
       StagedInv, FileInv, Staging, OnFile, CandInv, Is
  <1>13. ASSUME NEW r \in Requests, LinkRefused(r) PROVE StagedInv'
    BY <1>13 DEF LinkRefused, Goto, NextFile, fsVars, swpVars, TypeInv, TypeOK, CallTypeOK,
       FsTypeOK, ShareInv, StagedInv, FileInv, Staging, OnFile, CandInv, Is
  <1>14. ASSUME NEW r \in Requests, Swap(r) PROVE StagedInv'
    <2>1. file[r] \in Files /\ Is(link[r], file[r]) /\ link[r] # Nil
      BY <1>14 DEF Swap, TypeInv, CandInv, OnFile, ShareInv, FileInv, Is, Inodes
    <2>2. staged'[r] = [staged[r] EXCEPT ![file[r]] = link[r]]
      BY <1>14 DEF Swap, TypeInv, TypeOK, FsTypeOK
    <2>3. \A g \in Files : staged'[r][g] = staged[r][g] \/ (g = file[r] /\ staged'[r][g] = link[r])
      BY <2>1, <2>2 DEF TypeInv, TypeOK, FsTypeOK
    <2>4. \A q \in Requests : q # r => staged'[q] = staged[q] /\ call'[q] = call[q]
      BY <1>14 DEF Swap, NextFile, Goto, TypeInv, TypeOK, FsTypeOK, CallTypeOK
    <2>5. \A g \in Files : Home[g] = TreeOf[r] => staged[r][g] # Nil
      BY <1>14 DEF Swap, ShareInv, StagedInv, Staging
    <2> QED
      BY <2>1, <2>3, <2>4, <2>5 DEF ShareInv, StagedInv
  <1>15. ASSUME NEW r \in Requests, SwapRefused(r) PROVE StagedInv'
    BY <1>15 DEF SwapRefused, Goto, NextFile, swpVars, TypeInv, TypeOK, CallTypeOK,
       FsTypeOK, ShareInv, StagedInv, FileInv, Staging, OnFile, CandInv, Is
  <1>16. ASSUME NEW r \in Requests, LinkGone(r) PROVE StagedInv'
    BY <1>16 DEF LinkGone, Goto, fsVars, swpVars, TypeInv, TypeOK, CallTypeOK, FsTypeOK,
       ShareInv, StagedInv, FileInv, Staging, OnFile, CandInv, Is
  <1>17. ASSUME NEW r \in Requests, Retry(r) PROVE StagedInv'
    BY <1>17 DEF Retry, Goto, NextFile, swpVars, TypeInv, TypeOK, CallTypeOK, FsTypeOK,
       ShareInv, StagedInv, FileInv, Staging, OnFile, CandInv, Is
  <1>18. ASSUME NEW r \in Requests, Publish(r) PROVE StagedInv'
    BY <1>18 DEF Publish, Goto, Empty, swpVars, TypeInv, TypeOK, CallTypeOK, FsTypeOK,
       ShareInv, StagedInv, FileInv, Staging, OnFile, CandInv, Is
  <1>19. ASSUME NEW r \in Requests, PublishLoses(r) PROVE StagedInv'
    BY <1>19 DEF PublishLoses, Goto, Empty, swpVars, TypeInv, TypeOK, CallTypeOK, FsTypeOK,
       ShareInv, StagedInv, FileInv, Staging, OnFile, CandInv, Is
  <1>20. ASSUME NEW r \in Requests, LostFound(r) PROVE StagedInv'
    BY <1>20 DEF LostFound, Goto, fsVars, swpVars, TypeInv, TypeOK, CallTypeOK, FsTypeOK,
       ShareInv, StagedInv, FileInv, Staging, OnFile, CandInv, Is
  <1>21. ASSUME NEW r \in Requests, LostError(r) PROVE StagedInv'
    BY <1>21 DEF LostError, Goto, Unpin, fsVars, swpVars, TypeInv, TypeOK, CallTypeOK,
       FsTypeOK, ShareInv, StagedInv, FileInv, Staging, OnFile, CandInv, Is
  <1>22. ASSUME NEW r \in Requests, StampPublished(r) PROVE StagedInv'
    BY <1>22 DEF StampPublished, Goto, RecordUse, NoStamp, swpVars, TypeInv, TypeOK,
       CallTypeOK, FsTypeOK, ShareInv, StagedInv, FileInv, Staging, OnFile, CandInv, Is
  <1>23. ASSUME NEW r \in Requests, Grown(r) PROVE StagedInv'
    BY <1>23 DEF Grown, Goto, fsVars, TypeInv, TypeOK, CallTypeOK, FsTypeOK, ShareInv,
       StagedInv, FileInv, Staging, OnFile, CandInv, Is
  <1>24. ASSUME NEW r \in Requests, NEW f \in Files, ShareCreates(r, f) PROVE StagedInv'
    BY <1>24 DEF ShareCreates, swpVars, TypeInv, TypeOK, CallTypeOK, FsTypeOK, ShareInv,
       StagedInv, FileInv, Staging, OnFile, CandInv, Is
  <1>25. ASSUME NEW r \in Requests, NEW f \in Files, ShareExists(r, f) PROVE StagedInv'
    BY <1>25 DEF ShareExists, Goto, fsVars, swpVars, TypeInv, TypeOK, CallTypeOK, FsTypeOK,
       ShareInv, StagedInv, FileInv, Staging, OnFile, CandInv, Is
  <1>26. ASSUME NEW r \in Requests, NEW f \in Files, ShareRefused(r, f) PROVE StagedInv'
    BY <1>26 DEF ShareRefused, fsVars, swpVars, TypeInv, TypeOK, CallTypeOK, FsTypeOK,
       ShareInv, StagedInv, FileInv, Staging, OnFile, CandInv, Is
  <1>27. ASSUME NEW s \in Sweepers, SweepBegins(s) PROVE StagedInv'
    BY <1>27 DEF SweepBegins, Phase, fsVars, callVars, TypeInv, TypeOK, CallTypeOK,
       FsTypeOK, ShareInv, StagedInv, FileInv, Staging, OnFile, CandInv, Is
  <1>28. ASSUME NEW s \in Sweepers, Condemn(s) PROVE StagedInv'
    BY <1>28 DEF Condemn, Done, Bury, callVars, TypeInv, TypeOK, CallTypeOK, FsTypeOK,
       ShareInv, StagedInv, FileInv, Staging, OnFile, CandInv, Is
  <1>29. ASSUME NEW s \in Sweepers, CloseGrave(s) PROVE StagedInv'
    BY <1>29 DEF CloseGrave, Phase, Empty, NoStamp, callVars, TypeInv, TypeOK, CallTypeOK,
       FsTypeOK, ShareInv, StagedInv, FileInv, Staging, OnFile, CandInv, Is
  <1>30. ASSUME NEW s \in Sweepers, RemoveStamp(s) PROVE StagedInv'
    BY <1>30 DEF RemoveStamp, Done, NoStamp, callVars, TypeInv, TypeOK, CallTypeOK,
       FsTypeOK, ShareInv, StagedInv, FileInv, Staging, OnFile, CandInv, Is
  <1>31. ASSUME NEW s \in Sweepers, ListBlobs(s) PROVE StagedInv'
    BY <1>31 DEF ListBlobs, Phase, fsVars, callVars, TypeInv, TypeOK, CallTypeOK, FsTypeOK,
       ShareInv, StagedInv, FileInv, Staging, OnFile, CandInv, Is
  <1>32. ASSUME NEW s \in Sweepers, TakeBlob(s) PROVE StagedInv'
    BY <1>32 DEF TakeBlob, Done, callVars, TypeInv, TypeOK, CallTypeOK, FsTypeOK, ShareInv,
       StagedInv, FileInv, Staging, OnFile, CandInv, Is
  <1>33. ASSUME NEW s \in Sweepers, RestatBlob(s) PROVE StagedInv'
    BY <1>33 DEF RestatBlob, fsVars, callVars, TypeInv, TypeOK, CallTypeOK, FsTypeOK,
       ShareInv, StagedInv, FileInv, Staging, OnFile, CandInv, Is
  <1>34. ASSUME NEW s \in Sweepers, RestoreBlob(s) PROVE StagedInv'
    BY <1>34 DEF RestoreBlob, callVars, TypeInv, TypeOK, CallTypeOK, FsTypeOK, ShareInv,
       StagedInv, FileInv, Staging, OnFile, CandInv, Is
  <1>35. ASSUME NEW s \in Sweepers, UnlinkTomb(s) PROVE StagedInv'
    BY <1>35 DEF UnlinkTomb, Done, callVars, TypeInv, TypeOK, CallTypeOK, FsTypeOK,
       ShareInv, StagedInv, FileInv, Staging, OnFile, CandInv, Is
  <1>36. ASSUME NEW s \in Sweepers, SweepEnds(s) PROVE StagedInv'
    BY <1>36 DEF SweepEnds, Phase, fsVars, callVars, TypeInv, TypeOK, CallTypeOK, FsTypeOK,
       ShareInv, StagedInv, FileInv, Staging, OnFile, CandInv, Is
  <1>37. ASSUME NEW s \in Sweepers, NEW t \in Trees, ReadStamp(s, t) PROVE StagedInv'
    BY <1>37 DEF ReadStamp, RecordUse, Visited, Takes, NoStamp, callVars, TypeInv, TypeOK,
       CallTypeOK, FsTypeOK, ShareInv, StagedInv, FileInv, Staging, OnFile, CandInv, Is
  <1>38. ASSUME NEW s \in Sweepers, NEW t \in Trees, CheckStamp(s, t) PROVE StagedInv'
    BY <1>38 DEF CheckStamp, Visited, Takes, NoStamp, fsVars, callVars, TypeInv, TypeOK,
       CallTypeOK, FsTypeOK, ShareInv, StagedInv, FileInv, Staging, OnFile, CandInv, Is
  <1>39. ASSUME NEW s \in Sweepers, NEW k \in Keys, StatBlob(s, k) PROVE StagedInv'
    BY <1>39 DEF StatBlob, Visited, Takes, fsVars, callVars, TypeInv, TypeOK, CallTypeOK,
       FsTypeOK, ShareInv, StagedInv, FileInv, Staging, OnFile, CandInv, Is
  <1>40. CASE Tick
    BY <1>40 DEF Tick, fsVars, callVars, swpVars, TypeInv, TypeOK, CallTypeOK, FsTypeOK,
       ShareInv, StagedInv, FileInv, Staging, OnFile, CandInv, Is
  <1>41. CASE CooldownElapses
    BY <1>41 DEF CooldownElapses, fsVars, callVars, swpVars, TypeInv, TypeOK, CallTypeOK,
       FsTypeOK, ShareInv, StagedInv, FileInv, Staging, OnFile, CandInv, Is
  <1>42. CASE Crash
    BY <1>42 DEF Crash, fsVars, TypeInv, TypeOK, CallTypeOK, FsTypeOK, ShareInv, StagedInv,
       FileInv, Staging, OnFile, CandInv, Is
  <1>43. CASE UNCHANGED vars
    BY <1>43 DEF TypeInv, TypeOK, CallTypeOK, FsTypeOK, ShareInv, StagedInv, FileInv,
       Staging, OnFile, CandInv, Is, vars, fsVars, callVars, swpVars
  <1>44. ASSUME NEW r \in Requests, Fetch(r) PROVE StagedInv'
    BY <1>44, <1>1, <1>2, <1>3, <1>4, <1>5, <1>6, <1>7, <1>8, <1>9, <1>10, <1>11, <1>12,
       <1>13, <1>14, <1>15, <1>16, <1>17, <1>18, <1>19, <1>20, <1>21, <1>22, <1>23, <1>24,
       <1>25, <1>26 DEF Fetch
  <1>45. ASSUME NEW s \in Sweepers, Sweep(s) PROVE StagedInv'
    BY <1>45, <1>27, <1>28, <1>29, <1>30, <1>31, <1>32, <1>33, <1>34, <1>35, <1>36, <1>37,
       <1>38, <1>39 DEF Sweep
  <1> QED
    BY <1>40, <1>41, <1>42, <1>43, <1>44, <1>45 DEF Next

\* The file in hand belongs to the tree, and the scratch link is right for it.
LEMMA FileStep ==
  ASSUME TypeInv, ShareInv, [Next]_vars
  PROVE  FileInv'
PROOF
  <1> USE StoreAssumption
  <1>1. ASSUME NEW r \in Requests, Open(r) PROVE FileInv'
    BY <1>1 DEF Open, Goto, Pin, fsVars, swpVars, TypeInv, TypeOK, CallTypeOK, FsTypeOK,
       ShareInv, FileInv, BlobInv, OnFile, CandInv, Is
  <1>2. ASSUME NEW r \in Requests, OpenHit(r) PROVE FileInv'
    BY <1>2 DEF OpenHit, Goto, fsVars, swpVars, TypeInv, TypeOK, CallTypeOK, FsTypeOK,
       ShareInv, FileInv, BlobInv, OnFile, CandInv, Is
  <1>3. ASSUME NEW r \in Requests, OpenMiss(r) PROVE FileInv'
    BY <1>3 DEF OpenMiss, Goto, Unpin, fsVars, swpVars, TypeInv, TypeOK, CallTypeOK,
       FsTypeOK, ShareInv, FileInv, BlobInv, OnFile, CandInv, Is
  <1>4. ASSUME NEW r \in Requests, StampHit(r) PROVE FileInv'
    BY <1>4 DEF StampHit, Goto, RecordUse, NoStamp, swpVars, TypeInv, TypeOK, CallTypeOK,
       FsTypeOK, ShareInv, FileInv, BlobInv, OnFile, CandInv, Is
  <1>5. ASSUME NEW r \in Requests, Drop(r) PROVE FileInv'
    BY <1>5 DEF Drop, Goto, Unpin, fsVars, swpVars, TypeInv, TypeOK, CallTypeOK, FsTypeOK,
       ShareInv, FileInv, BlobInv, OnFile, CandInv, Is
  <1>6. ASSUME NEW r \in Requests, FetchFails(r) PROVE FileInv'
    BY <1>6 DEF FetchFails, Goto, fsVars, swpVars, TypeInv, TypeOK, CallTypeOK, FsTypeOK,
       ShareInv, FileInv, BlobInv, OnFile, CandInv, Is
  <1>7. ASSUME NEW r \in Requests, Ingest(r) PROVE FileInv'
    BY <1>7 DEF Ingest, Goto, swpVars, TypeInv, TypeOK, CallTypeOK, FsTypeOK, ShareInv,
       FileInv, BlobInv, OnFile, CandInv, Is
  <1>8. ASSUME NEW r \in Requests, Commit(r) PROVE FileInv'
    BY <1>8 DEF Commit, Goto, Pin, fsVars, swpVars, TypeInv, TypeOK, CallTypeOK, FsTypeOK,
       ShareInv, FileInv, BlobInv, OnFile, CandInv, Is
  <1>9. ASSUME NEW r \in Requests, CommitFound(r) PROVE FileInv'
    BY <1>9 DEF CommitFound, Goto, Empty, swpVars, TypeInv, TypeOK, CallTypeOK, FsTypeOK,
       ShareInv, FileInv, BlobInv, OnFile, CandInv, Is
  <1>10. ASSUME NEW r \in Requests, CommitShares(r) PROVE FileInv'
    BY <1>10 DEF CommitShares, Goto, FilesOf, fsVars, swpVars, TypeInv, TypeOK, CallTypeOK,
       FsTypeOK, ShareInv, FileInv, BlobInv, OnFile, CandInv, Is
  <1>11. ASSUME NEW r \in Requests, CommitFails(r) PROVE FileInv'
    BY <1>11 DEF CommitFails, Goto, Unpin, Empty, swpVars, TypeInv, TypeOK, CallTypeOK,
       FsTypeOK, ShareInv, FileInv, BlobInv, OnFile, CandInv, Is
  <1>12. ASSUME NEW r \in Requests, LinkBlob(r) PROVE FileInv'
    BY <1>12 DEF LinkBlob, Goto, swpVars, TypeInv, TypeOK, CallTypeOK, FsTypeOK, ShareInv,
       FileInv, BlobInv, OnFile, CandInv, Is
  <1>13. ASSUME NEW r \in Requests, LinkRefused(r) PROVE FileInv'
    BY <1>13 DEF LinkRefused, Goto, NextFile, fsVars, swpVars, TypeInv, TypeOK, CallTypeOK,
       FsTypeOK, ShareInv, FileInv, BlobInv, OnFile, CandInv, Is
  <1>14. ASSUME NEW r \in Requests, Swap(r) PROVE FileInv'
    BY <1>14 DEF Swap, Goto, NextFile, swpVars, TypeInv, TypeOK, CallTypeOK, FsTypeOK,
       ShareInv, FileInv, BlobInv, OnFile, CandInv, Is
  <1>15. ASSUME NEW r \in Requests, SwapRefused(r) PROVE FileInv'
    BY <1>15 DEF SwapRefused, Goto, NextFile, swpVars, TypeInv, TypeOK, CallTypeOK,
       FsTypeOK, ShareInv, FileInv, BlobInv, OnFile, CandInv, Is
  <1>16. ASSUME NEW r \in Requests, LinkGone(r) PROVE FileInv'
    BY <1>16 DEF LinkGone, Goto, fsVars, swpVars, TypeInv, TypeOK, CallTypeOK, FsTypeOK,
       ShareInv, FileInv, BlobInv, OnFile, CandInv, Is
  <1>17. ASSUME NEW r \in Requests, Retry(r) PROVE FileInv'
    BY <1>17 DEF Retry, Goto, NextFile, swpVars, TypeInv, TypeOK, CallTypeOK, FsTypeOK,
       ShareInv, FileInv, BlobInv, OnFile, CandInv, Is
  <1>18. ASSUME NEW r \in Requests, Publish(r) PROVE FileInv'
    BY <1>18 DEF Publish, Goto, Empty, swpVars, TypeInv, TypeOK, CallTypeOK, FsTypeOK,
       ShareInv, FileInv, BlobInv, OnFile, CandInv, Is
  <1>19. ASSUME NEW r \in Requests, PublishLoses(r) PROVE FileInv'
    BY <1>19 DEF PublishLoses, Goto, Empty, swpVars, TypeInv, TypeOK, CallTypeOK, FsTypeOK,
       ShareInv, FileInv, BlobInv, OnFile, CandInv, Is
  <1>20. ASSUME NEW r \in Requests, LostFound(r) PROVE FileInv'
    BY <1>20 DEF LostFound, Goto, fsVars, swpVars, TypeInv, TypeOK, CallTypeOK, FsTypeOK,
       ShareInv, FileInv, BlobInv, OnFile, CandInv, Is
  <1>21. ASSUME NEW r \in Requests, LostError(r) PROVE FileInv'
    BY <1>21 DEF LostError, Goto, Unpin, fsVars, swpVars, TypeInv, TypeOK, CallTypeOK,
       FsTypeOK, ShareInv, FileInv, BlobInv, OnFile, CandInv, Is
  <1>22. ASSUME NEW r \in Requests, StampPublished(r) PROVE FileInv'
    BY <1>22 DEF StampPublished, Goto, RecordUse, NoStamp, swpVars, TypeInv, TypeOK,
       CallTypeOK, FsTypeOK, ShareInv, FileInv, BlobInv, OnFile, CandInv, Is
  <1>23. ASSUME NEW r \in Requests, Grown(r) PROVE FileInv'
    BY <1>23 DEF Grown, Goto, fsVars, TypeInv, TypeOK, CallTypeOK, FsTypeOK, ShareInv,
       FileInv, BlobInv, OnFile, CandInv, Is
  <1>24. ASSUME NEW r \in Requests, NEW f \in Files, ShareCreates(r, f) PROVE FileInv'
    BY <1>24 DEF ShareCreates, swpVars, TypeInv, TypeOK, CallTypeOK, FsTypeOK, ShareInv,
       FileInv, BlobInv, OnFile, CandInv, Is
  <1>25. ASSUME NEW r \in Requests, NEW f \in Files, ShareExists(r, f) PROVE FileInv'
    BY <1>25 DEF ShareExists, Goto, fsVars, swpVars, TypeInv, TypeOK, CallTypeOK, FsTypeOK,
       ShareInv, FileInv, BlobInv, OnFile, CandInv, Is
  <1>26. ASSUME NEW r \in Requests, NEW f \in Files, ShareRefused(r, f) PROVE FileInv'
    BY <1>26 DEF ShareRefused, fsVars, swpVars, TypeInv, TypeOK, CallTypeOK, FsTypeOK,
       ShareInv, FileInv, BlobInv, OnFile, CandInv, Is
  <1>27. ASSUME NEW s \in Sweepers, SweepBegins(s) PROVE FileInv'
    BY <1>27 DEF SweepBegins, Phase, fsVars, callVars, TypeInv, TypeOK, CallTypeOK,
       FsTypeOK, ShareInv, FileInv, BlobInv, OnFile, CandInv, Is
  <1>28. ASSUME NEW s \in Sweepers, Condemn(s) PROVE FileInv'
    BY <1>28 DEF Condemn, Done, Bury, callVars, TypeInv, TypeOK, CallTypeOK, FsTypeOK,
       ShareInv, FileInv, BlobInv, OnFile, CandInv, Is
  <1>29. ASSUME NEW s \in Sweepers, CloseGrave(s) PROVE FileInv'
    BY <1>29 DEF CloseGrave, Phase, Empty, NoStamp, callVars, TypeInv, TypeOK, CallTypeOK,
       FsTypeOK, ShareInv, FileInv, BlobInv, OnFile, CandInv, Is
  <1>30. ASSUME NEW s \in Sweepers, RemoveStamp(s) PROVE FileInv'
    BY <1>30 DEF RemoveStamp, Done, NoStamp, callVars, TypeInv, TypeOK, CallTypeOK,
       FsTypeOK, ShareInv, FileInv, BlobInv, OnFile, CandInv, Is
  <1>31. ASSUME NEW s \in Sweepers, ListBlobs(s) PROVE FileInv'
    BY <1>31 DEF ListBlobs, Phase, fsVars, callVars, TypeInv, TypeOK, CallTypeOK, FsTypeOK,
       ShareInv, FileInv, BlobInv, OnFile, CandInv, Is
  <1>32. ASSUME NEW s \in Sweepers, TakeBlob(s) PROVE FileInv'
    BY <1>32 DEF TakeBlob, Done, callVars, TypeInv, TypeOK, CallTypeOK, FsTypeOK, ShareInv,
       FileInv, BlobInv, OnFile, CandInv, Is
  <1>33. ASSUME NEW s \in Sweepers, RestatBlob(s) PROVE FileInv'
    BY <1>33 DEF RestatBlob, fsVars, callVars, TypeInv, TypeOK, CallTypeOK, FsTypeOK,
       ShareInv, FileInv, BlobInv, OnFile, CandInv, Is
  <1>34. ASSUME NEW s \in Sweepers, RestoreBlob(s) PROVE FileInv'
    BY <1>34 DEF RestoreBlob, callVars, TypeInv, TypeOK, CallTypeOK, FsTypeOK, ShareInv,
       FileInv, BlobInv, OnFile, CandInv, Is
  <1>35. ASSUME NEW s \in Sweepers, UnlinkTomb(s) PROVE FileInv'
    BY <1>35 DEF UnlinkTomb, Done, callVars, TypeInv, TypeOK, CallTypeOK, FsTypeOK,
       ShareInv, FileInv, BlobInv, OnFile, CandInv, Is
  <1>36. ASSUME NEW s \in Sweepers, SweepEnds(s) PROVE FileInv'
    BY <1>36 DEF SweepEnds, Phase, fsVars, callVars, TypeInv, TypeOK, CallTypeOK, FsTypeOK,
       ShareInv, FileInv, BlobInv, OnFile, CandInv, Is
  <1>37. ASSUME NEW s \in Sweepers, NEW t \in Trees, ReadStamp(s, t) PROVE FileInv'
    BY <1>37 DEF ReadStamp, RecordUse, Visited, Takes, NoStamp, callVars, TypeInv, TypeOK,
       CallTypeOK, FsTypeOK, ShareInv, FileInv, BlobInv, OnFile, CandInv, Is
  <1>38. ASSUME NEW s \in Sweepers, NEW t \in Trees, CheckStamp(s, t) PROVE FileInv'
    BY <1>38 DEF CheckStamp, Visited, Takes, NoStamp, fsVars, callVars, TypeInv, TypeOK,
       CallTypeOK, FsTypeOK, ShareInv, FileInv, BlobInv, OnFile, CandInv, Is
  <1>39. ASSUME NEW s \in Sweepers, NEW k \in Keys, StatBlob(s, k) PROVE FileInv'
    BY <1>39 DEF StatBlob, Visited, Takes, fsVars, callVars, TypeInv, TypeOK, CallTypeOK,
       FsTypeOK, ShareInv, FileInv, BlobInv, OnFile, CandInv, Is
  <1>40. CASE Tick
    BY <1>40 DEF Tick, fsVars, callVars, swpVars, TypeInv, TypeOK, CallTypeOK, FsTypeOK,
       ShareInv, FileInv, BlobInv, OnFile, CandInv, Is
  <1>41. CASE CooldownElapses
    BY <1>41 DEF CooldownElapses, fsVars, callVars, swpVars, TypeInv, TypeOK, CallTypeOK,
       FsTypeOK, ShareInv, FileInv, BlobInv, OnFile, CandInv, Is
  <1>42. CASE Crash
    BY <1>42 DEF Crash, fsVars, TypeInv, TypeOK, CallTypeOK, FsTypeOK, ShareInv, FileInv,
       BlobInv, OnFile, CandInv, Is
  <1>43. CASE UNCHANGED vars
    BY <1>43 DEF TypeInv, TypeOK, CallTypeOK, FsTypeOK, ShareInv, FileInv, BlobInv, OnFile,
       CandInv, Is, vars, fsVars, callVars, swpVars
  <1>44. ASSUME NEW r \in Requests, Fetch(r) PROVE FileInv'
    BY <1>44, <1>1, <1>2, <1>3, <1>4, <1>5, <1>6, <1>7, <1>8, <1>9, <1>10, <1>11, <1>12,
       <1>13, <1>14, <1>15, <1>16, <1>17, <1>18, <1>19, <1>20, <1>21, <1>22, <1>23, <1>24,
       <1>25, <1>26 DEF Fetch
  <1>45. ASSUME NEW s \in Sweepers, Sweep(s) PROVE FileInv'
    BY <1>45, <1>27, <1>28, <1>29, <1>30, <1>31, <1>32, <1>33, <1>34, <1>35, <1>36, <1>37,
       <1>38, <1>39 DEF Sweep
  <1> QED
    BY <1>40, <1>41, <1>42, <1>43, <1>44, <1>45 DEF Next

\* A blob is what its name says.
LEMMA BlobStep ==
  ASSUME TypeInv, ShareInv, [Next]_vars
  PROVE  BlobInv'
PROOF
  <1> USE StoreAssumption
  <1>1. ASSUME NEW r \in Requests, Open(r) PROVE BlobInv'
    BY <1>1 DEF Open, Goto, Pin, fsVars, swpVars, TypeInv, TypeOK, CallTypeOK, FsTypeOK,
       ShareInv, StagedInv, FileInv, BlobInv, TombInv, Staging, OnFile, CandInv, Is
  <1>2. ASSUME NEW r \in Requests, OpenHit(r) PROVE BlobInv'
    BY <1>2 DEF OpenHit, Goto, fsVars, swpVars, TypeInv, TypeOK, CallTypeOK, FsTypeOK,
       ShareInv, StagedInv, FileInv, BlobInv, TombInv, Staging, OnFile, CandInv, Is
  <1>3. ASSUME NEW r \in Requests, OpenMiss(r) PROVE BlobInv'
    BY <1>3 DEF OpenMiss, Goto, Unpin, fsVars, swpVars, TypeInv, TypeOK, CallTypeOK,
       FsTypeOK, ShareInv, StagedInv, FileInv, BlobInv, TombInv, Staging, OnFile, CandInv,
       Is
  <1>4. ASSUME NEW r \in Requests, StampHit(r) PROVE BlobInv'
    BY <1>4 DEF StampHit, Goto, RecordUse, NoStamp, swpVars, TypeInv, TypeOK, CallTypeOK,
       FsTypeOK, ShareInv, StagedInv, FileInv, BlobInv, TombInv, Staging, OnFile, CandInv,
       Is
  <1>5. ASSUME NEW r \in Requests, Drop(r) PROVE BlobInv'
    BY <1>5 DEF Drop, Goto, Unpin, fsVars, swpVars, TypeInv, TypeOK, CallTypeOK, FsTypeOK,
       ShareInv, StagedInv, FileInv, BlobInv, TombInv, Staging, OnFile, CandInv, Is
  <1>6. ASSUME NEW r \in Requests, FetchFails(r) PROVE BlobInv'
    BY <1>6 DEF FetchFails, Goto, fsVars, swpVars, TypeInv, TypeOK, CallTypeOK, FsTypeOK,
       ShareInv, StagedInv, FileInv, BlobInv, TombInv, Staging, OnFile, CandInv, Is
  <1>7. ASSUME NEW r \in Requests, Ingest(r) PROVE BlobInv'
    BY <1>7 DEF Ingest, Goto, swpVars, TypeInv, TypeOK, CallTypeOK, FsTypeOK, ShareInv,
       StagedInv, FileInv, BlobInv, TombInv, Staging, OnFile, CandInv, Is
  <1>8. ASSUME NEW r \in Requests, Commit(r) PROVE BlobInv'
    BY <1>8 DEF Commit, Goto, Pin, fsVars, swpVars, TypeInv, TypeOK, CallTypeOK, FsTypeOK,
       ShareInv, StagedInv, FileInv, BlobInv, TombInv, Staging, OnFile, CandInv, Is
  <1>9. ASSUME NEW r \in Requests, CommitFound(r) PROVE BlobInv'
    BY <1>9 DEF CommitFound, Goto, Empty, swpVars, TypeInv, TypeOK, CallTypeOK, FsTypeOK,
       ShareInv, StagedInv, FileInv, BlobInv, TombInv, Staging, OnFile, CandInv, Is
  <1>10. ASSUME NEW r \in Requests, CommitShares(r) PROVE BlobInv'
    BY <1>10 DEF CommitShares, Goto, FilesOf, fsVars, swpVars, TypeInv, TypeOK, CallTypeOK,
       FsTypeOK, ShareInv, StagedInv, FileInv, BlobInv, TombInv, Staging, OnFile, CandInv,
       Is
  <1>11. ASSUME NEW r \in Requests, CommitFails(r) PROVE BlobInv'
    BY <1>11 DEF CommitFails, Goto, Unpin, Empty, swpVars, TypeInv, TypeOK, CallTypeOK,
       FsTypeOK, ShareInv, StagedInv, FileInv, BlobInv, TombInv, Staging, OnFile, CandInv,
       Is
  <1>12. ASSUME NEW r \in Requests, LinkBlob(r) PROVE BlobInv'
    BY <1>12 DEF LinkBlob, Goto, swpVars, BlobKey, TypeInv, TypeOK, CallTypeOK, FsTypeOK,
       ShareInv, StagedInv, FileInv, BlobInv, TombInv, Staging, OnFile, CandInv, Is
  <1>13. ASSUME NEW r \in Requests, LinkRefused(r) PROVE BlobInv'
    BY <1>13 DEF LinkRefused, Goto, NextFile, fsVars, swpVars, TypeInv, TypeOK, CallTypeOK,
       FsTypeOK, ShareInv, StagedInv, FileInv, BlobInv, TombInv, Staging, OnFile, CandInv,
       Is
  <1>14. ASSUME NEW r \in Requests, Swap(r) PROVE BlobInv'
    BY <1>14 DEF Swap, Goto, NextFile, swpVars, TypeInv, TypeOK, CallTypeOK, FsTypeOK,
       ShareInv, StagedInv, FileInv, BlobInv, TombInv, Staging, OnFile, CandInv, Is
  <1>15. ASSUME NEW r \in Requests, SwapRefused(r) PROVE BlobInv'
    BY <1>15 DEF SwapRefused, Goto, NextFile, swpVars, TypeInv, TypeOK, CallTypeOK,
       FsTypeOK, ShareInv, StagedInv, FileInv, BlobInv, TombInv, Staging, OnFile, CandInv,
       Is
  <1>16. ASSUME NEW r \in Requests, LinkGone(r) PROVE BlobInv'
    BY <1>16 DEF LinkGone, Goto, fsVars, swpVars, BlobKey, TypeInv, TypeOK, CallTypeOK,
       FsTypeOK, ShareInv, StagedInv, FileInv, BlobInv, TombInv, Staging, OnFile, CandInv,
       Is
  <1>17. ASSUME NEW r \in Requests, Retry(r) PROVE BlobInv'
    <2> DEFINE k == BlobKey(file[r])
    <2>1. file[r] \in Files /\ Is(staged[r][file[r]], file[r])
      BY <1>17 DEF Retry, TypeInv, CandInv, OnFile, ShareInv, FileInv, StagedInv, Staging
    <2>2. CASE UNCHANGED blob
      BY <2>2 DEF ShareInv, BlobInv
    <2>3. CASE blob' = [blob EXCEPT ![k] = staged[r][file[r]]]
      <3> SUFFICES ASSUME NEW g \in Files, blob'[BlobKey(g)] # Nil
                   PROVE  Is(blob'[BlobKey(g)], g)
        BY DEF BlobInv
      <3>1. CASE BlobKey(g) = k
        <4>1. blob'[BlobKey(g)] = staged[r][file[r]]
          BY <2>3, <3>1, KeyOf DEF TypeInv, TypeOK, FsTypeOK
        <4> QED
          BY <2>1, <3>1, <4>1, SameKey
      <3>2. CASE BlobKey(g) # k
        BY <2>3, <3>2, KeyOf DEF TypeInv, TypeOK, FsTypeOK, ShareInv, BlobInv
      <3> QED
        BY <3>1, <3>2
    <2> QED
      BY <1>17, <2>2, <2>3 DEF Retry
  <1>18. ASSUME NEW r \in Requests, Publish(r) PROVE BlobInv'
    BY <1>18 DEF Publish, Goto, Empty, swpVars, TypeInv, TypeOK, CallTypeOK, FsTypeOK,
       ShareInv, StagedInv, FileInv, BlobInv, TombInv, Staging, OnFile, CandInv, Is
  <1>19. ASSUME NEW r \in Requests, PublishLoses(r) PROVE BlobInv'
    BY <1>19 DEF PublishLoses, Goto, Empty, swpVars, TypeInv, TypeOK, CallTypeOK, FsTypeOK,
       ShareInv, StagedInv, FileInv, BlobInv, TombInv, Staging, OnFile, CandInv, Is
  <1>20. ASSUME NEW r \in Requests, LostFound(r) PROVE BlobInv'
    BY <1>20 DEF LostFound, Goto, fsVars, swpVars, TypeInv, TypeOK, CallTypeOK, FsTypeOK,
       ShareInv, StagedInv, FileInv, BlobInv, TombInv, Staging, OnFile, CandInv, Is
  <1>21. ASSUME NEW r \in Requests, LostError(r) PROVE BlobInv'
    BY <1>21 DEF LostError, Goto, Unpin, fsVars, swpVars, TypeInv, TypeOK, CallTypeOK,
       FsTypeOK, ShareInv, StagedInv, FileInv, BlobInv, TombInv, Staging, OnFile, CandInv,
       Is
  <1>22. ASSUME NEW r \in Requests, StampPublished(r) PROVE BlobInv'
    BY <1>22 DEF StampPublished, Goto, RecordUse, NoStamp, swpVars, TypeInv, TypeOK,
       CallTypeOK, FsTypeOK, ShareInv, StagedInv, FileInv, BlobInv, TombInv, Staging,
       OnFile, CandInv, Is
  <1>23. ASSUME NEW r \in Requests, Grown(r) PROVE BlobInv'
    BY <1>23 DEF Grown, Goto, fsVars, TypeInv, TypeOK, CallTypeOK, FsTypeOK, ShareInv,
       StagedInv, FileInv, BlobInv, TombInv, Staging, OnFile, CandInv, Is
  <1>24. ASSUME NEW r \in Requests, NEW f \in Files, ShareCreates(r, f) PROVE BlobInv'
    BY <1>24 DEF ShareCreates, swpVars, BlobKey, TypeInv, TypeOK, CallTypeOK, FsTypeOK,
       ShareInv, StagedInv, FileInv, BlobInv, TombInv, Staging, OnFile, CandInv, Is
  <1>25. ASSUME NEW r \in Requests, NEW f \in Files, ShareExists(r, f) PROVE BlobInv'
    BY <1>25 DEF ShareExists, Goto, fsVars, swpVars, BlobKey, TypeInv, TypeOK, CallTypeOK,
       FsTypeOK, ShareInv, StagedInv, FileInv, BlobInv, TombInv, Staging, OnFile, CandInv,
       Is
  <1>26. ASSUME NEW r \in Requests, NEW f \in Files, ShareRefused(r, f) PROVE BlobInv'
    BY <1>26 DEF ShareRefused, fsVars, swpVars, TypeInv, TypeOK, CallTypeOK, FsTypeOK,
       ShareInv, StagedInv, FileInv, BlobInv, TombInv, Staging, OnFile, CandInv, Is
  <1>27. ASSUME NEW s \in Sweepers, SweepBegins(s) PROVE BlobInv'
    BY <1>27 DEF SweepBegins, Phase, fsVars, callVars, TypeInv, TypeOK, CallTypeOK,
       FsTypeOK, ShareInv, StagedInv, FileInv, BlobInv, TombInv, Staging, OnFile, CandInv,
       Is
  <1>28. ASSUME NEW s \in Sweepers, Condemn(s) PROVE BlobInv'
    BY <1>28 DEF Condemn, Done, Bury, callVars, TypeInv, TypeOK, CallTypeOK, FsTypeOK,
       ShareInv, StagedInv, FileInv, BlobInv, TombInv, Staging, OnFile, CandInv, Is
  <1>29. ASSUME NEW s \in Sweepers, CloseGrave(s) PROVE BlobInv'
    BY <1>29 DEF CloseGrave, Phase, Empty, NoStamp, callVars, TypeInv, TypeOK, CallTypeOK,
       FsTypeOK, ShareInv, StagedInv, FileInv, BlobInv, TombInv, Staging, OnFile, CandInv,
       Is
  <1>30. ASSUME NEW s \in Sweepers, RemoveStamp(s) PROVE BlobInv'
    BY <1>30 DEF RemoveStamp, Done, NoStamp, callVars, TypeInv, TypeOK, CallTypeOK,
       FsTypeOK, ShareInv, StagedInv, FileInv, BlobInv, TombInv, Staging, OnFile, CandInv,
       Is
  <1>31. ASSUME NEW s \in Sweepers, ListBlobs(s) PROVE BlobInv'
    BY <1>31 DEF ListBlobs, Phase, fsVars, callVars, TypeInv, TypeOK, CallTypeOK, FsTypeOK,
       ShareInv, StagedInv, FileInv, BlobInv, TombInv, Staging, OnFile, CandInv, Is
  <1>32. ASSUME NEW s \in Sweepers, TakeBlob(s) PROVE BlobInv'
    <2>1. CASE blob' = [blob EXCEPT ![cand[s]] = Nil]
      BY <2>1, KeyOf DEF TypeInv, TypeOK, FsTypeOK, ShareInv, BlobInv
    <2>2. CASE UNCHANGED blob
      BY <2>2 DEF ShareInv, BlobInv
    <2> QED
      BY <1>32, <2>1, <2>2 DEF TakeBlob
  <1>33. ASSUME NEW s \in Sweepers, RestatBlob(s) PROVE BlobInv'
    BY <1>33 DEF RestatBlob, fsVars, callVars, TypeInv, TypeOK, CallTypeOK, FsTypeOK,
       ShareInv, StagedInv, FileInv, BlobInv, TombInv, Staging, OnFile, CandInv, Is
  <1>34. ASSUME NEW s \in Sweepers, RestoreBlob(s) PROVE BlobInv'
    <2>1. CASE blob' = [blob EXCEPT ![cand[s]] = tomb[s]]
      <3>1. \A g \in Files : BlobKey(g) = cand[s] => Is(tomb[s], g)
        BY <1>34 DEF RestoreBlob, ShareInv, TombInv
      <3> QED
        BY <2>1, <3>1, KeyOf DEF TypeInv, TypeOK, FsTypeOK, ShareInv, BlobInv
    <2>2. CASE UNCHANGED blob
      BY <2>2 DEF ShareInv, BlobInv
    <2> QED
      BY <1>34, <2>1, <2>2 DEF RestoreBlob
  <1>35. ASSUME NEW s \in Sweepers, UnlinkTomb(s) PROVE BlobInv'
    BY <1>35 DEF UnlinkTomb, Done, callVars, TypeInv, TypeOK, CallTypeOK, FsTypeOK,
       ShareInv, StagedInv, FileInv, BlobInv, TombInv, Staging, OnFile, CandInv, Is
  <1>36. ASSUME NEW s \in Sweepers, SweepEnds(s) PROVE BlobInv'
    BY <1>36 DEF SweepEnds, Phase, fsVars, callVars, TypeInv, TypeOK, CallTypeOK, FsTypeOK,
       ShareInv, StagedInv, FileInv, BlobInv, TombInv, Staging, OnFile, CandInv, Is
  <1>37. ASSUME NEW s \in Sweepers, NEW t \in Trees, ReadStamp(s, t) PROVE BlobInv'
    BY <1>37 DEF ReadStamp, RecordUse, Visited, Takes, NoStamp, callVars, TypeInv, TypeOK,
       CallTypeOK, FsTypeOK, ShareInv, StagedInv, FileInv, BlobInv, TombInv, Staging,
       OnFile, CandInv, Is
  <1>38. ASSUME NEW s \in Sweepers, NEW t \in Trees, CheckStamp(s, t) PROVE BlobInv'
    BY <1>38 DEF CheckStamp, Visited, Takes, NoStamp, fsVars, callVars, TypeInv, TypeOK,
       CallTypeOK, FsTypeOK, ShareInv, StagedInv, FileInv, BlobInv, TombInv, Staging,
       OnFile, CandInv, Is
  <1>39. ASSUME NEW s \in Sweepers, NEW k \in Keys, StatBlob(s, k) PROVE BlobInv'
    BY <1>39 DEF StatBlob, Visited, Takes, fsVars, callVars, TypeInv, TypeOK, CallTypeOK,
       FsTypeOK, ShareInv, StagedInv, FileInv, BlobInv, TombInv, Staging, OnFile, CandInv,
       Is
  <1>40. CASE Tick
    BY <1>40 DEF Tick, fsVars, callVars, swpVars, TypeInv, TypeOK, CallTypeOK, FsTypeOK,
       ShareInv, StagedInv, FileInv, BlobInv, TombInv, Staging, OnFile, CandInv, Is
  <1>41. CASE CooldownElapses
    BY <1>41 DEF CooldownElapses, fsVars, callVars, swpVars, TypeInv, TypeOK, CallTypeOK,
       FsTypeOK, ShareInv, StagedInv, FileInv, BlobInv, TombInv, Staging, OnFile, CandInv,
       Is
  <1>42. CASE Crash
    BY <1>42 DEF Crash, fsVars, TypeInv, TypeOK, CallTypeOK, FsTypeOK, ShareInv, StagedInv,
       FileInv, BlobInv, TombInv, Staging, OnFile, CandInv, Is
  <1>43. CASE UNCHANGED vars
    BY <1>43 DEF TypeInv, TypeOK, CallTypeOK, FsTypeOK, ShareInv, StagedInv, FileInv,
       BlobInv, TombInv, Staging, OnFile, CandInv, Is, vars, fsVars, callVars, swpVars
  <1>44. ASSUME NEW r \in Requests, Fetch(r) PROVE BlobInv'
    BY <1>44, <1>1, <1>2, <1>3, <1>4, <1>5, <1>6, <1>7, <1>8, <1>9, <1>10, <1>11, <1>12,
       <1>13, <1>14, <1>15, <1>16, <1>17, <1>18, <1>19, <1>20, <1>21, <1>22, <1>23, <1>24,
       <1>25, <1>26 DEF Fetch
  <1>45. ASSUME NEW s \in Sweepers, Sweep(s) PROVE BlobInv'
    BY <1>45, <1>27, <1>28, <1>29, <1>30, <1>31, <1>32, <1>33, <1>34, <1>35, <1>36, <1>37,
       <1>38, <1>39 DEF Sweep
  <1> QED
    BY <1>40, <1>41, <1>42, <1>43, <1>44, <1>45 DEF Next

\* A blob that a sweep has in hand is what its name said.
LEMMA TombStep ==
  ASSUME TypeInv, ShareInv, [Next]_vars
  PROVE  TombInv'
PROOF
  <1> USE StoreAssumption
  <1>1. ASSUME NEW r \in Requests, Open(r) PROVE TombInv'
    BY <1>1 DEF Open, Goto, Pin, fsVars, swpVars, TypeInv, TypeOK, SweepTypeOK, FsTypeOK,
       ShareInv, BlobInv, TombInv, CandInv, Is
  <1>2. ASSUME NEW r \in Requests, OpenHit(r) PROVE TombInv'
    BY <1>2 DEF OpenHit, Goto, fsVars, swpVars, TypeInv, TypeOK, SweepTypeOK, FsTypeOK,
       ShareInv, BlobInv, TombInv, CandInv, Is
  <1>3. ASSUME NEW r \in Requests, OpenMiss(r) PROVE TombInv'
    BY <1>3 DEF OpenMiss, Goto, Unpin, fsVars, swpVars, TypeInv, TypeOK, SweepTypeOK,
       FsTypeOK, ShareInv, BlobInv, TombInv, CandInv, Is
  <1>4. ASSUME NEW r \in Requests, StampHit(r) PROVE TombInv'
    BY <1>4 DEF StampHit, Goto, RecordUse, NoStamp, swpVars, TypeInv, TypeOK, SweepTypeOK,
       FsTypeOK, ShareInv, BlobInv, TombInv, CandInv, Is
  <1>5. ASSUME NEW r \in Requests, Drop(r) PROVE TombInv'
    BY <1>5 DEF Drop, Goto, Unpin, fsVars, swpVars, TypeInv, TypeOK, SweepTypeOK, FsTypeOK,
       ShareInv, BlobInv, TombInv, CandInv, Is
  <1>6. ASSUME NEW r \in Requests, FetchFails(r) PROVE TombInv'
    BY <1>6 DEF FetchFails, Goto, fsVars, swpVars, TypeInv, TypeOK, SweepTypeOK, FsTypeOK,
       ShareInv, BlobInv, TombInv, CandInv, Is
  <1>7. ASSUME NEW r \in Requests, Ingest(r) PROVE TombInv'
    BY <1>7 DEF Ingest, Goto, swpVars, TypeInv, TypeOK, SweepTypeOK, FsTypeOK, ShareInv,
       BlobInv, TombInv, CandInv, Is
  <1>8. ASSUME NEW r \in Requests, Commit(r) PROVE TombInv'
    BY <1>8 DEF Commit, Goto, Pin, fsVars, swpVars, TypeInv, TypeOK, SweepTypeOK, FsTypeOK,
       ShareInv, BlobInv, TombInv, CandInv, Is
  <1>9. ASSUME NEW r \in Requests, CommitFound(r) PROVE TombInv'
    BY <1>9 DEF CommitFound, Goto, Empty, swpVars, TypeInv, TypeOK, SweepTypeOK, FsTypeOK,
       ShareInv, BlobInv, TombInv, CandInv, Is
  <1>10. ASSUME NEW r \in Requests, CommitShares(r) PROVE TombInv'
    BY <1>10 DEF CommitShares, Goto, FilesOf, fsVars, swpVars, TypeInv, TypeOK, SweepTypeOK,
       FsTypeOK, ShareInv, BlobInv, TombInv, CandInv, Is
  <1>11. ASSUME NEW r \in Requests, CommitFails(r) PROVE TombInv'
    BY <1>11 DEF CommitFails, Goto, Unpin, Empty, swpVars, TypeInv, TypeOK, SweepTypeOK,
       FsTypeOK, ShareInv, BlobInv, TombInv, CandInv, Is
  <1>12. ASSUME NEW r \in Requests, LinkBlob(r) PROVE TombInv'
    BY <1>12 DEF LinkBlob, Goto, swpVars, TypeInv, TypeOK, SweepTypeOK, FsTypeOK, ShareInv,
       BlobInv, TombInv, CandInv, Is
  <1>13. ASSUME NEW r \in Requests, LinkRefused(r) PROVE TombInv'
    BY <1>13 DEF LinkRefused, Goto, NextFile, fsVars, swpVars, TypeInv, TypeOK, SweepTypeOK,
       FsTypeOK, ShareInv, BlobInv, TombInv, CandInv, Is
  <1>14. ASSUME NEW r \in Requests, Swap(r) PROVE TombInv'
    BY <1>14 DEF Swap, Goto, NextFile, swpVars, TypeInv, TypeOK, SweepTypeOK, FsTypeOK,
       ShareInv, BlobInv, TombInv, CandInv, Is
  <1>15. ASSUME NEW r \in Requests, SwapRefused(r) PROVE TombInv'
    BY <1>15 DEF SwapRefused, Goto, NextFile, swpVars, TypeInv, TypeOK, SweepTypeOK,
       FsTypeOK, ShareInv, BlobInv, TombInv, CandInv, Is
  <1>16. ASSUME NEW r \in Requests, LinkGone(r) PROVE TombInv'
    BY <1>16 DEF LinkGone, Goto, fsVars, swpVars, TypeInv, TypeOK, SweepTypeOK, FsTypeOK,
       ShareInv, BlobInv, TombInv, CandInv, Is
  <1>17. ASSUME NEW r \in Requests, Retry(r) PROVE TombInv'
    BY <1>17 DEF Retry, Goto, NextFile, swpVars, TypeInv, TypeOK, SweepTypeOK, FsTypeOK,
       ShareInv, BlobInv, TombInv, CandInv, Is
  <1>18. ASSUME NEW r \in Requests, Publish(r) PROVE TombInv'
    BY <1>18 DEF Publish, Goto, Empty, swpVars, TypeInv, TypeOK, SweepTypeOK, FsTypeOK,
       ShareInv, BlobInv, TombInv, CandInv, Is
  <1>19. ASSUME NEW r \in Requests, PublishLoses(r) PROVE TombInv'
    BY <1>19 DEF PublishLoses, Goto, Empty, swpVars, TypeInv, TypeOK, SweepTypeOK, FsTypeOK,
       ShareInv, BlobInv, TombInv, CandInv, Is
  <1>20. ASSUME NEW r \in Requests, LostFound(r) PROVE TombInv'
    BY <1>20 DEF LostFound, Goto, fsVars, swpVars, TypeInv, TypeOK, SweepTypeOK, FsTypeOK,
       ShareInv, BlobInv, TombInv, CandInv, Is
  <1>21. ASSUME NEW r \in Requests, LostError(r) PROVE TombInv'
    BY <1>21 DEF LostError, Goto, Unpin, fsVars, swpVars, TypeInv, TypeOK, SweepTypeOK,
       FsTypeOK, ShareInv, BlobInv, TombInv, CandInv, Is
  <1>22. ASSUME NEW r \in Requests, StampPublished(r) PROVE TombInv'
    BY <1>22 DEF StampPublished, Goto, RecordUse, NoStamp, swpVars, TypeInv, TypeOK,
       SweepTypeOK, FsTypeOK, ShareInv, BlobInv, TombInv, CandInv, Is
  <1>23. ASSUME NEW r \in Requests, Grown(r) PROVE TombInv'
    BY <1>23 DEF Grown, Goto, fsVars, TypeInv, TypeOK, SweepTypeOK, FsTypeOK, ShareInv,
       BlobInv, TombInv, CandInv, Is
  <1>24. ASSUME NEW r \in Requests, NEW f \in Files, ShareCreates(r, f) PROVE TombInv'
    BY <1>24 DEF ShareCreates, swpVars, TypeInv, TypeOK, SweepTypeOK, FsTypeOK, ShareInv,
       BlobInv, TombInv, CandInv, Is
  <1>25. ASSUME NEW r \in Requests, NEW f \in Files, ShareExists(r, f) PROVE TombInv'
    BY <1>25 DEF ShareExists, Goto, fsVars, swpVars, TypeInv, TypeOK, SweepTypeOK, FsTypeOK,
       ShareInv, BlobInv, TombInv, CandInv, Is
  <1>26. ASSUME NEW r \in Requests, NEW f \in Files, ShareRefused(r, f) PROVE TombInv'
    BY <1>26 DEF ShareRefused, fsVars, swpVars, TypeInv, TypeOK, SweepTypeOK, FsTypeOK,
       ShareInv, BlobInv, TombInv, CandInv, Is
  <1>27. ASSUME NEW s \in Sweepers, SweepBegins(s) PROVE TombInv'
    BY <1>27 DEF SweepBegins, Phase, fsVars, callVars, TypeInv, TypeOK, SweepTypeOK,
       FsTypeOK, ShareInv, BlobInv, TombInv, CandInv, Is
  <1>28. ASSUME NEW s \in Sweepers, Condemn(s) PROVE TombInv'
    BY <1>28 DEF Condemn, Done, Bury, callVars, TypeInv, TypeOK, SweepTypeOK, FsTypeOK,
       ShareInv, BlobInv, TombInv, CandInv, Is
  <1>29. ASSUME NEW s \in Sweepers, CloseGrave(s) PROVE TombInv'
    BY <1>29 DEF CloseGrave, Phase, Empty, NoStamp, callVars, TypeInv, TypeOK, SweepTypeOK,
       FsTypeOK, ShareInv, BlobInv, TombInv, CandInv, Is
  <1>30. ASSUME NEW s \in Sweepers, RemoveStamp(s) PROVE TombInv'
    BY <1>30 DEF RemoveStamp, Done, NoStamp, callVars, TypeInv, TypeOK, SweepTypeOK,
       FsTypeOK, ShareInv, BlobInv, TombInv, CandInv, Is
  <1>31. ASSUME NEW s \in Sweepers, ListBlobs(s) PROVE TombInv'
    BY <1>31 DEF ListBlobs, Phase, fsVars, callVars, TypeInv, TypeOK, SweepTypeOK, FsTypeOK,
       ShareInv, BlobInv, TombInv, CandInv, Is
  <1>32. ASSUME NEW s \in Sweepers, TakeBlob(s) PROVE TombInv'
    <2>1. CASE Done(s, "blobs") /\ UNCHANGED tomb
      BY <2>1 DEF Done, TypeInv, TypeOK, SweepTypeOK, ShareInv, TombInv
    <2>2. CASE /\ blob[cand[s]] # Nil
               /\ tomb' = [tomb EXCEPT ![s] = blob[cand[s]]]
               /\ swp' = [swp EXCEPT ![s] = "restating"]
               /\ UNCHANGED cand
      <3>1. tomb'[s] = blob[cand[s]]
        BY <2>2 DEF TypeInv, TypeOK, FsTypeOK
      <3>2. \A x \in Sweepers : x # s => tomb'[x] = tomb[x] /\ swp'[x] = swp[x]
        BY <2>2 DEF TypeInv, TypeOK, FsTypeOK, SweepTypeOK
      <3>3. \A f \in Files : BlobKey(f) = cand[s] => Is(blob[cand[s]], f)
        BY <2>2 DEF ShareInv, BlobInv
      <3> QED
        BY <2>2, <3>1, <3>2, <3>3 DEF ShareInv, TombInv
    <2> QED
      BY <1>32, <2>1, <2>2 DEF TakeBlob
  <1>33. ASSUME NEW s \in Sweepers, RestatBlob(s) PROVE TombInv'
    BY <1>33 DEF RestatBlob, fsVars, callVars, TypeInv, TypeOK, SweepTypeOK, FsTypeOK,
       ShareInv, BlobInv, TombInv, CandInv, Is
  <1>34. ASSUME NEW s \in Sweepers, RestoreBlob(s) PROVE TombInv'
    BY <1>34 DEF RestoreBlob, callVars, TypeInv, TypeOK, SweepTypeOK, FsTypeOK, ShareInv,
       BlobInv, TombInv, CandInv, Is
  <1>35. ASSUME NEW s \in Sweepers, UnlinkTomb(s) PROVE TombInv'
    BY <1>35 DEF UnlinkTomb, Done, callVars, TypeInv, TypeOK, SweepTypeOK, FsTypeOK,
       ShareInv, BlobInv, TombInv, CandInv, Is
  <1>36. ASSUME NEW s \in Sweepers, SweepEnds(s) PROVE TombInv'
    BY <1>36 DEF SweepEnds, Phase, fsVars, callVars, TypeInv, TypeOK, SweepTypeOK, FsTypeOK,
       ShareInv, BlobInv, TombInv, CandInv, Is
  <1>37. ASSUME NEW s \in Sweepers, NEW t \in Trees, ReadStamp(s, t) PROVE TombInv'
    BY <1>37 DEF ReadStamp, RecordUse, Visited, Takes, NoStamp, callVars, TypeInv, TypeOK,
       SweepTypeOK, FsTypeOK, ShareInv, BlobInv, TombInv, CandInv, Is
  <1>38. ASSUME NEW s \in Sweepers, NEW t \in Trees, CheckStamp(s, t) PROVE TombInv'
    BY <1>38 DEF CheckStamp, Visited, Takes, NoStamp, fsVars, callVars, TypeInv, TypeOK,
       SweepTypeOK, FsTypeOK, ShareInv, BlobInv, TombInv, CandInv, Is
  <1>39. ASSUME NEW s \in Sweepers, NEW k \in Keys, StatBlob(s, k) PROVE TombInv'
    <2>1. UNCHANGED tomb
      BY <1>39 DEF StatBlob, fsVars
    <2>2. CASE Visited(s, k)
      BY <2>1, <2>2 DEF Visited, ShareInv, TombInv
    <2>3. CASE Takes(s, k, "retiring")
      BY <2>1, <2>3 DEF Takes, TypeInv, TypeOK, SweepTypeOK, ShareInv, TombInv
    <2> QED
      BY <1>39, <2>2, <2>3 DEF StatBlob
  <1>40. CASE Tick
    BY <1>40 DEF Tick, fsVars, callVars, swpVars, TypeInv, TypeOK, SweepTypeOK, FsTypeOK,
       ShareInv, BlobInv, TombInv, CandInv, Is
  <1>41. CASE CooldownElapses
    BY <1>41 DEF CooldownElapses, fsVars, callVars, swpVars, TypeInv, TypeOK, SweepTypeOK,
       FsTypeOK, ShareInv, BlobInv, TombInv, CandInv, Is
  <1>42. CASE Crash
    BY <1>42 DEF Crash, fsVars, TypeInv, TypeOK, SweepTypeOK, FsTypeOK, ShareInv, BlobInv,
       TombInv, CandInv, Is
  <1>43. CASE UNCHANGED vars
    BY <1>43 DEF TypeInv, TypeOK, SweepTypeOK, FsTypeOK, ShareInv, BlobInv, TombInv,
       CandInv, Is, vars, fsVars, callVars, swpVars
  <1>44. ASSUME NEW r \in Requests, Fetch(r) PROVE TombInv'
    BY <1>44, <1>1, <1>2, <1>3, <1>4, <1>5, <1>6, <1>7, <1>8, <1>9, <1>10, <1>11, <1>12,
       <1>13, <1>14, <1>15, <1>16, <1>17, <1>18, <1>19, <1>20, <1>21, <1>22, <1>23, <1>24,
       <1>25, <1>26 DEF Fetch
  <1>45. ASSUME NEW s \in Sweepers, Sweep(s) PROVE TombInv'
    BY <1>45, <1>27, <1>28, <1>29, <1>30, <1>31, <1>32, <1>33, <1>34, <1>35, <1>36, <1>37,
       <1>38, <1>39 DEF Sweep
  <1> QED
    BY <1>40, <1>41, <1>42, <1>43, <1>44, <1>45 DEF Next

\* Only whole trees are published, and a tree leaves whole.
LEMMA WholeStep ==
  ASSUME TypeInv, ShareInv, TreeIsWhole, [Next]_vars
  PROVE  TreeIsWhole'
PROOF
  <1> USE StoreAssumption
  <1>1. ASSUME NEW r \in Requests, Open(r) PROVE TreeIsWhole'
    BY <1>1 DEF Open, Goto, Pin, fsVars, swpVars, TypeInv, TypeOK, CallTypeOK, FsTypeOK,
       ShareInv, StagedInv, Staging, TreeIsWhole, Is
  <1>2. ASSUME NEW r \in Requests, OpenHit(r) PROVE TreeIsWhole'
    BY <1>2 DEF OpenHit, Goto, fsVars, swpVars, TypeInv, TypeOK, CallTypeOK, FsTypeOK,
       ShareInv, StagedInv, Staging, TreeIsWhole, Is
  <1>3. ASSUME NEW r \in Requests, OpenMiss(r) PROVE TreeIsWhole'
    BY <1>3 DEF OpenMiss, Goto, Unpin, fsVars, swpVars, TypeInv, TypeOK, CallTypeOK,
       FsTypeOK, ShareInv, StagedInv, Staging, TreeIsWhole, Is
  <1>4. ASSUME NEW r \in Requests, StampHit(r) PROVE TreeIsWhole'
    BY <1>4 DEF StampHit, Goto, RecordUse, NoStamp, swpVars, TypeInv, TypeOK, CallTypeOK,
       FsTypeOK, ShareInv, StagedInv, Staging, TreeIsWhole, Is
  <1>5. ASSUME NEW r \in Requests, Drop(r) PROVE TreeIsWhole'
    BY <1>5 DEF Drop, Goto, Unpin, fsVars, swpVars, TypeInv, TypeOK, CallTypeOK, FsTypeOK,
       ShareInv, StagedInv, Staging, TreeIsWhole, Is
  <1>6. ASSUME NEW r \in Requests, FetchFails(r) PROVE TreeIsWhole'
    BY <1>6 DEF FetchFails, Goto, fsVars, swpVars, TypeInv, TypeOK, CallTypeOK, FsTypeOK,
       ShareInv, StagedInv, Staging, TreeIsWhole, Is
  <1>7. ASSUME NEW r \in Requests, Ingest(r) PROVE TreeIsWhole'
    BY <1>7 DEF Ingest, Goto, swpVars, TypeInv, TypeOK, CallTypeOK, FsTypeOK, ShareInv,
       StagedInv, Staging, TreeIsWhole, Is
  <1>8. ASSUME NEW r \in Requests, Commit(r) PROVE TreeIsWhole'
    BY <1>8 DEF Commit, Goto, Pin, fsVars, swpVars, TypeInv, TypeOK, CallTypeOK, FsTypeOK,
       ShareInv, StagedInv, Staging, TreeIsWhole, Is
  <1>9. ASSUME NEW r \in Requests, CommitFound(r) PROVE TreeIsWhole'
    BY <1>9 DEF CommitFound, Goto, Empty, swpVars, TypeInv, TypeOK, CallTypeOK, FsTypeOK,
       ShareInv, StagedInv, Staging, TreeIsWhole, Is
  <1>10. ASSUME NEW r \in Requests, CommitShares(r) PROVE TreeIsWhole'
    BY <1>10 DEF CommitShares, Goto, FilesOf, fsVars, swpVars, TypeInv, TypeOK, CallTypeOK,
       FsTypeOK, ShareInv, StagedInv, Staging, TreeIsWhole, Is
  <1>11. ASSUME NEW r \in Requests, CommitFails(r) PROVE TreeIsWhole'
    BY <1>11 DEF CommitFails, Goto, Unpin, Empty, swpVars, TypeInv, TypeOK, CallTypeOK,
       FsTypeOK, ShareInv, StagedInv, Staging, TreeIsWhole, Is
  <1>12. ASSUME NEW r \in Requests, LinkBlob(r) PROVE TreeIsWhole'
    BY <1>12 DEF LinkBlob, Goto, swpVars, TypeInv, TypeOK, CallTypeOK, FsTypeOK, ShareInv,
       StagedInv, Staging, TreeIsWhole, Is
  <1>13. ASSUME NEW r \in Requests, LinkRefused(r) PROVE TreeIsWhole'
    BY <1>13 DEF LinkRefused, Goto, NextFile, fsVars, swpVars, TypeInv, TypeOK, CallTypeOK,
       FsTypeOK, ShareInv, StagedInv, Staging, TreeIsWhole, Is
  <1>14. ASSUME NEW r \in Requests, Swap(r) PROVE TreeIsWhole'
    BY <1>14 DEF Swap, Goto, NextFile, swpVars, TypeInv, TypeOK, CallTypeOK, FsTypeOK,
       ShareInv, StagedInv, Staging, TreeIsWhole, Is
  <1>15. ASSUME NEW r \in Requests, SwapRefused(r) PROVE TreeIsWhole'
    BY <1>15 DEF SwapRefused, Goto, NextFile, swpVars, TypeInv, TypeOK, CallTypeOK,
       FsTypeOK, ShareInv, StagedInv, Staging, TreeIsWhole, Is
  <1>16. ASSUME NEW r \in Requests, LinkGone(r) PROVE TreeIsWhole'
    BY <1>16 DEF LinkGone, Goto, fsVars, swpVars, TypeInv, TypeOK, CallTypeOK, FsTypeOK,
       ShareInv, StagedInv, Staging, TreeIsWhole, Is
  <1>17. ASSUME NEW r \in Requests, Retry(r) PROVE TreeIsWhole'
    BY <1>17 DEF Retry, Goto, NextFile, swpVars, TypeInv, TypeOK, CallTypeOK, FsTypeOK,
       ShareInv, StagedInv, Staging, TreeIsWhole, Is
  <1>18. ASSUME NEW r \in Requests, Publish(r) PROVE TreeIsWhole'
    BY <1>18 DEF Publish, Goto, Empty, swpVars, TypeInv, TypeOK, CallTypeOK, FsTypeOK,
       ShareInv, StagedInv, Staging, TreeIsWhole, Is
  <1>19. ASSUME NEW r \in Requests, PublishLoses(r) PROVE TreeIsWhole'
    BY <1>19 DEF PublishLoses, Goto, Empty, swpVars, TypeInv, TypeOK, CallTypeOK, FsTypeOK,
       ShareInv, StagedInv, Staging, TreeIsWhole, Is
  <1>20. ASSUME NEW r \in Requests, LostFound(r) PROVE TreeIsWhole'
    BY <1>20 DEF LostFound, Goto, fsVars, swpVars, TypeInv, TypeOK, CallTypeOK, FsTypeOK,
       ShareInv, StagedInv, Staging, TreeIsWhole, Is
  <1>21. ASSUME NEW r \in Requests, LostError(r) PROVE TreeIsWhole'
    BY <1>21 DEF LostError, Goto, Unpin, fsVars, swpVars, TypeInv, TypeOK, CallTypeOK,
       FsTypeOK, ShareInv, StagedInv, Staging, TreeIsWhole, Is
  <1>22. ASSUME NEW r \in Requests, StampPublished(r) PROVE TreeIsWhole'
    BY <1>22 DEF StampPublished, Goto, RecordUse, NoStamp, swpVars, TypeInv, TypeOK,
       CallTypeOK, FsTypeOK, ShareInv, StagedInv, Staging, TreeIsWhole, Is
  <1>23. ASSUME NEW r \in Requests, Grown(r) PROVE TreeIsWhole'
    BY <1>23 DEF Grown, Goto, fsVars, TypeInv, TypeOK, CallTypeOK, FsTypeOK, ShareInv,
       StagedInv, Staging, TreeIsWhole, Is
  <1>24. ASSUME NEW r \in Requests, NEW f \in Files, ShareCreates(r, f) PROVE TreeIsWhole'
    BY <1>24 DEF ShareCreates, swpVars, TypeInv, TypeOK, CallTypeOK, FsTypeOK, ShareInv,
       StagedInv, Staging, TreeIsWhole, Is
  <1>25. ASSUME NEW r \in Requests, NEW f \in Files, ShareExists(r, f) PROVE TreeIsWhole'
    BY <1>25 DEF ShareExists, Goto, fsVars, swpVars, TypeInv, TypeOK, CallTypeOK, FsTypeOK,
       ShareInv, StagedInv, Staging, TreeIsWhole, Is
  <1>26. ASSUME NEW r \in Requests, NEW f \in Files, ShareRefused(r, f) PROVE TreeIsWhole'
    BY <1>26 DEF ShareRefused, fsVars, swpVars, TypeInv, TypeOK, CallTypeOK, FsTypeOK,
       ShareInv, StagedInv, Staging, TreeIsWhole, Is
  <1>27. ASSUME NEW s \in Sweepers, SweepBegins(s) PROVE TreeIsWhole'
    BY <1>27 DEF SweepBegins, Phase, fsVars, callVars, TypeInv, TypeOK, CallTypeOK,
       FsTypeOK, ShareInv, StagedInv, Staging, TreeIsWhole, Is
  <1>28. ASSUME NEW s \in Sweepers, Condemn(s) PROVE TreeIsWhole'
    BY <1>28 DEF Condemn, Done, Bury, callVars, TypeInv, TypeOK, CallTypeOK, FsTypeOK,
       ShareInv, StagedInv, Staging, TreeIsWhole, Is
  <1>29. ASSUME NEW s \in Sweepers, CloseGrave(s) PROVE TreeIsWhole'
    BY <1>29 DEF CloseGrave, Phase, Empty, NoStamp, callVars, TypeInv, TypeOK, CallTypeOK,
       FsTypeOK, ShareInv, StagedInv, Staging, TreeIsWhole, Is
  <1>30. ASSUME NEW s \in Sweepers, RemoveStamp(s) PROVE TreeIsWhole'
    BY <1>30 DEF RemoveStamp, Done, NoStamp, callVars, TypeInv, TypeOK, CallTypeOK,
       FsTypeOK, ShareInv, StagedInv, Staging, TreeIsWhole, Is
  <1>31. ASSUME NEW s \in Sweepers, ListBlobs(s) PROVE TreeIsWhole'
    BY <1>31 DEF ListBlobs, Phase, fsVars, callVars, TypeInv, TypeOK, CallTypeOK, FsTypeOK,
       ShareInv, StagedInv, Staging, TreeIsWhole, Is
  <1>32. ASSUME NEW s \in Sweepers, TakeBlob(s) PROVE TreeIsWhole'
    BY <1>32 DEF TakeBlob, Done, callVars, TypeInv, TypeOK, CallTypeOK, FsTypeOK, ShareInv,
       StagedInv, Staging, TreeIsWhole, Is
  <1>33. ASSUME NEW s \in Sweepers, RestatBlob(s) PROVE TreeIsWhole'
    BY <1>33 DEF RestatBlob, fsVars, callVars, TypeInv, TypeOK, CallTypeOK, FsTypeOK,
       ShareInv, StagedInv, Staging, TreeIsWhole, Is
  <1>34. ASSUME NEW s \in Sweepers, RestoreBlob(s) PROVE TreeIsWhole'
    BY <1>34 DEF RestoreBlob, callVars, TypeInv, TypeOK, CallTypeOK, FsTypeOK, ShareInv,
       StagedInv, Staging, TreeIsWhole, Is
  <1>35. ASSUME NEW s \in Sweepers, UnlinkTomb(s) PROVE TreeIsWhole'
    BY <1>35 DEF UnlinkTomb, Done, callVars, TypeInv, TypeOK, CallTypeOK, FsTypeOK,
       ShareInv, StagedInv, Staging, TreeIsWhole, Is
  <1>36. ASSUME NEW s \in Sweepers, SweepEnds(s) PROVE TreeIsWhole'
    BY <1>36 DEF SweepEnds, Phase, fsVars, callVars, TypeInv, TypeOK, CallTypeOK, FsTypeOK,
       ShareInv, StagedInv, Staging, TreeIsWhole, Is
  <1>37. ASSUME NEW s \in Sweepers, NEW t \in Trees, ReadStamp(s, t) PROVE TreeIsWhole'
    BY <1>37 DEF ReadStamp, RecordUse, Visited, Takes, NoStamp, callVars, TypeInv, TypeOK,
       CallTypeOK, FsTypeOK, ShareInv, StagedInv, Staging, TreeIsWhole, Is
  <1>38. ASSUME NEW s \in Sweepers, NEW t \in Trees, CheckStamp(s, t) PROVE TreeIsWhole'
    BY <1>38 DEF CheckStamp, Visited, Takes, NoStamp, fsVars, callVars, TypeInv, TypeOK,
       CallTypeOK, FsTypeOK, ShareInv, StagedInv, Staging, TreeIsWhole, Is
  <1>39. ASSUME NEW s \in Sweepers, NEW k \in Keys, StatBlob(s, k) PROVE TreeIsWhole'
    BY <1>39 DEF StatBlob, Visited, Takes, fsVars, callVars, TypeInv, TypeOK, CallTypeOK,
       FsTypeOK, ShareInv, StagedInv, Staging, TreeIsWhole, Is
  <1>40. CASE Tick
    BY <1>40 DEF Tick, fsVars, callVars, swpVars, TypeInv, TypeOK, CallTypeOK, FsTypeOK,
       ShareInv, StagedInv, Staging, TreeIsWhole, Is
  <1>41. CASE CooldownElapses
    BY <1>41 DEF CooldownElapses, fsVars, callVars, swpVars, TypeInv, TypeOK, CallTypeOK,
       FsTypeOK, ShareInv, StagedInv, Staging, TreeIsWhole, Is
  <1>42. CASE Crash
    BY <1>42 DEF Crash, fsVars, TypeInv, TypeOK, CallTypeOK, FsTypeOK, ShareInv, StagedInv,
       Staging, TreeIsWhole, Is
  <1>43. CASE UNCHANGED vars
    BY <1>43 DEF TypeInv, TypeOK, CallTypeOK, FsTypeOK, ShareInv, StagedInv, Staging,
       TreeIsWhole, Is, vars, fsVars, callVars, swpVars
  <1>44. ASSUME NEW r \in Requests, Fetch(r) PROVE TreeIsWhole'
    BY <1>44, <1>1, <1>2, <1>3, <1>4, <1>5, <1>6, <1>7, <1>8, <1>9, <1>10, <1>11, <1>12,
       <1>13, <1>14, <1>15, <1>16, <1>17, <1>18, <1>19, <1>20, <1>21, <1>22, <1>23, <1>24,
       <1>25, <1>26 DEF Fetch
  <1>45. ASSUME NEW s \in Sweepers, Sweep(s) PROVE TreeIsWhole'
    BY <1>45, <1>27, <1>28, <1>29, <1>30, <1>31, <1>32, <1>33, <1>34, <1>35, <1>36, <1>37,
       <1>38, <1>39 DEF Sweep
  <1> QED
    BY <1>40, <1>41, <1>42, <1>43, <1>44, <1>45 DEF Next


LEMMA AloneStep ==
  ASSUME alone \in [Sweepers -> BOOLEAN], [Next]_vars
  PROVE  alone' \in [Sweepers -> BOOLEAN]
BY DEF Next, vars

----------------------------------------------------------------------------
(* The pin table keeps nothing.                                            *)

\* A fetch that keeps its pin goes on needing it, or pins, or unpins.
LEMMA ReleaseCases ==
  ASSUME TypeInv, ReleaseInv, NEW r \in Requests, NEW pc,
         \/ UNCHANGED pins /\ \A q \in Requests : call[q] \in Pinning => call'[q] \in Pinning
         \/ Pin(r) /\ Goto(r, pc) /\ pc \in Pinning
         \/ Unpin(r) /\ Goto(r, pc)
  PROVE  ReleaseInv'
PROOF
  <1> USE StoreAssumption DEF TypeInv, TypeOK, CallTypeOK, ReleaseInv
  <1>1. CASE UNCHANGED pins /\ \A q \in Requests : call[q] \in Pinning => call'[q] \in Pinning
    BY <1>1
  <1>2. CASE Pin(r) /\ Goto(r, pc) /\ pc \in Pinning
    BY <1>2 DEF Pin, Goto
  <1>3. CASE Unpin(r) /\ Goto(r, pc)
    <2>1. ASSUME NEW t \in Trees, NEW q \in pins'[t] PROVE q \in pins[t] /\ q # r /\ call'[q] = call[q]
      BY <1>3 DEF Unpin, Goto
    <2> QED
      BY <2>1
  <1> QED
    BY <1>1, <1>2, <1>3

LEMMA ReleaseStep ==
  ASSUME TypeInv, ReleaseInv, [Next]_vars
  PROVE  ReleaseInv'
PROOF
  <1>1. ASSUME NEW r \in Requests, Open(r) \/ Commit(r) PROVE ReleaseInv'
    BY <1>1, ReleaseCases DEF Open, Commit, Pinning
  <1>2. ASSUME NEW r \in Requests, OpenMiss(r) \/ Drop(r) \/ CommitFails(r) \/ LostError(r) PROVE ReleaseInv'
    BY <1>2, ReleaseCases DEF OpenMiss, Drop, CommitFails, LostError
  <1>3. ASSUME NEW r \in Requests,
               \/ FetchFails(r) \/ Ingest(r)
               \/ OpenHit(r) \/ StampHit(r) \/ CommitFound(r) \/ CommitShares(r) \/ Publish(r) \/ PublishLoses(r)
               \/ LinkBlob(r) \/ LinkRefused(r) \/ Swap(r) \/ SwapRefused(r) \/ LinkGone(r) \/ Retry(r)
               \/ LostFound(r) \/ StampPublished(r) \/ Grown(r)
               \/ \E f \in Files : ShareCreates(r, f) \/ ShareExists(r, f) \/ ShareRefused(r, f)
        PROVE  ReleaseInv'
    <2>1. UNCHANGED pins
      BY <1>3 DEF FetchFails, Ingest, OpenHit, StampHit, CommitFound, CommitShares, Publish, PublishLoses, LinkBlob,
         LinkRefused, Swap, SwapRefused, LinkGone, Retry, LostFound, StampPublished, Grown, ShareCreates,
         ShareExists, ShareRefused
    <2>2. \/ UNCHANGED call
          \/ \E pc \in Pinning : Goto(r, pc)
          \/ call[r] = "fetching" /\ \E pc \in CallStates : Goto(r, pc)
      BY <1>3 DEF FetchFails, Ingest, OpenHit, StampHit, CommitFound, CommitShares, Publish, PublishLoses, LinkBlob,
         LinkRefused, Swap, SwapRefused, LinkGone, Retry, LostFound, StampPublished, Grown, ShareCreates,
         ShareExists, ShareRefused, NextFile, Pinning, CallStates
    <2>3. \A q \in Requests : call[q] \in Pinning => call'[q] \in Pinning
      BY <2>2 DEF Goto, TypeInv, TypeOK, CallTypeOK, Pinning
    <2> QED
      BY <2>1, <2>3, ReleaseCases
  <1>4. ASSUME NEW s \in Sweepers, Sweep(s) PROVE UNCHANGED <<pins, call>>
    BY <1>4 DEF Sweep, SweepBegins, Condemn, CloseGrave, ReadStamp, CheckStamp, RemoveStamp, ListBlobs, StatBlob,
       TakeBlob, RestatBlob, RestoreBlob, UnlinkTomb, SweepEnds, callVars
  <1>5. ASSUME Tick \/ CooldownElapses \/ UNCHANGED vars PROVE UNCHANGED <<pins, call>>
    BY <1>5 DEF Tick, CooldownElapses, vars, callVars
  <1>6. ASSUME UNCHANGED <<pins, call>> PROVE ReleaseInv'
    BY <1>6 DEF ReleaseInv
  <1>7. ASSUME Crash PROVE ReleaseInv'
    BY <1>7 DEF Crash, ReleaseInv
  <1> QED
    BY <1>1, <1>2, <1>3, <1>4, <1>5, <1>6, <1>7 DEF Next, Fetch

----------------------------------------------------------------------------
(* A sweep that nobody disturbs.                                           *)

LEMMA ScratchStep ==
  ASSUME TypeInv, ScratchInv, [Next]_vars
  PROVE  ScratchInv'
PROOF
  <1> USE DEF TypeInv, TypeOK, FsTypeOK, SweepTypeOK, ScratchInv, HasTomb
  <1>1. ASSUME NEW r \in Requests, Fetch(r) PROVE UNCHANGED <<tomb, at, clock>>
    BY <1>1 DEF Fetch, Open, OpenHit, OpenMiss, StampHit, Drop, FetchFails, Ingest, Commit, CommitFound,
       CommitShares, CommitFails, ShareCreates, ShareExists, ShareRefused, LinkBlob, LinkRefused, Swap, SwapRefused,
       LinkGone, Retry, Publish, PublishLoses, LostFound, LostError, StampPublished, Grown, fsVars, swpVars
  <1>2. ASSUME NEW r \in Requests, Fetch(r), ~Grown(r) PROVE UNCHANGED swp
    BY <1>2 DEF Fetch, Open, OpenHit, OpenMiss, StampHit, Drop, FetchFails, Ingest, Commit, CommitFound,
       CommitShares, CommitFails, ShareCreates, ShareExists, ShareRefused, LinkBlob, LinkRefused, Swap, SwapRefused,
       LinkGone, Retry, Publish, PublishLoses, LostFound, LostError, StampPublished, swpVars
  <1>3. ASSUME NEW r \in Requests, Fetch(r) PROVE ScratchInv'
    <2>1. CASE Grown(r)
      <3>1. \A x \in Sweepers : swp'[x] = swp[x] \/ swp[x] = "off"
        BY <2>1 DEF Grown
      <3> QED
        BY <1>1, <1>3, <3>1
    <2> QED
      BY <1>1, <1>2, <1>3, <2>1
  <1>4. ASSUME NEW s \in Sweepers, SweepBegins(s) PROVE ScratchInv'
    BY <1>4 DEF SweepBegins, Phase, fsVars
  <1>5. ASSUME NEW s \in Sweepers, Condemn(s) \/ RemoveStamp(s) PROVE ScratchInv'
    BY <1>5 DEF Condemn, Done, RemoveStamp
  <1>6. ASSUME NEW s \in Sweepers, CloseGrave(s) \/ ListBlobs(s) \/ SweepEnds(s) PROVE ScratchInv'
    BY <1>6 DEF CloseGrave, ListBlobs, SweepEnds, Phase, fsVars
  <1>7. ASSUME NEW s \in Sweepers, NEW t \in Trees, ReadStamp(s, t) \/ CheckStamp(s, t) PROVE ScratchInv'
    BY <1>7 DEF ReadStamp, CheckStamp, Visited, Takes, fsVars
  <1>8. ASSUME NEW s \in Sweepers, NEW k \in Keys, StatBlob(s, k) PROVE ScratchInv'
    BY <1>8 DEF StatBlob, Visited, Takes, fsVars
  <1>9. ASSUME NEW s \in Sweepers, TakeBlob(s) PROVE ScratchInv'
    BY <1>9 DEF TakeBlob, Done
  <1>10. ASSUME NEW s \in Sweepers, RestatBlob(s) \/ RestoreBlob(s) \/ UnlinkTomb(s) PROVE ScratchInv'
    BY <1>10 DEF RestatBlob, RestoreBlob, UnlinkTomb, Done, fsVars
  <1>11. ASSUME Tick \/ CooldownElapses \/ Crash \/ UNCHANGED vars PROVE ScratchInv'
    BY <1>11 DEF Tick, CooldownElapses, Crash, vars, fsVars, swpVars
  <1> QED
    BY <1>3, <1>4, <1>5, <1>6, <1>7, <1>8, <1>9, <1>10, <1>11 DEF Next, Sweep

\* An inode is the blob of one key at most.
LEMMA OneKey ==
  ASSUME BlobInv, NEW k \in Keys, NEW l \in Keys, blob[k] # Nil, blob[l] = blob[k]
  PROVE  l = k
PROOF
  <1>1. PICK f \in Files : k = BlobKey(f)
    BY DEF Keys
  <1>2. PICK g \in Files : l = BlobKey(g)
    BY DEF Keys
  <1>3. Is(blob[k], f) /\ Is(blob[k], g)
    BY <1>1, <1>2 DEF BlobInv
  <1> QED
    BY <1>1, <1>2, <1>3 DEF Is, BlobKey

\* With the blob, or with the scratch name, as its one name in the store an inode that
\* has more is named in a tree, in staging or by somebody else.
LEMMA LinkedElsewhere ==
  ASSUME NEW s \in Sweepers, NEW i, i # Nil, Nlink(i) > 1, grave[s] = Empty,
         \/ tomb[s] = Nil /\ \E k \in Keys : {x \in Keys : blob[x] = i} = {k}
         \/ tomb[s] = i /\ {x \in Keys : blob[x] = i} = {}
  PROVE  NamedBeside(s, i)
PROOF
  <1> SUFFICES ASSUME ~NamedBeside(s, i) PROVE FALSE
    OBVIOUS
  <1> DEFINE B == {k \in Keys : blob[k] = i}
             E == {f \in Files : entry[f] = i}
             S == {x \in Requests \X Files : staged[x[1]][x[2]] = i}
             L == {r \in Requests : link[r] = i}
             G == {x \in Sweepers \X Files : grave[x[1]][x[2]] = i}
             T == {x \in Sweepers : tomb[x] = i}
  <1>1. E = {} /\ L = {}
    BY DEF NamedBeside
  <1>2. S = {}
    BY DEF NamedBeside
  <1>3. G = {}
    BY DEF NamedBeside, Empty
  <1>4. \/ T = {} /\ \E k \in Keys : B = {k}
        \/ T = {s} /\ B = {}
    BY DEF NamedBeside
  <1>5. Cardinality(B) + Cardinality(E) + Cardinality(S) + Cardinality(L) + Cardinality(G) + Cardinality(T) > 1
    BY DEF Nlink
  <1> HIDE DEF B, E, S, L, G, T
  <1>6. Cardinality({}) = 0 /\ \A x : Cardinality({x}) = 1
    BY FS_EmptySet, FS_Singleton, Zenon
  <1>7. \/ Cardinality(B) = 1 /\ Cardinality(T) = 0
        \/ Cardinality(B) = 0 /\ Cardinality(T) = 1
    BY <1>4, <1>6, ZenonT(20)
  <1>8. Cardinality(E) = 0 /\ Cardinality(S) = 0 /\ Cardinality(L) = 0 /\ Cardinality(G) = 0
    BY <1>1, <1>2, <1>3, <1>6
  <1>9. Cardinality(B) + 0 + 0 + 0 + 0 + Cardinality(T) > 1
    BY <1>5, <1>8
  <1> QED
    BY <1>7, <1>9

\* Names outside the blobs and the sweep's own scratch are untouched by its last phase.
LEMMA NamedStays ==
  ASSUME NEW s \in Sweepers, NEW i, UNCHANGED <<entry, link, staged, grave>>,
         \A x \in Sweepers \ {s} : tomb'[x] = tomb[x], NamedBeside(s, i)
  PROVE  NamedBeside(s, i)'
BY DEF NamedBeside

\* What a sweep by itself has done of each phase.
LEMMA BeginsTidy ==
  ASSUME TypeInv, NEW s \in Sweepers, SweepBegins(s)
  PROVE  Tidy(s)'
BY DEF TypeInv, TypeOK, SweepTypeOK, SweepBegins, Phase, Tidy, TreesDone, AllKept, GraveClosed, StampsDone,
   NoneStamped, BlobsDone, TombDone, AllNamed, TreePhase, StampPhase, BlobPhase, fsVars

LEMMA ReadStampTidy ==
  ASSUME TypeInv, ScratchInv, Retention > 0, ~IoFails, NEW s \in Sweepers, NEW t \in Trees, ReadStamp(s, t), Tidy(s)
  PROVE  Tidy(s)'
PROOF
  <1> USE StoreAssumption
  <1>1. swp[s] = "trees" /\ swp'[s] \in TreePhase
    BY DEF ReadStamp, Visited, Takes, TypeInv, TypeOK, SweepTypeOK, TreePhase
  <1>2. UNCHANGED <<trees, listed, at, pins>>
    BY DEF ReadStamp, Visited, Takes
  <1>3. /\ \A u \in Trees : u # t => stamp'[u] = stamp[u]
        /\ at[s] \in Nat /\ clock \in Nat /\ at[s] <= clock
    BY DEF ReadStamp, RecordUse, TypeInv, TypeOK, FsTypeOK, SweepTypeOK, ScratchInv
  <1>4. t \in seen'[s] => at[s] < stamp'[t] + Retention \/ t \in seen[s]
    <2>1. CASE stamp[t] = NoStamp /\ RecordUse(t)
      <3>1. stamp'[t] = clock
        BY <2>1 DEF RecordUse, TypeInv, TypeOK, FsTypeOK
      <3> QED
        BY <1>3, <3>1
    <2>2. CASE stamp[t] # NoStamp /\ at[s] < stamp[t] + Retention /\ UNCHANGED stamp
      BY <2>2
    <2>3. CASE UNCHANGED stamp /\ Takes(s, t, "condemning")
      BY <2>3 DEF Takes
    <2> QED
      BY <2>1, <2>2, <2>3 DEF ReadStamp
  <1>5. seen'[s] \subseteq seen[s] \cup {t} /\ t \notin seen[s]
    BY DEF ReadStamp, Visited, Takes, TypeInv, TypeOK, SweepTypeOK
  <1>6. trees \subseteq Trees /\ trees \subseteq listed[s] /\ \A u \in trees \cap seen[s] : Kept(s, u)
    BY <1>1 DEF Tidy, TreesDone, TreePhase, TypeInv, TypeOK, FsTypeOK
  <1>7. \A u \in trees' \cap seen'[s] : Kept(s, u)'
    BY <1>2, <1>3, <1>4, <1>5, <1>6 DEF Kept
  <1> QED
    BY <1>1, <1>2, <1>6, <1>7 DEF Tidy, TreesDone, AllKept, GraveClosed, StampsDone, NoneStamped, BlobsDone, TombDone,
       AllNamed, TreePhase, StampPhase, BlobPhase

LEMMA CondemnTidy ==
  ASSUME TypeInv, ~IoFails, NEW s \in Sweepers, Condemn(s), Tidy(s)
  PROVE  Tidy(s)'
PROOF
  <1>1. swp[s] = "condemning" /\ swp'[s] = "trees" /\ seen'[s] = seen[s] \cup {cand[s]}
    BY DEF Condemn, Done, TypeInv, TypeOK, SweepTypeOK
  <1>2. UNCHANGED <<listed, at, pins, stamp>>
    BY DEF Condemn, Done
  <1>3. trees' \subseteq trees /\ (cand[s] \in trees' => pins[cand[s]] # {})
    BY DEF Condemn, Bury
  <1>4. trees \subseteq listed[s] /\ \A u \in trees \cap seen[s] : Kept(s, u)
    BY <1>1 DEF Tidy, TreesDone, TreePhase
  <1>5. \A u \in trees' \cap seen'[s] : Kept(s, u)'
    BY <1>1, <1>2, <1>3, <1>4 DEF Kept
  <1> QED
    BY <1>1, <1>2, <1>3, <1>4, <1>5 DEF Tidy, TreesDone, AllKept, GraveClosed, StampsDone, NoneStamped, BlobsDone,
       TombDone, AllNamed, TreePhase, StampPhase, BlobPhase

LEMMA CloseGraveTidy ==
  ASSUME TypeInv, ~IoFails, NEW s \in Sweepers, CloseGrave(s), Tidy(s)
  PROVE  Tidy(s)'
PROOF
  <1>1. swp[s] = "trees" /\ swp'[s] = "stamps" /\ seen'[s] = {} /\ grave'[s] = Empty
    BY DEF CloseGrave, Phase, TypeInv, TypeOK, SweepTypeOK, FsTypeOK
  <1>2. UNCHANGED <<trees, at, pins, stamp>> /\ listed'[s] = {t \in Trees : stamp[t] # NoStamp}
    BY DEF CloseGrave, Phase, TypeInv, TypeOK, SweepTypeOK
  <1>3. \A t \in trees : Kept(s, t)
    BY <1>1 DEF CloseGrave, PhaseOver, Tidy, TreesDone, TreePhase
  <1>4. AllKept(s)'
    BY <1>2, <1>3 DEF AllKept, Kept
  <1>5. StampsDone(s)'
    BY <1>1, <1>2 DEF StampsDone, NoStamp
  <1>6. GraveClosed(s)'
    BY <1>1 DEF GraveClosed, Empty
  <1> QED
    BY <1>1, <1>4, <1>5, <1>6 DEF Tidy, TreesDone, NoneStamped, BlobsDone, TombDone, AllNamed, TreePhase, StampPhase,
       BlobPhase

LEMMA CheckStampTidy ==
  ASSUME TypeInv, NEW s \in Sweepers, NEW t \in Trees, CheckStamp(s, t), Tidy(s)
  PROVE  Tidy(s)'
PROOF
  <1>1. swp[s] = "stamps" /\ swp'[s] \in StampPhase
    BY DEF CheckStamp, Visited, Takes, TypeInv, TypeOK, SweepTypeOK, StampPhase
  <1>2. UNCHANGED <<trees, listed, at, pins, stamp, grave>>
    BY DEF CheckStamp, Visited, Takes, fsVars
  <1>3. \A u \in seen'[s] : u \in seen[s] \/ u \in trees
    BY DEF CheckStamp, Visited, Takes, TypeInv, TypeOK, SweepTypeOK
  <1>4. AllKept(s)' /\ GraveClosed(s)'
    BY <1>1, <1>2 DEF Tidy, AllKept, Kept, GraveClosed, StampPhase
  <1>5. StampsDone(s)'
    BY <1>1, <1>2, <1>3 DEF Tidy, StampsDone, NoStamp, StampPhase
  <1> QED
    BY <1>1, <1>4, <1>5 DEF Tidy, TreesDone, NoneStamped, BlobsDone, TombDone, AllNamed, TreePhase, StampPhase,
       BlobPhase

LEMMA RemoveStampTidy ==
  ASSUME TypeInv, ~IoFails, NEW s \in Sweepers, RemoveStamp(s), Tidy(s)
  PROVE  Tidy(s)'
PROOF
  <1>1. swp[s] = "unstamping" /\ swp'[s] = "stamps" /\ seen'[s] = seen[s] \cup {cand[s]}
    BY DEF RemoveStamp, Done, TypeInv, TypeOK, SweepTypeOK
  <1>2. UNCHANGED <<trees, listed, at, pins, grave>>
    BY DEF RemoveStamp, Done
  <1>3. cand[s] \in Trees /\ stamp' = [stamp EXCEPT ![cand[s]] = NoStamp]
    BY <1>1 DEF RemoveStamp, TypeInv, CandInv
  <1>4. \A t \in Trees : IF t = cand[s] THEN stamp'[t] = NoStamp ELSE stamp'[t] = stamp[t]
    BY <1>3 DEF TypeInv, TypeOK, FsTypeOK
  <1>5. NoStamp' = NoStamp /\ at[s] < NoStamp + Retention
    BY StoreAssumption DEF NoStamp, TypeInv, TypeOK, SweepTypeOK
  <1>6. trees \subseteq Trees /\ \A t \in trees : Kept(s, t)
    BY <1>1 DEF Tidy, AllKept, StampPhase, TypeInv, TypeOK, FsTypeOK
  <1>7. \A t \in trees : Kept(s, t)'
    <2>1. ASSUME NEW t \in trees, t = cand[s] PROVE Kept(s, t)'
      <3>1. stamp'[t] = NoStamp /\ at'[s] = at[s]
        BY <1>2, <1>4, <1>6, <2>1
      <3> QED
        BY <1>5, <3>1 DEF Kept
    <2>2. ASSUME NEW t \in trees, t # cand[s] PROVE Kept(s, t)'
      <3>1. stamp'[t] = stamp[t] /\ at'[s] = at[s] /\ pins'[t] = pins[t]
        BY <1>2, <1>4, <1>6, <2>2
      <3> QED
        BY <1>6, <3>1 DEF Kept
    <2> QED
      BY <2>1, <2>2
  <1>8. StampsDone(s)'
    BY <1>1, <1>2, <1>4, <1>5 DEF Tidy, StampsDone, StampPhase
  <1>9. GraveClosed(s)' /\ AllKept(s)'
    BY <1>1, <1>2, <1>7 DEF Tidy, GraveClosed, AllKept, StampPhase
  <1> QED
    BY <1>1, <1>8, <1>9 DEF Tidy, TreesDone, NoneStamped, BlobsDone, TombDone, AllNamed, TreePhase, StampPhase,
       BlobPhase

LEMMA ListBlobsTidy ==
  ASSUME TypeInv, ~IoFails, NEW s \in Sweepers, ListBlobs(s), Tidy(s)
  PROVE  Tidy(s)'
PROOF
  <1>1. swp[s] = "stamps" /\ swp'[s] = "blobs" /\ seen'[s] = {} /\ listed'[s] = {k \in Keys : blob[k] # Nil}
    BY DEF ListBlobs, Phase, TypeInv, TypeOK, SweepTypeOK
  <1>2. UNCHANGED <<trees, at, pins, stamp, grave, blob>>
    BY DEF ListBlobs, fsVars
  <1>3. NoneStamped(s)'
    BY <1>1, <1>2 DEF ListBlobs, PhaseOver, Tidy, StampsDone, NoneStamped, NoStamp, StampPhase
  <1>4. AllKept(s)' /\ GraveClosed(s)'
    BY <1>1, <1>2 DEF Tidy, AllKept, Kept, GraveClosed, StampPhase, BlobPhase
  <1>5. BlobsDone(s)'
    BY <1>1, <1>2 DEF BlobsDone
  <1> QED
    BY <1>1, <1>3, <1>4, <1>5 DEF Tidy, TreesDone, StampsDone, TombDone, AllNamed, TreePhase, StampPhase, BlobPhase

\* The steps of the last phase say nothing new of trees and stamps.
LEMMA BlobPhaseTidy ==
  ASSUME NEW s \in Sweepers, Tidy(s), swp[s] \in BlobPhase, swp'[s] \in BlobPhase,
         UNCHANGED <<trees, at, pins, stamp, grave>>, BlobsDone(s)', TombDone(s)'
  PROVE  Tidy(s)'
PROOF
  <1>1. AllKept(s)' /\ GraveClosed(s)' /\ NoneStamped(s)'
    BY DEF Tidy, AllKept, Kept, GraveClosed, NoneStamped, NoStamp
  <1> QED
    BY <1>1 DEF Tidy, TreesDone, StampsDone, AllNamed, TreePhase, StampPhase, BlobPhase

LEMMA StatBlobTidy ==
  ASSUME TypeInv, ShareInv, ScratchInv, NEW s \in Sweepers, NEW k \in Keys, StatBlob(s, k), Tidy(s)
  PROVE  Tidy(s)'
PROOF
  <1>1. swp[s] = "blobs" /\ swp'[s] \in {"blobs", "retiring"}
    BY DEF StatBlob, Visited, Takes, TypeInv, TypeOK, SweepTypeOK
  <1>2. UNCHANGED fsVars /\ UNCHANGED <<pins, listed, at>>
    BY DEF StatBlob, Visited, Takes
  <1>3. \A l \in seen'[s] : l \in seen[s] \/ (l = k /\ (blob[k] = Nil \/ Nlink(blob[k]) > 1))
    BY DEF StatBlob, Visited, Takes, TypeInv, TypeOK, SweepTypeOK
  <1>4. blob[k] # Nil /\ Nlink(blob[k]) > 1 => NamedBeside(s, blob[k])
    <2>1. ASSUME blob[k] # Nil PROVE {x \in Keys : blob[x] = blob[k]} = {k}
      BY <2>1, OneKey DEF ShareInv
    <2>2. tomb[s] = Nil /\ grave[s] = Empty
      BY <1>1 DEF ScratchInv, HasTomb, Tidy, GraveClosed, BlobPhase
    <2> QED
      BY <2>1, <2>2, LinkedElsewhere
  <1>5. BlobsDone(s)'
    BY <1>1, <1>2, <1>3, <1>4 DEF Tidy, BlobsDone, NamedBeside, BlobPhase, fsVars
  <1>6. TombDone(s)'
    BY <1>1 DEF TombDone
  <1> QED
    BY <1>1, <1>2, <1>5, <1>6, BlobPhaseTidy DEF BlobPhase, fsVars

LEMMA TakeBlobTidy ==
  ASSUME TypeInv, ~IoFails, NEW s \in Sweepers, TakeBlob(s), Tidy(s)
  PROVE  Tidy(s)'
PROOF
  <1>1. swp[s] = "retiring" /\ swp'[s] \in {"blobs", "restating"} /\ cand[s] \in Keys
    BY DEF TakeBlob, Done, TypeInv, TypeOK, SweepTypeOK, CandInv
  <1>2. UNCHANGED <<trees, at, pins, stamp, grave, listed, entry, link, staged>>
    BY DEF TakeBlob, Done
  <1>3. \A x \in Sweepers \ {s} : tomb'[x] = tomb[x]
    BY DEF TakeBlob, TypeInv, TypeOK, FsTypeOK
  <1>4. \A k \in Keys : k # cand[s] => blob'[k] = blob[k]
    BY DEF TakeBlob, TypeInv, TypeOK, FsTypeOK
  <1>5. blob'[cand[s]] = Nil
    BY <1>1 DEF TakeBlob, TypeInv, TypeOK, FsTypeOK
  <1>6. \A k \in seen'[s] : k \in seen[s] \/ k = cand[s]
    BY DEF TakeBlob, Done, TypeInv, TypeOK, SweepTypeOK
  <1>7. BlobsDone(s)'
    <2>1. ASSUME NEW k \in Keys, blob'[k] # Nil PROVE k \in listed'[s] \ seen'[s] \/ NamedBeside(s, blob[k])'
      <3>1. k # cand[s] /\ blob'[k] = blob[k] /\ (k \in listed[s] \ seen[s] \/ NamedBeside(s, blob[k]))
        BY <1>1, <1>4, <1>5, <2>1 DEF Tidy, BlobsDone, BlobPhase
      <3>2. NamedBeside(s, blob[k]) => NamedBeside(s, blob[k])'
        BY <1>2, <1>3, <3>1 DEF NamedBeside
      <3> QED
        BY <1>2, <1>6, <3>1, <3>2
    <2> QED
      BY <2>1 DEF BlobsDone
  <1>8. TombDone(s)'
    <2>1. CASE swp'[s] = "blobs"
      BY <2>1 DEF TombDone
    <2>2. CASE swp'[s] = "restating"
      <3>1. cand'[s] = cand[s]
        BY <2>2 DEF TakeBlob, Done, TypeInv, TypeOK, SweepTypeOK
      <3> QED
        BY <1>5, <2>2, <3>1 DEF TombDone
    <2> QED
      BY <1>1, <2>1, <2>2
  <1> QED
    BY <1>1, <1>2, <1>7, <1>8, BlobPhaseTidy DEF BlobPhase

LEMMA RestatBlobTidy ==
  ASSUME TypeInv, ShareInv, NEW s \in Sweepers, RestatBlob(s), Tidy(s)
  PROVE  Tidy(s)'
PROOF
  <1>1. /\ swp[s] = "restating" /\ cand[s] \in Keys
        /\ swp'[s] = IF Nlink(tomb[s]) > 1 THEN "restoring" ELSE "unlinking"
    BY DEF RestatBlob, TypeInv, TypeOK, SweepTypeOK, CandInv
  <1>2. UNCHANGED fsVars /\ UNCHANGED <<pins, listed, seen, at, cand>>
    BY DEF RestatBlob
  <1>3. blob[cand[s]] = Nil /\ grave[s] = Empty
    BY <1>1 DEF Tidy, TombDone, GraveClosed, BlobPhase
  <1>4. PICK f \in Files : cand[s] = BlobKey(f)
    BY <1>1 DEF Keys
  <1>5. Is(tomb[s], f) /\ tomb[s] # Nil
    BY <1>1, <1>4, StoreAssumption DEF ShareInv, TombInv, Is, Inodes
  <1>6. {x \in Keys : blob[x] = tomb[s]} = {}
    <2>1. ASSUME NEW x \in Keys, blob[x] = tomb[s] PROVE FALSE
      <3>1. PICK g \in Files : x = BlobKey(g)
        BY DEF Keys
      <3>2. Is(tomb[s], g)
        BY <1>5, <2>1, <3>1 DEF ShareInv, BlobInv
      <3>3. x = cand[s]
        BY <1>4, <1>5, <3>1, <3>2 DEF Is, BlobKey
      <3> QED
        BY <1>3, <1>5, <2>1, <3>3
    <2> QED
      BY <2>1
  <1>7. Nlink(tomb[s]) > 1 => NamedBeside(s, tomb[s])
    BY <1>3, <1>5, <1>6, LinkedElsewhere
  <1>8. TombDone(s)'
    BY <1>1, <1>2, <1>3, <1>7 DEF TombDone, NamedBeside, fsVars
  <1>9. BlobsDone(s)'
    BY <1>1, <1>2 DEF Tidy, BlobsDone, NamedBeside, BlobPhase, fsVars
  <1> QED
    BY <1>1, <1>2, <1>8, <1>9, BlobPhaseTidy DEF BlobPhase, fsVars

LEMMA RestoreBlobTidy ==
  ASSUME TypeInv, ~IoFails, NEW s \in Sweepers, RestoreBlob(s), Tidy(s)
  PROVE  Tidy(s)'
PROOF
  <1>1. swp[s] = "restoring" /\ swp'[s] = "unlinking" /\ cand[s] \in Keys
    BY DEF RestoreBlob, TypeInv, TypeOK, SweepTypeOK, CandInv
  <1>2. UNCHANGED <<trees, at, pins, stamp, grave, listed, seen, cand, entry, link, staged, tomb>>
    BY DEF RestoreBlob
  <1>3. /\ NamedBeside(s, tomb[s])
        /\ \A k \in Keys : blob[k] # Nil => k \in listed[s] \ seen[s] \/ NamedBeside(s, blob[k])
    BY <1>1 DEF Tidy, TombDone, BlobsDone, BlobPhase
  <1>4. \A k \in Keys : blob'[k] = blob[k] \/ blob'[k] = tomb[s]
    BY <1>1 DEF RestoreBlob, TypeInv, TypeOK, FsTypeOK
  <1>5. \A k \in Keys : blob'[k] # Nil => k \in listed'[s] \ seen'[s] \/ NamedBeside(s, blob[k])'
    BY <1>2, <1>3, <1>4 DEF NamedBeside
  <1>6. blob[cand[s]] = Nil
    BY <1>1 DEF Tidy, TombDone
  <1>7. blob'[cand[s]] = Nil \/ NamedBeside(s, blob[cand[s]])'
    BY <1>1, <1>2, <1>3, <1>4, <1>6 DEF NamedBeside
  <1>8. BlobsDone(s)' /\ TombDone(s)'
    BY <1>1, <1>2, <1>5, <1>7 DEF BlobsDone, TombDone
  <1> QED
    BY <1>1, <1>2, <1>8, BlobPhaseTidy DEF BlobPhase

LEMMA UnlinkTombTidy ==
  ASSUME TypeInv, NEW s \in Sweepers, UnlinkTomb(s), Tidy(s)
  PROVE  Tidy(s)'
PROOF
  <1>1. swp[s] = "unlinking" /\ swp'[s] = "blobs" /\ seen'[s] = seen[s] \cup {cand[s]}
    BY DEF UnlinkTomb, Done, TypeInv, TypeOK, SweepTypeOK
  <1>2. UNCHANGED <<trees, at, pins, stamp, grave, listed, blob, entry, link, staged>>
    BY DEF UnlinkTomb, Done
  <1>3. \A x \in Sweepers \ {s} : tomb'[x] = tomb[x]
    BY DEF UnlinkTomb, TypeInv, TypeOK, FsTypeOK
  <1>4. BlobsDone(s)'
    <2>1. ASSUME NEW k \in Keys, blob[k] # Nil PROVE k \in listed[s] \ seen'[s] \/ NamedBeside(s, blob[k])
      BY <1>1, <2>1 DEF Tidy, BlobsDone, TombDone, BlobPhase
    <2>2. ASSUME NEW k \in Keys, blob'[k] # Nil PROVE k \in listed'[s] \ seen'[s] \/ NamedBeside(s, blob[k])'
      BY <1>2, <1>3, <2>1, <2>2 DEF NamedBeside
    <2> QED
      BY <2>2 DEF BlobsDone
  <1>5. TombDone(s)'
    BY <1>1 DEF TombDone
  <1> QED
    BY <1>1, <1>2, <1>4, <1>5, BlobPhaseTidy DEF BlobPhase

LEMMA SweepEndsTidy ==
  ASSUME TypeInv, ~IoFails, NEW s \in Sweepers, SweepEnds(s), Tidy(s)
  PROVE  Tidy(s)'
PROOF
  <1>1. swp[s] = "blobs" /\ swp'[s] = "done" /\ listed[s] \subseteq seen[s]
    BY DEF SweepEnds, PhaseOver, Phase, TypeInv, TypeOK, SweepTypeOK
  <1>2. UNCHANGED fsVars /\ UNCHANGED <<pins, at>>
    BY DEF SweepEnds
  <1>3. AllKept(s)' /\ NoneStamped(s)'
    BY <1>1, <1>2 DEF Tidy, AllKept, Kept, NoneStamped, NoStamp, BlobPhase, fsVars
  <1>4. AllNamed(s)'
    BY <1>1, <1>2 DEF Tidy, BlobsDone, AllNamed, NamedBeside, BlobPhase, fsVars
  <1> QED
    BY <1>1, <1>3, <1>4 DEF Tidy, TreesDone, GraveClosed, StampsDone, BlobsDone, TombDone, TreePhase, StampPhase,
       BlobPhase

\* While nobody else moves, each step of a sweep keeps what it has done done.
LEMMA SweepTidy ==
  ASSUME TypeInv, ShareInv, ScratchInv, Retention > 0, ~IoFails, NEW s \in Sweepers, Sweep(s),
         Tidy(s) \/ swp[s] = "spawned"
  PROVE  Tidy(s)'
PROOF
  <1>1. SweepBegins(s) \/ Tidy(s)
    BY DEF Sweep, SweepBegins, Condemn, CloseGrave, ReadStamp, CheckStamp, RemoveStamp, ListBlobs, StatBlob, TakeBlob,
       RestatBlob, RestoreBlob, UnlinkTomb, SweepEnds
  <1> QED
    BY <1>1, BeginsTidy, ReadStampTidy, CondemnTidy, CloseGraveTidy, CheckStampTidy, RemoveStampTidy, ListBlobsTidy,
       StatBlobTidy, TakeBlobTidy, RestatBlobTidy, RestoreBlobTidy, UnlinkTombTidy, SweepEndsTidy DEF Sweep

LEMMA ThoroughStep ==
  ASSUME TypeInv, ShareInv, ScratchInv, ThoroughInv, [Next]_vars
  PROVE  ThoroughInv'
PROOF
  <1> SUFFICES ASSUME ~IoFails, Retention > 0, NEW s \in Sweepers, alone'[s] PROVE Tidy(s)'
    BY DEF ThoroughInv
  <1>1. CASE UNCHANGED vars \/ (Tick /\ UNCHANGED alone) \/ (CooldownElapses /\ UNCHANGED alone)
    <2>1. UNCHANGED <<fsVars, pins, swpVars>> /\ Tidy(s)
      BY <1>1 DEF Tick, CooldownElapses, vars, ThoroughInv
    <2> QED
      BY <2>1 DEF Tidy, TreesDone, AllKept, Kept, GraveClosed, StampsDone, NoneStamped, NoStamp, BlobsDone, TombDone,
         AllNamed, NamedBeside, fsVars, swpVars
  <1>2. CASE Crash
    <2>1. swp'[s] \in {"off", "dead"}
      BY <1>2 DEF Crash
    <2> QED
      BY <2>1 DEF Tidy, TreesDone, AllKept, GraveClosed, StampsDone, NoneStamped, BlobsDone, TombDone, AllNamed,
         TreePhase, StampPhase, BlobPhase
  <1>3. ASSUME NEW x \in Sweepers, Sweep(x),
               alone' = [y \in Sweepers |-> y = x /\ (alone[x] \/ swp[x] = "spawned")]
        PROVE  Tidy(s)'
    <2>1. s = x /\ (alone[s] \/ swp[s] = "spawned")
      BY <1>3
    <2> QED
      BY <1>3, <2>1, SweepTidy DEF ThoroughInv
  <1>4. ASSUME alone' = [x \in Sweepers |-> FALSE] PROVE FALSE
    BY <1>4
  <1> QED
    BY <1>1, <1>2, <1>3, <1>4 DEF Next

LEMMA StartTidy == Init => ReleaseInv /\ ScratchInv /\ ThoroughInv
PROOF
  <1> SUFFICES ASSUME Init PROVE ReleaseInv /\ ScratchInv /\ ThoroughInv
    OBVIOUS
  <1>1. ReleaseInv /\ ScratchInv
    BY DEF Init, ReleaseInv, ScratchInv
  <1>2. \A s \in Sweepers : ~alone[s]
    BY DEF Init
  <1> QED
    BY <1>1, <1>2 DEF ThoroughInv

LEMMA Start == Init => TypeInv /\ PinInv /\ HeldIsPresent /\ ShareInv /\ TreeIsWhole
PROOF
  <1> SUFFICES ASSUME Init PROVE TypeInv /\ PinInv /\ HeldIsPresent /\ ShareInv /\ TreeIsWhole
    OBVIOUS
  <1> USE StoreAssumption
  <1>1. FsTypeOK
    BY NoStampIsAStamp DEF Init, FsTypeOK, Names, Empty
  <1>2. CallTypeOK
    BY DEF Init, CallTypeOK, CallStates
  <1>6. SweepTypeOK
    <2>1. 0 \in 0..MaxTime /\ 0 \in 0..MaxCrashes
      OBVIOUS
    <2>2. /\ swp \in [Sweepers -> SweepStates] /\ cand \in [Sweepers -> Trees \cup Keys \cup {Nil}]
          /\ listed \in [Sweepers -> SUBSET (Trees \cup Keys)]
          /\ seen \in [Sweepers -> SUBSET (Trees \cup Keys)]
      BY DEF Init, SweepStates
    <2>3. at \in [Sweepers -> 0..MaxTime]
      BY <2>1 DEF Init
    <2> QED
      BY <2>1, <2>2, <2>3 DEF Init, SweepTypeOK
  <1>7. alone \in [Sweepers -> BOOLEAN]
    BY DEF Init
  <1>3. CandInv /\ PinInv /\ HeldIsPresent
    BY DEF Init, CandInv, OnFile, PinInv, Pinning, HeldIsPresent, Has
  <1>4. ShareInv
    BY KeyOf DEF Init, ShareInv, StagedInv, FileInv, BlobInv, TombInv, Staging, OnFile,
       Empty
  <1>5. TreeIsWhole
    BY DEF Init, TreeIsWhole
  <1> QED
    BY <1>1, <1>2, <1>3, <1>4, <1>5, <1>6, <1>7 DEF TypeInv, TypeOK

LEMMA TypeAlways == Spec => []TypeInv
PROOF
  <1>1. TypeInv /\ [Next]_vars => TypeInv'
    BY TypeStep, AloneStep DEF TypeInv, TypeOK
  <1> QED
    BY <1>1, Start, PTL DEF Spec

LEMMA ShareAlways == Spec => []ShareInv
PROOF
  <1>1. TypeInv /\ ShareInv /\ [Next]_vars => ShareInv'
    BY StagedStep, FileStep, BlobStep, TombStep DEF ShareInv
  <1> QED
    BY <1>1, Start, TypeAlways, PTL DEF Spec

\* Every name, pin and step of a walk of the store has its type in every
\* reachable state (TypeOK).
THEOREM TypeCorrect == Spec => []TypeOK
PROOF
  <1>1. TypeInv => TypeOK
    BY DEF TypeInv
  <1> QED
    BY <1>1, TypeAlways, PTL

\* A tree that a fetch was told is in the store stays there until the fetch lets
\* go of it: open and commit pin before they look, and reclaim_trees checks the
\* pins and renames under one lock (HeldIsPresent).
THEOREM HeldStays == Spec => []HeldIsPresent
PROOF
  <1>1. TypeInv /\ PinInv /\ [Next]_vars => PinInv'
    BY PinStep
  <1>2. TypeInv /\ PinInv /\ HeldIsPresent /\ [Next]_vars => HeldIsPresent'
    BY HeldStep
  <1> QED
    BY <1>1, <1>2, Start, TypeAlways, PTL DEF Spec

\* A visible tree has every file with the verified bytes and mode, though commits
\* share inodes and sweeps take blobs away meanwhile (TreeIsWhole).
THEOREM VisibleIsWhole == Spec => []TreeIsWhole
PROOF
  <1>1. TypeInv /\ ShareInv /\ TreeIsWhole /\ [Next]_vars => TreeIsWhole'
    BY WholeStep
  <1> QED
    BY <1>1, Start, TypeAlways, ShareAlways, PTL DEF Spec

\* A tree that may be used is there, with every verified byte of it, for any fetches,
\* sweeps and crashes (get_or_fetch, publish, sweep).
THEOREM TreesStaySafe == Spec => []TreesAreSafe
  BY HeldStays, VisibleIsWhole, PTL DEF TreesAreSafe

\* When no fetch is under way and nobody holds a tree the pin table is empty, whatever
\* way each fetch has ended, by a crash too (TreePin's drop, PinsAreReleased).
THEOREM NoPinIsLeaked == Spec => []PinsAreReleased
PROOF
  <1>1. TypeInv /\ ReleaseInv /\ [Next]_vars => ReleaseInv'
    BY ReleaseStep
  <1>2. TypeInv /\ ReleaseInv => PinsAreReleased
    BY DEF TypeInv, TypeOK, CallTypeOK, ReleaseInv, PinsAreReleased, Pinning
  <1> QED
    BY <1>1, <1>2, StartTidy, TypeAlways, PTL DEF Spec

\* A sweep during which nobody else moved leaves behind no tree past its retention that
\* nobody holds, no blob that no tree and no commit uses and no stamp of a tree that is
\* gone (reclaim, SweepIsThorough).  With a retention of zero it does leave a tree:
\* one it found without a stamp, which it stamps for the next sweep.
THEOREM SweepsAreThorough == Spec => []SweepIsThorough
PROOF
  <1>1. TypeInv /\ ScratchInv /\ [Next]_vars => ScratchInv'
    BY ScratchStep
  <1>2. TypeInv /\ ShareInv /\ ScratchInv /\ ThoroughInv /\ [Next]_vars => ThoroughInv'
    BY ThoroughStep
  <1>3. ThoroughInv => SweepIsThorough
    BY DEF ThoroughInv, Tidy, AllKept, Kept, NoneStamped, AllNamed, SweepIsThorough
  <1> QED
    BY <1>1, <1>2, <1>3, StartTidy, TypeAlways, ShareAlways, PTL DEF Spec
=============================================================================
