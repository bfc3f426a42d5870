----------------------------- MODULE TreeStore -----------------------------
(***************************************************************************)
(* The content store of one tenant: ContentStore of                        *)
(* crates/hull-ci-fetch/src/store.rs (open, commit, reclaim) and the       *)
(* FetchBroker of lib.rs that calls it (ensure_tree, ingest,               *)
(* reclaim_after_commit, sweep).  Every path of the store lies below the   *)
(* tenant's scope and the pin table and the cooldown are keyed by it, so   *)
(* one tenant is the whole state.                                          *)
(*                                                                         *)
(* A file of a tree and a blob are names of an inode, and several fetches  *)
(* and sweeps walk the same directories with no lock between their system  *)
(* calls, so each system call another task can notice is a step.  The only *)
(* lock is the pin table's: taking and dropping a pin are steps, and so is *)
(* a sweep's check of the pins together with its rename of the tree.       *)
(***************************************************************************)
EXTENDS Naturals, FiniteSets

CONSTANTS
  Trees,        \* tree ids
  Files,        \* the regular files of all trees
  Home,         \* Home[f]: the tree f is a file of
  Content,      \* Content[f]: its bytes
  Mode,         \* Mode[f]: its keel mode class
  Requests,     \* calls of ensure_tree
  TreeOf,       \* TreeOf[r]: the tree r asks for
  Sweepers,     \* sweeps; a bound on how many are started
  Retention,    \* ReclaimPolicy::tree_retention
  MaxTime,      \* bound on the clock
  MaxCrashes,   \* bound on SIGKILLs
  IoFails,      \* may a write, a link or a rename be refused by the filesystem?
  Nil           \* no inode, no file, no entry

ASSUME StoreAssumption ==
  /\ Home \in [Files -> Trees] /\ TreeOf \in [Requests -> Trees]
  /\ DOMAIN Content = Files /\ DOMAIN Mode = Files
  /\ Retention \in Nat /\ MaxTime \in Nat /\ MaxCrashes \in Nat
  /\ IoFails \in BOOLEAN
  /\ Nil \notin Requests \X Files /\ Nil \notin Files /\ Nil \notin Trees

\* The inode that r's extraction makes for f.
Inodes == Requests \X Files
Names == Inodes \cup {Nil}

\* BlobKey: the content and the mode class.  set_canonical_mode makes the mode
\* of an inode a function of this.
BlobKeyNoMode(f) == <<Content[f], "any">>
BlobKey(f) == <<Content[f], Mode[f]>>

Keys == {BlobKey(f) : f \in Files}

\* The inode holds the bytes and the mode that f's tree entry records.
Is(i, f) == i \in Inodes /\ Content[i[2]] = Content[f] /\ Mode[i[2]] = Mode[f]

VARIABLES
  \* -- the filesystem --
  trees,      \* the directories under trees/
  entry,      \* entry[f]: the inode of trees/{Home[f]}/f
  blob,       \* blob[k]: the inode of blobs/{k}
  staged,     \* staged[r][f]: the inode of f in r's staging directory
  link,       \* link[r]: the inode of r's scratch link beside it
  grave,      \* grave[s][f]: the inode of f in the scratch directory of sweep s
  tomb,       \* tomb[s]: the inode of the blob that sweep s has renamed away
  stamp,      \* stamp[t]: the time in used/{t}, or NoStamp
  \* -- PinTable::held: the live PinGuards on each address --
  pins,
  \* -- Sweeps::last: has this tenant swept within the cooldown? --
  cooling,
  \* -- each fetch: where it is, the file it shares, the files it has not reached --
  call, file, todo,
  \* -- each sweep: where it is, the entry it looks at, what its directory
  \*    listing held, what it has visited, its policy.now --
  swp, cand, listed, seen, at,
  clock, crashes,
  \* -- has nobody else moved since sweep s began? (history) --
  alone

fsVars == <<trees, entry, blob, staged, link, grave, tomb, stamp>>
callVars == <<call, file, todo>>
swpVars == <<swp, cand, listed, seen, at>>
vars == <<fsVars, pins, cooling, callVars, swpVars, clock, crashes, alone>>

NoStamp == MaxTime + 1

Empty == [f \in Files |-> Nil]
FilesOf(t) == {f \in Files : Home[f] = t}

\* st_nlink.
Nlink(i) ==
  Cardinality({k \in Keys : blob[k] = i})
    + Cardinality({f \in Files : entry[f] = i})
    + Cardinality({x \in Requests \X Files : staged[x[1]][x[2]] = i})
    + Cardinality({r \in Requests : link[r] = i})
    + Cardinality({x \in Sweepers \X Files : grave[x[1]][x[2]] = i})
    + Cardinality({s \in Sweepers : tomb[s] = i})

Init ==
  /\ trees = {} /\ entry = Empty /\ blob = [k \in Keys |-> Nil]
  /\ staged = [r \in Requests |-> Empty] /\ link = [r \in Requests |-> Nil]
  /\ grave = [s \in Sweepers |-> Empty] /\ tomb = [s \in Sweepers |-> Nil]
  /\ stamp = [t \in Trees |-> NoStamp]
  /\ pins = [t \in Trees |-> {}]
  /\ cooling = FALSE
  /\ call = [r \in Requests |-> "idle"]
  /\ file = [r \in Requests |-> Nil] /\ todo = [r \in Requests |-> {}]
  /\ swp = [s \in Sweepers |-> "off"] /\ cand = [s \in Sweepers |-> Nil]
  /\ listed = [s \in Sweepers |-> {}] /\ seen = [s \in Sweepers |-> {}]
  /\ at = [s \in Sweepers |-> 0]
  /\ clock = 0 /\ crashes = 0 /\ alone = [s \in Sweepers |-> FALSE]

----------------------------------------------------------------------------
(* Pins and stamps.                                                        *)

\* ContentStore::pin, and the drop of the last clone of a TreePin.
Pin(r) == pins' = [pins EXCEPT ![TreeOf[r]] = @ \cup {r}]
Unpin(r) == pins' = [pins EXCEPT ![TreeOf[r]] = @ \ {r}]

\* record_use: best effort.  A write refused half way leaves an empty stamp, which
\* last_used cannot read.
RecordExpiry(t) == stamp' = [stamp EXCEPT ![t] = clock + Retention + 1]
RecordUse(t) ==
  \/ stamp' = [stamp EXCEPT ![t] = clock]
  \/ IoFails /\ UNCHANGED stamp
  \/ IoFails /\ stamp' = [stamp EXCEPT ![t] = NoStamp]

Goto(r, pc) == call' = [call EXCEPT ![r] = pc]

----------------------------------------------------------------------------
(* ensure_tree: the hit.                                                   *)

\* open: the pin comes before the directory is looked for.
OpenUnpinned(r) ==
  /\ call[r] = "idle"
  /\ Goto(r, "opening")
  /\ UNCHANGED <<fsVars, pins, cooling, file, todo, swpVars, clock, crashes>>
Open(r) ==
  /\ call[r] = "idle"
  /\ Pin(r) /\ Goto(r, "opening")
  /\ UNCHANGED <<fsVars, cooling, file, todo, swpVars, clock, crashes>>

OpenHit(r) ==
  /\ call[r] = "opening" /\ TreeOf[r] \in trees
  /\ Goto(r, "found")
  /\ UNCHANGED <<fsVars, pins, cooling, file, todo, swpVars, clock, crashes>>

\* The pin goes with the None.
OpenMissKeepsPin(r) ==
  /\ call[r] = "opening" /\ TreeOf[r] \notin trees
  /\ Goto(r, "fetching")
  /\ UNCHANGED <<fsVars, pins, cooling, file, todo, swpVars, clock, crashes>>
OpenMiss(r) ==
  /\ call[r] = "opening" /\ TreeOf[r] \notin trees
  /\ Unpin(r) /\ Goto(r, "fetching")
  /\ UNCHANGED <<fsVars, cooling, file, todo, swpVars, clock, crashes>>

\* The stamp of a hit: open, and commit where it finds the tree already there.
StampHit(r) ==
  /\ call[r] = "found"
  /\ RecordUse(TreeOf[r]) /\ Goto(r, "held")
  /\ UNCHANGED <<trees, entry, blob, staged, link, grave, tomb, pins, cooling, file,
                 todo, swpVars, clock, crashes>>

\* The last clone of the StoredTree goes: with the job's last step, or at once
\* where the budget ran out while ingest was on its blocking worker.
Drop(r) ==
  /\ call[r] = "held"
  /\ Unpin(r) /\ Goto(r, "done")
  /\ UNCHANGED <<fsVars, cooling, file, todo, swpVars, clock, crashes>>

----------------------------------------------------------------------------
(* fetch_uncached and ingest: download, extract and verify in staging.     *)

FetchFails(r) ==
  /\ call[r] = "fetching"
  /\ Goto(r, "failed")
  /\ UNCHANGED <<fsVars, pins, cooling, file, todo, swpVars, clock, crashes>>

Ingest(r) ==
  /\ call[r] = "fetching"
  /\ staged' = [staged EXCEPT ![r] =
       [f \in Files |-> IF Home[f] = TreeOf[r] THEN <<r, f>> ELSE Nil]]
  /\ Goto(r, "staged")
  /\ UNCHANGED <<trees, entry, blob, link, grave, tomb, stamp, pins, cooling, file,
                 todo, swpVars, clock, crashes>>

----------------------------------------------------------------------------
(* commit.                                                                 *)

CommitUnpinned(r) ==
  /\ call[r] = "staged"
  /\ Goto(r, "committing")
  /\ UNCHANGED <<fsVars, pins, cooling, file, todo, swpVars, clock, crashes>>
Commit(r) ==
  /\ call[r] = "staged"
  /\ Pin(r) /\ Goto(r, "committing")
  /\ UNCHANGED <<fsVars, cooling, file, todo, swpVars, clock, crashes>>

\* Somebody else published it: theirs is kept and the staged copy dropped.
CommitFound(r) ==
  /\ call[r] = "committing" /\ TreeOf[r] \in trees
  /\ staged' = [staged EXCEPT ![r] = Empty]
  /\ Goto(r, "found")
  /\ UNCHANGED <<trees, entry, blob, link, grave, tomb, stamp, pins, cooling, file,
                 todo, swpVars, clock, crashes>>

CommitShares(r) ==
  /\ call[r] = "committing" /\ TreeOf[r] \notin trees
  /\ todo' = [todo EXCEPT ![r] = FilesOf(TreeOf[r])]
  /\ Goto(r, "sharing")
  /\ UNCHANGED <<fsVars, pins, cooling, file, swpVars, clock, crashes>>

\* An error of link_into_blobs leaves the blobs it made and drops the rest.
CommitFails(r) ==
  /\ IoFails /\ call[r] = "sharing"
  /\ staged' = [staged EXCEPT ![r] = Empty]
  /\ todo' = [todo EXCEPT ![r] = {}]
  /\ Unpin(r) /\ Goto(r, "failed")
  /\ UNCHANGED <<trees, entry, blob, link, grave, tomb, stamp, cooling, file, swpVars,
                 clock, crashes>>

\* share_one, link_into_blobs' walk over the files in any order.  The first link
\* makes the staged inode the blob.
ShareCreates(r, f) ==
  /\ call[r] = "sharing" /\ f \in todo[r]
  /\ blob[BlobKey(f)] = Nil
  /\ blob' = [blob EXCEPT ![BlobKey(f)] = staged[r][f]]
  /\ todo' = [todo EXCEPT ![r] = @ \ {f}]
  /\ UNCHANGED <<trees, entry, staged, link, grave, tomb, stamp, pins, cooling, call,
                 file, swpVars, clock, crashes>>

\* EEXIST: on to share_with_existing_blob.
ShareExists(r, f) ==
  /\ call[r] = "sharing" /\ f \in todo[r]
  /\ blob[BlobKey(f)] # Nil
  /\ file' = [file EXCEPT ![r] = f]
  /\ Goto(r, "reusing")
  /\ UNCHANGED <<fsVars, pins, cooling, todo, swpVars, clock, crashes>>

\* Any other refusal leaves the file as it is.
ShareRefused(r, f) ==
  /\ IoFails /\ call[r] = "sharing" /\ f \in todo[r]
  /\ todo' = [todo EXCEPT ![r] = @ \ {f}]
  /\ UNCHANGED <<fsVars, pins, cooling, call, file, swpVars, clock, crashes>>

\* The file is settled: back to the walk.
NextFile(r) ==
  /\ todo' = [todo EXCEPT ![r] = @ \ {file[r]}]
  /\ file' = [file EXCEPT ![r] = Nil]
  /\ Goto(r, "sharing")

\* link_blob_over: the blob gets the scratch name, which is renamed over the file.
LinkBlob(r) ==
  /\ call[r] = "reusing" /\ blob[BlobKey(file[r])] # Nil
  /\ link' = [link EXCEPT ![r] = blob[BlobKey(file[r])]]
  /\ Goto(r, "swapping")
  /\ UNCHANGED <<trees, entry, blob, staged, grave, tomb, stamp, pins, cooling, file,
                 todo, swpVars, clock, crashes>>

LinkRefused(r) ==
  /\ IoFails /\ call[r] = "reusing"
  /\ NextFile(r)
  /\ UNCHANGED <<fsVars, pins, cooling, swpVars, clock, crashes>>

Swap(r) ==
  /\ call[r] = "swapping"
  /\ staged' = [staged EXCEPT ![r][file[r]] = link[r]]
  /\ link' = [link EXCEPT ![r] = Nil]
  /\ NextFile(r)
  /\ UNCHANGED <<trees, entry, blob, grave, tomb, stamp, pins, cooling, swpVars, clock,
                 crashes>>

\* The rename is refused: the scratch link is removed and the file stays as it is.
SwapRefused(r) ==
  /\ IoFails /\ call[r] = "swapping"
  /\ link' = [link EXCEPT ![r] = Nil]
  /\ NextFile(r)
  /\ UNCHANGED <<trees, entry, blob, staged, grave, tomb, stamp, pins, cooling, swpVars,
                 clock, crashes>>

\* ENOENT: a sweep renamed the blob away.  One more try to become the blob.
LinkGone(r) ==
  /\ call[r] = "reusing" /\ blob[BlobKey(file[r])] = Nil
  /\ Goto(r, "retrying")
  /\ UNCHANGED <<fsVars, pins, cooling, file, todo, swpVars, clock, crashes>>

Retry(r) ==
  /\ call[r] = "retrying"
  /\ \/ /\ blob[BlobKey(file[r])] = Nil
        /\ blob' = [blob EXCEPT ![BlobKey(file[r])] = staged[r][file[r]]]
     \/ /\ blob[BlobKey(file[r])] # Nil \/ IoFails
        /\ UNCHANGED blob
  /\ NextFile(r)
  /\ UNCHANGED <<trees, entry, staged, link, grave, tomb, stamp, pins, cooling, swpVars,
                 clock, crashes>>

\* The one rename that publishes the tree.
PublishEarly(r) ==
  /\ call[r] = "sharing" /\ TreeOf[r] \notin trees
  /\ trees' = trees \cup {TreeOf[r]}
  /\ entry' = [f \in Files |-> IF Home[f] # TreeOf[r] THEN entry[f]
                               ELSE IF f \in todo[r] THEN Nil ELSE staged[r][f]]
  /\ staged' = [staged EXCEPT ![r] = Empty]
  /\ Goto(r, "published")
  /\ UNCHANGED <<blob, link, grave, tomb, stamp, pins, cooling, file, todo, swpVars,
                 clock, crashes>>
Publish(r) ==
  /\ call[r] = "sharing" /\ todo[r] = {} /\ TreeOf[r] \notin trees
  /\ trees' = trees \cup {TreeOf[r]}
  /\ entry' = [f \in Files |-> IF Home[f] = TreeOf[r] THEN staged[r][f] ELSE entry[f]]
  /\ staged' = [staged EXCEPT ![r] = Empty]
  /\ Goto(r, "published")
  /\ UNCHANGED <<blob, link, grave, tomb, stamp, pins, cooling, file, todo, swpVars,
                 clock, crashes>>

\* The rename fails on a tree that is already there, or for a reason of its own.
PublishLoses(r) ==
  /\ call[r] = "sharing" /\ todo[r] = {}
  /\ TreeOf[r] \in trees \/ IoFails
  /\ staged' = [staged EXCEPT ![r] = Empty]
  /\ Goto(r, "lost")
  /\ UNCHANGED <<trees, entry, blob, link, grave, tomb, stamp, pins, cooling, file,
                 todo, swpVars, clock, crashes>>

LostFound(r) ==
  /\ call[r] = "lost" /\ TreeOf[r] \in trees
  /\ Goto(r, "found")
  /\ UNCHANGED <<fsVars, pins, cooling, file, todo, swpVars, clock, crashes>>

LostError(r) ==
  /\ call[r] = "lost" /\ TreeOf[r] \notin trees
  /\ Unpin(r) /\ Goto(r, "failed")
  /\ UNCHANGED <<fsVars, cooling, file, todo, swpVars, clock, crashes>>

StampPublished(r) ==
  /\ call[r] = "published"
  /\ RecordUse(TreeOf[r]) /\ Goto(r, "grown")
  /\ UNCHANGED <<trees, entry, blob, staged, link, grave, tomb, pins, cooling, file,
                 todo, swpVars, clock, crashes>>

\* reclaim_after_commit: at most one sweep per cooldown, handed to another worker.
Grown(r) ==
  /\ call[r] = "grown"
  /\ IF ~cooling /\ \E s \in Sweepers : swp[s] = "off"
       THEN /\ cooling' = TRUE
            /\ \E s \in Sweepers : swp[s] = "off" /\ swp' = [swp EXCEPT ![s] = "spawned"]
       ELSE UNCHANGED <<cooling, swp>>
  /\ Goto(r, "held")
  /\ UNCHANGED <<fsVars, pins, file, todo, cand, listed, seen, at, clock, crashes>>

Fetch(r) ==
  \/ Open(r) \/ OpenHit(r) \/ OpenMiss(r) \/ StampHit(r) \/ Drop(r)
  \/ FetchFails(r) \/ Ingest(r)
  \/ Commit(r) \/ CommitFound(r) \/ CommitShares(r) \/ CommitFails(r)
  \/ \E f \in Files : ShareCreates(r, f) \/ ShareExists(r, f) \/ ShareRefused(r, f)
  \/ LinkBlob(r) \/ LinkRefused(r) \/ Swap(r) \/ SwapRefused(r) \/ LinkGone(r) \/ Retry(r)
  \/ Publish(r) \/ PublishLoses(r) \/ LostFound(r) \/ LostError(r)
  \/ StampPublished(r) \/ Grown(r)

----------------------------------------------------------------------------
(* sweep and reclaim.  A directory listing returns what was there when it  *)
(* was opened, and may or may not return what has come since.              *)

Phase(s, pc, list) ==
  /\ swp' = [swp EXCEPT ![s] = pc]
  /\ listed' = [listed EXCEPT ![s] = list]
  /\ seen' = [seen EXCEPT ![s] = {}]

\* A phase that cannot open its directory or make its grave is skipped.
PhaseOver(s) == listed[s] \subseteq seen[s] \/ (IoFails /\ seen[s] = {})

Visited(s, x) ==
  /\ seen' = [seen EXCEPT ![s] = @ \cup {x}]
  /\ UNCHANGED <<swp, cand, listed, at>>

\* The sweep keeps x in hand for its next system call.
Takes(s, x, pc) ==
  /\ swp' = [swp EXCEPT ![s] = pc]
  /\ cand' = [cand EXCEPT ![s] = x]
  /\ UNCHANGED <<listed, seen, at>>

\* x is dealt with: on with the listing.
Done(s, pc) ==
  /\ swp' = [swp EXCEPT ![s] = pc]
  /\ seen' = [seen EXCEPT ![s] = @ \cup {cand[s]}]
  /\ cand' = [cand EXCEPT ![s] = Nil]
  /\ UNCHANGED <<listed, at>>

SweepBegins(s) ==
  /\ swp[s] = "spawned"
  /\ at' = [at EXCEPT ![s] = clock]
  /\ Phase(s, "trees", trees)
  /\ UNCHANGED <<fsVars, pins, cooling, callVars, cand, clock, crashes>>

\* reclaim_trees, up to the lock.  No stamp is as good as a use.
ReadStamp(s, t) ==
  /\ swp[s] = "trees" /\ t \in listed[s] \cup trees /\ t \notin seen[s]
  /\ \/ /\ stamp[t] = NoStamp
        /\ RecordUse(t) /\ Visited(s, t)
     \/ /\ stamp[t] # NoStamp /\ at[s] < stamp[t] + Retention
        /\ Visited(s, t) /\ UNCHANGED stamp
     \/ /\ stamp[t] # NoStamp /\ at[s] >= stamp[t] + Retention
        /\ Takes(s, t, "condemning") /\ UNCHANGED stamp
  /\ UNCHANGED <<trees, entry, blob, staged, link, grave, tomb, pins, cooling, callVars,
                 clock, crashes>>

\* trees/{t} is renamed into the grave.
Bury(s, t) ==
  /\ trees' = trees \ {t}
  /\ grave' = [grave EXCEPT ![s] = [f \in Files |-> IF Home[f] = t THEN entry[f] ELSE @[f]]]
  /\ entry' = [f \in Files |-> IF Home[f] = t THEN Nil ELSE entry[f]]

\* The check of the pins and the rename are one step under the pin table's lock.
CondemnUnlocked(s) ==
  /\ swp[s] = "condemning"
  /\ IF cand[s] \in trees THEN Bury(s, cand[s]) ELSE UNCHANGED <<trees, grave, entry>>
  /\ Done(s, "trees")
  /\ UNCHANGED <<blob, staged, link, tomb, stamp, pins, cooling, callVars, clock, crashes>>
Condemn(s) ==
  /\ swp[s] = "condemning"
  /\ IF pins[cand[s]] = {} /\ cand[s] \in trees
       THEN Bury(s, cand[s]) \/ (IoFails /\ UNCHANGED <<trees, grave, entry>>)
       ELSE UNCHANGED <<trees, grave, entry>>
  /\ Done(s, "trees")
  /\ UNCHANGED <<blob, staged, link, tomb, stamp, pins, cooling, callVars, clock, crashes>>

\* grave.close(): the links the trees held are gone before a blob is looked at.
CloseGraveLate(s) ==
  /\ swp[s] = "trees" /\ PhaseOver(s)
  /\ Phase(s, "stamps", {t \in Trees : stamp[t] # NoStamp})
  /\ UNCHANGED <<fsVars, pins, cooling, callVars, cand, at, clock, crashes>>
CloseGrave(s) ==
  /\ swp[s] = "trees" /\ PhaseOver(s)
  /\ grave' = [grave EXCEPT ![s] = Empty] \/ (IoFails /\ UNCHANGED grave)
  /\ Phase(s, "stamps", {t \in Trees : stamp[t] # NoStamp})
  /\ UNCHANGED <<trees, entry, blob, staged, link, tomb, stamp, pins, cooling, callVars,
                 cand, at, clock, crashes>>

\* sweep_stamps looks for the tree, and then removes the stamp.
CheckStamp(s, t) ==
  /\ swp[s] = "stamps" /\ t \in Trees \ seen[s]
  /\ t \in listed[s] \/ stamp[t] # NoStamp
  /\ IF t \in trees THEN Visited(s, t) ELSE Takes(s, t, "unstamping")
  /\ UNCHANGED <<fsVars, pins, cooling, callVars, clock, crashes>>

RemoveStamp(s) ==
  /\ swp[s] = "unstamping"
  /\ stamp' = [stamp EXCEPT ![cand[s]] = NoStamp] \/ (IoFails /\ UNCHANGED stamp)
  /\ Done(s, "stamps")
  /\ UNCHANGED <<trees, entry, blob, staged, link, grave, tomb, pins, cooling, callVars,
                 clock, crashes>>

ListBlobs(s) ==
  /\ swp[s] = "stamps" /\ PhaseOver(s)
  /\ Phase(s, "blobs", {k \in Keys : blob[k] # Nil})
  /\ UNCHANGED <<fsVars, pins, cooling, callVars, cand, at, clock, crashes>>

\* sweep_blobs: one name means no tree has it.
StatBlob(s, k) ==
  /\ swp[s] = "blobs" /\ k \in Keys \ seen[s]
  /\ k \in listed[s] \/ blob[k] # Nil
  /\ IF blob[k] = Nil \/ Nlink(blob[k]) > 1
       THEN Visited(s, k)
       ELSE Takes(s, k, "retiring")
  /\ UNCHANGED <<fsVars, pins, cooling, callVars, clock, crashes>>

\* reclaim_one_blob: rename, look again, and only then unlink.
TakeBlob(s) ==
  /\ swp[s] = "retiring"
  /\ \/ /\ blob[cand[s]] = Nil \/ IoFails
        /\ Done(s, "blobs") /\ UNCHANGED <<blob, tomb>>
     \/ /\ blob[cand[s]] # Nil
        /\ tomb' = [tomb EXCEPT ![s] = blob[cand[s]]]
        /\ blob' = [blob EXCEPT ![cand[s]] = Nil]
        /\ swp' = [swp EXCEPT ![s] = "restating"]
        /\ UNCHANGED <<cand, listed, seen, at>>
  /\ UNCHANGED <<trees, entry, staged, link, grave, stamp, pins, cooling, callVars,
                 clock, crashes>>

RestatBlob(s) ==
  /\ swp[s] = "restating"
  /\ swp' = [swp EXCEPT ![s] = IF Nlink(tomb[s]) > 1 THEN "restoring" ELSE "unlinking"]
  /\ UNCHANGED <<fsVars, pins, cooling, callVars, cand, listed, seen, at, clock, crashes>>

RestoreBlob(s) ==
  /\ swp[s] = "restoring"
  /\ IF blob[cand[s]] = Nil
       THEN blob' = [blob EXCEPT ![cand[s]] = tomb[s]] \/ (IoFails /\ UNCHANGED blob)
       ELSE UNCHANGED blob
  /\ swp' = [swp EXCEPT ![s] = "unlinking"]
  /\ UNCHANGED <<trees, entry, staged, link, grave, tomb, stamp, pins, cooling, callVars,
                 cand, listed, seen, at, clock, crashes>>

UnlinkTomb(s) ==
  /\ swp[s] = "unlinking"
  /\ tomb' = [tomb EXCEPT ![s] = Nil]
  /\ Done(s, "blobs")
  /\ UNCHANGED <<trees, entry, blob, staged, link, grave, stamp, pins, cooling, callVars,
                 clock, crashes>>

\* Sweeps::finished restarts the cooldown, also after a reclaim that could not
\* make its scratch directory.
SweepEnds(s) ==
  /\ \/ swp[s] = "blobs" /\ PhaseOver(s)
     \/ swp[s] = "spawned" /\ IoFails
  /\ cooling' = TRUE
  /\ Phase(s, "done", {})
  /\ UNCHANGED <<fsVars, pins, callVars, cand, at, clock, crashes>>

Sweep(s) ==
  \/ SweepBegins(s) \/ Condemn(s) \/ CloseGrave(s)
  \/ \E t \in Trees : ReadStamp(s, t) \/ CheckStamp(s, t)
  \/ RemoveStamp(s) \/ ListBlobs(s)
  \/ \E k \in Keys : StatBlob(s, k)
  \/ TakeBlob(s) \/ RestatBlob(s) \/ RestoreBlob(s) \/ UnlinkTomb(s) \/ SweepEnds(s)

----------------------------------------------------------------------------
(* Time, and the end of the process.                                       *)

Tick ==
  /\ clock < MaxTime /\ clock' = clock + 1
  /\ UNCHANGED <<fsVars, pins, cooling, callVars, swpVars, crashes>>

CooldownElapses ==
  /\ cooling /\ cooling' = FALSE
  /\ UNCHANGED <<fsVars, pins, callVars, swpVars, clock, crashes>>

\* A SIGKILL ends every fetch and every sweep where it stands.  The pin table
\* and the cooldown are memory; staging and scratch directories stay behind.
Crash ==
  /\ crashes < MaxCrashes /\ crashes' = crashes + 1
  /\ call' = [r \in Requests |-> IF call[r] = "idle" THEN "idle" ELSE "dead"]
  /\ swp' = [s \in Sweepers |-> IF swp[s] = "off" THEN "off" ELSE "dead"]
  /\ pins' = [t \in Trees |-> {}]
  /\ cooling' = FALSE
  /\ UNCHANGED <<fsVars, file, todo, cand, listed, seen, at, clock>>

Next ==
  \/ (\E r \in Requests : Fetch(r)) /\ alone' = [s \in Sweepers |-> FALSE]
  \/ \E s \in Sweepers :
       /\ Sweep(s)
       /\ alone' = [x \in Sweepers |-> x = s /\ (alone[s] \/ swp[s] = "spawned")]
  \/ (Tick \/ CooldownElapses \/ Crash) /\ UNCHANGED alone

Spec == Init /\ [][Next]_vars

----------------------------------------------------------------------------
(* Properties.                                                             *)

CallStates ==
  {"idle", "opening", "found", "held", "done", "fetching", "failed", "staged",
   "committing", "sharing", "reusing", "swapping", "retrying", "published", "lost",
   "grown", "dead"}

SweepStates ==
  {"off", "spawned", "trees", "condemning", "stamps", "unstamping", "blobs", "retiring",
   "restating", "restoring", "unlinking", "done", "dead"}

FsTypeOK ==
  /\ trees \subseteq Trees /\ entry \in [Files -> Names] /\ blob \in [Keys -> Names]
  /\ staged \in [Requests -> [Files -> Names]] /\ link \in [Requests -> Names]
  /\ grave \in [Sweepers -> [Files -> Names]] /\ tomb \in [Sweepers -> Names]
  /\ stamp \in [Trees -> 0..NoStamp]

CallTypeOK ==
  /\ pins \in [Trees -> SUBSET Requests] /\ cooling \in BOOLEAN
  /\ call \in [Requests -> CallStates]
  /\ file \in [Requests -> Files \cup {Nil}] /\ todo \in [Requests -> SUBSET Files]

SweepTypeOK ==
  /\ swp \in [Sweepers -> SweepStates]
  /\ cand \in [Sweepers -> Trees \cup Keys \cup {Nil}]
  /\ listed \in [Sweepers -> SUBSET (Trees \cup Keys)]
  /\ seen \in [Sweepers -> SUBSET (Trees \cup Keys)]
  /\ at \in [Sweepers -> 0..MaxTime]
  /\ clock \in 0..MaxTime /\ crashes \in 0..MaxCrashes

\* The types of the store's names, of the pin table and of the two walks.
TypeOK == FsTypeOK /\ CallTypeOK /\ SweepTypeOK /\ alone \in [Sweepers -> BOOLEAN]

\* The fetch has been told that its tree is in the store.
Has(r) == call[r] \in {"found", "published", "grown", "held"}

\* Whoever was told that a tree is in the store, and has not let go of it, finds
\* it there: no sweep takes it, however old it is.
HeldIsPresent == \A r \in Requests : Has(r) => TreeOf[r] \in trees

\* A tree that can be seen is whole: every file of it is there, with the bytes
\* and the mode that were verified, whatever is shared, swept or killed.
TreeIsWhole == \A f \in Files : Home[f] \in trees => Is(entry[f], f)

\* HeldIsPresent and TreeIsWhole: a tree that may be used is there, and all of it.
TreesAreSafe == HeldIsPresent /\ TreeIsWhole

\* When no fetch is under way and nobody holds a tree, nothing is pinned.
PinsAreReleased ==
  (\A r \in Requests : call[r] \in {"idle", "fetching", "done", "failed", "dead"})
    => \A t \in Trees : pins[t] = {}

\* The inode has a name outside the blob store and the scratch of sweep s.
NamedBeside(s, i) ==
  \/ \E f \in Files : entry[f] = i
  \/ \E r \in Requests : link[r] = i \/ \E f \in Files : staged[r][f] = i
  \/ \E x \in Sweepers \ {s} : tomb[x] = i \/ \E f \in Files : grave[x][f] = i

\* A sweep during which nobody else moved, on a filesystem that refuses nothing,
\* leaves no tree that is both unused for the retention and unpinned, no blob
\* whose bytes no tree and no commit uses, and no stamp of a tree that is gone.  With
\* a retention of zero it does leave a tree: one without a stamp, which it stamps.
SweepIsThorough ==
  ~IoFails /\ Retention > 0 => \A s \in Sweepers : swp[s] = "done" /\ alone[s] =>
    /\ \A t \in trees : pins[t] # {} \/ at[s] < stamp[t] + Retention
    /\ \A k \in Keys : blob[k] # Nil => NamedBeside(s, blob[k])
    /\ \A t \in Trees \ trees : stamp[t] = NoStamp

\* A tree survives for the retention after its last recorded use.
UsedIsKept ==
  [][\A t \in trees \ trees' : clock >= stamp[t] + Retention]_vars
=============================================================================
