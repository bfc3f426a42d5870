----------------------------- MODULE Workspace -----------------------------
(***************************************************************************)
(* A step's workspace (hull-ci-server/src/workspace.rs), from the copy of  *)
(* the stored tree to its removal, and the two tasks of node.rs that work  *)
(* on it: the run, whose copy goes on after an abort, and cancel.          *)
(*                                                                         *)
(* A name of a file leads to an inode, which holds its bytes and its mode; *)
(* the store's names and the workspace's are two sets of names over one    *)
(* set of inodes.  An entry is one of a tree: [path, type, exec, data].    *)
(***************************************************************************)
EXTENDS Naturals, FiniteSets, SequencesExt

CONSTANTS MaxJobWrites  \* bound: what a job does to its files

Inode(root, path) == [root |-> root, path |-> path]
FilesOf(tree) == {e \in tree : e.type = "file"}

\* A stored tree and no workspace yet: at holds the workspace's names.  report is the
\* MaterializeReport; copier and cleaner are the two tasks.
EmptyWorkspace(tree) ==
  [tree |-> tree,
   inodes |-> [i \in {Inode("store", e.path) : e \in FilesOf(tree)} |->
                 LET e == CHOOSE f \in FilesOf(tree) : f.path = i.path IN [data |-> e.data, exec |-> e.exec]],
   root |-> FALSE, at |-> {}, seen |-> {}, report |-> [cloned |-> 0, copied |-> 0, links |-> 0, dirs |-> 0, fallback |-> "none"],
   copier |-> "idle", cleaner |-> "none", cancelled |-> FALSE, ran |-> FALSE, writes |-> 0]

Paths(w) == {n.path : n \in w.at}
HasParent(w, path) == w.root /\ (Len(path) = 1 \/ \E n \in w.at : n.path = Front(path) /\ n.type = "dir")

\* materialize_with, up to the walk: a workspace that is there already is an error.
Materialize(w) == IF w.root THEN [w EXCEPT !.copier = "failed"] ELSE [w EXCEPT !.root = TRUE, !.copier = "copying"]

\* copy_permissions, of a new directory or file.
CopyPermissions(e, node) == [node EXCEPT !.exec = e.exec]

\* copy_symlink: the link and not what it leads to.
CopySymlink(e) == [path |-> e.path, type |-> "link", exec |-> FALSE, inode |-> {}, to |-> e.data]

\* Mutant: the file becomes a second name of the store's inode.
PlaceFileLinked(w, e, clones) ==
  [w EXCEPT !.at = @ \cup {[path |-> e.path, type |-> "file", exec |-> e.exec, inode |-> {Inode("store", e.path)}, to |-> ""]},
            !.report.cloned = @ + 1]

\* place_file: a clone, or a copy of the bytes where a clone fails; the first reason is kept.
\* Either way the file has an inode of its own.
PlaceFile(w, e, clones) ==
  LET own == Inode("work", e.path)
      node == [path |-> e.path, type |-> "file", exec |-> FALSE, inode |-> {own}, to |-> ""]
  IN  [w EXCEPT !.at = @ \cup {CopyPermissions(e, node)},
                !.inodes = [i \in DOMAIN @ \cup {own} |-> IF i = own THEN [data |-> e.data, exec |-> e.exec] ELSE @[i]],
                !.report.cloned = IF clones THEN @ + 1 ELSE @,
                !.report.copied = IF clones THEN @ ELSE @ + 1,
                !.report.fallback = IF clones \/ @ # "none" THEN @ ELSE "cannot clone"]

\* One entry of copy_dir's walk.  Anything but a directory, a link or a file is refused, and
\* so is an entry whose directory was removed meanwhile.
CopyEntry(w, e, clones) ==
  LET next == [w EXCEPT !.seen = @ \cup {e}]
  IN  CASE ~HasParent(w, e.path) \/ e.type = "other" -> [w EXCEPT !.copier = "failed"]
        [] e.type = "dir" ->
             [next EXCEPT !.at = @ \cup {CopyPermissions(e, [path |-> e.path, type |-> "dir", exec |-> FALSE, inode |-> {}, to |-> ""])},
                          !.report.dirs = @ + 1]
        [] e.type = "link" -> [next EXCEPT !.at = @ \cup {CopySymlink(e)}, !.report.links = @ + 1]
        [] OTHER -> PlaceFile(next, e, clones)

\* The entries the walk may come to next: those of the directories it made.
Reached(w) == {e \in w.tree \ w.seen : Len(e.path) = 1 \/ \E d \in w.seen : d.path = Front(e.path)}

\* The walk is over, or an operation on the disk fails.
WalkEnds(w) == [w EXCEPT !.copier = IF Reached(w) = {} THEN "copied" ELSE "failed"]

\* Run::execute goes on after materialize, unless it was aborted: the step runs, or an error
\* is reported, and the workspace is discarded after the report.
Executes(w) == [w EXCEPT !.ran = w.copier = "copied", !.copier = "done"]

\* What a job does: it writes into a file, makes it executable, or removes a name.
JobWrites(w, n, what) ==
  [w EXCEPT !.writes = @ + 1,
            !.inodes = [i \in DOMAIN @ |-> IF i \in n.inode /\ what = "write" THEN [@[i] EXCEPT !.data = "theirs"]
                                           ELSE IF i \in n.inode /\ what = "chmod" THEN [@[i] EXCEPT !.exec = ~@] ELSE @[i]],
            !.at = IF what = "remove" THEN @ \ {n} ELSE @]

\* NodeSink::cancel: the run is aborted at its next await, and the workspace discarded.
CancelRun(w) == [w EXCEPT !.cancelled = TRUE, !.cleaner = "removing"]

\* discard: every name goes, the deepest first; a name that appears behind it makes it give up.
RemoveName(w, n) == [w EXCEPT !.at = @ \ {n}]
DiscardEnds(w) == [w EXCEPT !.cleaner = "ended", !.root = IF w.at = {} THEN FALSE ELSE @]

Discards(w) ==
  {RemoveName(w, n) : n \in {m \in w.at : ~\E k \in w.at : Len(k.path) > Len(m.path) /\ IsPrefix(m.path, k.path)}}
  \cup (IF w.at = {} \/ w.copier = "copying" THEN {DiscardEnds(w)} ELSE {})

\* The steps of the run, of the job in it, of cancel and of a cleaner.
WorkspaceSteps(w) ==
  (IF w.copier = "idle" THEN {Materialize(w)} ELSE {})
  \cup (IF w.copier = "copying" THEN {CopyEntry(w, e, c) : e \in Reached(w), c \in BOOLEAN} \cup {WalkEnds(w)} ELSE {})
  \cup (IF w.copier \in {"copied", "failed"} /\ ~w.cancelled THEN {Executes(w)} ELSE {})
  \cup (IF w.copier = "done" /\ w.ran /\ w.cleaner = "none" /\ w.writes < MaxJobWrites
        THEN {JobWrites(w, n, what) : n \in {m \in w.at : m.type = "file"}, what \in {"write", "chmod", "remove"}} ELSE {})
  \cup (IF w.copier = "done" /\ w.cleaner = "none" THEN {[w EXCEPT !.cleaner = "removing"]} ELSE {})
  \cup (IF ~w.cancelled /\ w.cleaner = "none" THEN {CancelRun(w)} ELSE {})
  \cup (IF w.cleaner = "removing" THEN Discards(w) ELSE {})

-----------------------------------------------------------------------------
\* The tree a workspace shows.
Shown(w) ==
  {[path |-> n.path, type |-> n.type, exec |-> IF n.type = "file" THEN w.inodes[CHOOSE i \in n.inode : TRUE].exec ELSE n.exec,
    data |-> CASE n.type = "file" -> w.inodes[CHOOSE i \in n.inode : TRUE].data [] n.type = "link" -> n.to [] OTHER -> ""] : n \in w.at}

\* Whatever the job does to its files, the store's are what they were; a step runs on the
\* whole tree, byte for byte and bit for bit, however its files were placed; what was placed
\* is what is counted; and a run that nobody cancelled leaves nothing.
WorkspaceIsItsOwn(w) ==
  /\ \A e \in FilesOf(w.tree) : w.inodes[Inode("store", e.path)] = [data |-> e.data, exec |-> e.exec]
  /\ w.copier = "done" /\ w.ran /\ w.writes = 0 /\ w.cleaner = "none" =>
       /\ Shown(w) = w.tree
       /\ w.report.cloned + w.report.copied = Cardinality(FilesOf(w.tree))
       /\ w.report.copied > 0 <=> w.report.fallback # "none"
  /\ w.cleaner = "ended" /\ ~w.cancelled => ~w.root /\ w.at = {}

\* What single use asks for: a cancelled step leaves no workspace either.
CancelledLeavesNothing(w) == w.cleaner = "ended" /\ w.copier # "copying" => w.at = {}
=============================================================================
