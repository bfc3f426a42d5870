------------------------------ MODULE Extract ------------------------------
(***************************************************************************)
(* Reading an archive into an empty directory                              *)
(* (crates/hull-ci-fetch/src/extract.rs).  An archive is a sequence of     *)
(* entries [kind, path, priv, exec, declared, data, target]; declared is   *)
(* the size in the header and Len(data) what the stream delivers.  A path  *)
(* is its components; an absolute one begins with the empty name.  The     *)
(* directory is a tree as in TreeDigest: create_dir, create_new and        *)
(* symlink fail where there is something already, or no directory above.   *)
(***************************************************************************)
EXTENDS TreeDigest

CONSTANTS MaxEntries, MaxFileBytes, MaxTotalBytes, MaxPathDepth, MaxNameBytes, \* Limits
          MaxArchive    \* max_archive_bytes, in entry headers and bytes of data

Acute == "acute"        \* a combining mark; with the letter before it, one character in NFC
EAcute == "e-acute"

EmptyArchive == [dest |-> {}, claimed |-> {}, links |-> {}, dirs |-> {}, count |-> 0, bytes |-> 0,
                 remaining |-> MaxArchive, refused |-> FALSE, listed |-> {}]

Refuse(st) == [st EXCEPT !.refused = TRUE]

-----------------------------------------------------------------------------
\* str::nfc.
Nfc(name) ==
  FoldLeft(LAMBDA out, c : IF c = Acute /\ out # <<>> /\ Last(out) = "e" THEN Append(Front(out), EAcute)
                           ELSE Append(out, c), <<>>, name)

\* Mutant: two spellings of a name are two names.
ClaimKeyRaw(path) == path

\* The key of claim.
ClaimKey(path) == [i \in 1..Len(path) |-> Nfc(path[i])]

GoodName(name) ==
  /\ name # <<>> /\ name # <<Dot, Dot>> /\ Len(name) <= MaxNameBytes
  /\ \A i \in 1..Len(name) : name[i] \notin {Backslash, Control}

\* check_path: the components that count, if every one is a plain name.
CheckPath(path) == SelectSeq(path, LAMBDA name : name # <<Dot>>)

PathOk(path) == Len(CheckPath(path)) <= MaxPathDepth /\ \A i \in 1..Len(CheckPath(path)) : GoodName(CheckPath(path)[i])

Parents(rel) == {SubSeq(rel, 1, k) : k \in 1..Len(rel) - 1}

\* check_symlink_ancestors.
UnderLink(st, rel) == (Parents(rel) \cup {rel}) \cap st.links # {}

PathsOf(tree) == {e.path : e \in tree}

\* make_dirs: a prefix made before is passed over, anything else there is a conflict.
MakeDirs(st, prefixes) ==
  LET new == prefixes \ st.dirs
  IN  IF new \cap PathsOf(st.dest) # {} THEN Refuse(st)
      ELSE [st EXCEPT !.dirs = @ \cup new,
                      !.dest = @ \cup {[path |-> p, type |-> "dir", exec |-> FALSE, data |-> <<>>] : p \in new}]

\* create_new and symlink.
Create(st, rel, type, exec, data) ==
  IF st.refused \/ rel \in PathsOf(st.dest) \/ ~(Parents(rel) \subseteq st.dirs) THEN Refuse(st)
  ELSE [st EXCEPT !.dest = @ \cup {[path |-> rel, type |-> type, exec |-> exec, data |-> data]}]

Least(m, n) == IF m <= n THEN m ELSE n

\* Mutant: the room for a file is a file's.
RoomOne(st) == MaxFileBytes

\* What is left for one file.
Room(st) == Least(MaxFileBytes, MaxTotalBytes - st.bytes)

\* write_file, with the stream's own cap (Capped::read); set_mode keeps one bit.
WriteFile(st, e, rel) ==
  LET made == MakeDirs(st, Parents(rel))
      written == Least(Len(e.data), Room(st) + 1)
  IN  IF e.declared > MaxFileBytes \/ made.refused \/ written > st.remaining \/ written > Room(st) THEN Refuse(st)
      ELSE Create([made EXCEPT !.bytes = @ + written, !.remaining = @ - written], rel, "file", e.exec, e.data)

\* The target of a link, from the link's own directory, may not climb past the root.
StaysInside(rel, target) ==
  LET depth == FoldLeft(LAMBDA d, name : IF d < 0 \/ name = <<Dot>> THEN d ELSE IF name = <<Dot, Dot>> THEN d - 1 ELSE d + 1,
                        Len(rel) - 1, target)
  IN  depth >= 0 /\ \A i \in 1..Len(target) : target[i] # <<>>

\* write_symlink.
WriteSymlink(st, e, rel) ==
  IF ~StaysInside(rel, e.target) THEN Refuse(st)
  ELSE LET made == Create(MakeDirs(st, Parents(rel)), rel, "link", FALSE, e.target)
       IN  [made EXCEPT !.links = @ \cup {rel}]

\* State::entry, once the header is read.
ReadEntry(before, e) ==
  LET rel == CheckPath(e.path)
      st == [before EXCEPT !.remaining = @ - 1]
      claimed == [st EXCEPT !.claimed = @ \cup {ClaimKey(rel)}, !.count = @ + 1, !.listed = @ \cup {[entry |-> e, rel |-> rel]}]
  IN  IF before.remaining = 0 \/ e.kind = "broken" THEN Refuse(before)
      ELSE IF e.kind = "global" THEN st
      ELSE IF st.count >= MaxEntries \/ e.priv \/ ~PathOk(e.path) THEN Refuse(st)
      ELSE IF rel = <<>> THEN st
      ELSE IF UnderLink(st, rel) \/ ClaimKey(rel) \in st.claimed \/ e.kind = "special" THEN Refuse(st)
      ELSE IF e.kind = "dir" THEN MakeDirs(claimed, Parents(rel) \cup {rel})
      ELSE IF e.kind = "file" THEN WriteFile(claimed, e, rel)
      ELSE WriteSymlink(claimed, e, rel)

-----------------------------------------------------------------------------
TotalBytes(tree) == FoldFunction(+, 0, [e \in {f \in tree : f.type = "file"} |-> Len(e.data)])

\* While nothing was refused, the directory holds what the archive lists and nothing
\* else: every entry at its own path, with its kind, its bytes and its execute bit,
\* below directories only, of which those not listed lead to an entry that is.  No two
\* entries have one name after normalization, and the caps hold.
ArchiveIsTheTree(st) ==
  ~st.refused =>
    /\ \A e \in st.dest : /\ Cardinality({f \in st.dest : f.path = e.path}) = 1
                          /\ \A p \in Parents(e.path) : \E f \in st.dest : f.path = p /\ f.type = "dir"
    /\ \A l \in st.listed :
         \E f \in st.dest : /\ f.path = l.rel /\ f.type = l.entry.kind
                            /\ f.type = "file" => f.data = l.entry.data /\ f.exec = l.entry.exec
    /\ \A e \in st.dest : \/ \E l \in st.listed : l.rel = e.path
                          \/ e.type = "dir" /\ \E l \in st.listed : e.path \in Parents(l.rel)
    /\ \A k, l \in st.listed : Len(k.rel) = Len(l.rel) /\ (\A i \in 1..Len(k.rel) : Nfc(k.rel[i]) = Nfc(l.rel[i])) => k = l
    /\ TotalBytes(st.dest) <= MaxTotalBytes /\ Cardinality(st.listed) <= MaxEntries
    /\ \A e \in st.dest : Len(e.path) <= MaxPathDepth /\ (e.type = "file" => Len(e.data) <= MaxFileBytes)
=============================================================================
