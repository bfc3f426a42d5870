---------------------------- MODULE TreeDigest ----------------------------
(***************************************************************************)
(* What a step depends on in a tree: the address of an extracted tree      *)
(* (crates/hull-ci-fetch/src/verify.rs) and the digest of the entries an   *)
(* inputs glob selects (crates/hull-ci-fetch/src/digest.rs).               *)
(*                                                                         *)
(* An extracted tree is a set of entries [path, type, exec, data]; a path  *)
(* is a sequence of names, a name and a glob are strings as in WireNames.  *)
(* A BLAKE3 hash is the value that was hashed: it is taken as injective.   *)
(***************************************************************************)
EXTENDS WireNames

CONSTANTS MaxTreeDepth, \* KeelTreeVerifier::max_depth
          MaxGlobstars  \* MAX_GLOBSTARS

AnyMany == "*"
AnyOne == "?"
Globstar == <<AnyMany, AnyMany>>

Failed == [ok |-> FALSE]

-----------------------------------------------------------------------------
\* The walk that verifies a tree, and keeps its structure for the digests.
Children(tree, dir) == {e \in tree : Len(e.path) = Len(dir) + 1 /\ SubSeq(e.path, 1, Len(dir)) = dir}

\* Mutant: every regular file has one mode.
FileModeOne(e) == "file"

\* file_mode: any execute bit.
FileMode(e) == IF e.exec THEN "exec" ELSE "file"

\* A link is hashed as its target, never followed.
BlobEntry(e) ==
  [name |-> Last(e.path), mode |-> IF e.type = "link" THEN "link" ELSE FileMode(e), id |-> [blob |-> e.data], dir |-> {}]

DirEntry(name, sub) == [name |-> name, mode |-> "dir", id |-> sub.id, dir |-> {sub}]

RECURSIVE Walk(_, _, _)
Walk(tree, dir, depth) ==
  LET here == Children(tree, dir)
      subs == [e \in {c \in here : c.type = "dir"} |-> Walk(tree, e.path, depth + 1)]
      entries == {IF e.type = "dir" THEN DirEntry(Last(e.path), subs[e]) ELSE BlobEntry(e) : e \in here}
  IN  IF \/ depth > MaxTreeDepth
         \/ \E e \in here : e.type = "other"
         \/ \E e \in DOMAIN subs : ~subs[e].ok
      THEN Failed
      ELSE [ok |-> TRUE, entries |-> entries,
            id |-> [tree |-> {[name |-> e.name, mode |-> e.mode, id |-> e.id] : e \in entries}]]

TreeId(tree) == Walk(tree, <<>>, 0)

\* verify: expected is an address, or text that is not one (normalize_tree_id).
Verify(tree, expected) ==
  /\ expected.ok
  /\ TreeId(tree).ok
  /\ TreeId(tree).id = expected.id

-----------------------------------------------------------------------------
\* Shape::parse.
Wild(seg) == \E i \in 1..Len(seg) : seg[i] \in {AnyMany, AnyOne}

Globstars(segs) == Cardinality({i \in 1..Len(segs) : segs[i] = Globstar})

Parse(glob) ==
  LET trimmed == Trim(glob)
      segs == SelectSeq(Split(trimmed), LAMBDA seg : seg # <<>>)
      front == SubSeq(segs, 1, Len(segs) - 1)
      wildFront == \E i \in 1..Len(front) : Wild(front[i])
  IN  IF \/ trimmed = <<>>
         \/ trimmed[1] = Slash
         \/ \E i \in 1..Len(segs) : segs[i] \in {<<Dot>>, <<Dot, Dot>>}
         \/ Globstars(segs) > MaxGlobstars
      THEN Failed
      ELSE IF Last(segs) = Globstar /\ ~wildFront THEN [ok |-> TRUE, shape |-> "prefix", segs |-> front]
      ELSE IF ~wildFront /\ ~Wild(Last(segs)) THEN [ok |-> TRUE, shape |-> "exact", segs |-> segs]
      ELSE [ok |-> TRUE, shape |-> "pattern", segs |-> segs]

\* Mutant: a star, once passed, is not come back to.
RetryNever(m) == [m EXCEPT !.fail = TRUE]

\* The last star takes one character more.
Retry(m) == IF m.star = 0 THEN [m EXCEPT !.fail = TRUE]
            ELSE [m EXCEPT !.pi = m.star + 1, !.resume = @ + 1, !.ni = m.resume + 1]

\* One turn of the loop of segment_matches.
MatchStep(p, n, m) ==
  IF m.fail \/ m.ni > Len(n) THEN m
  ELSE IF m.pi <= Len(p) /\ p[m.pi] \in {AnyOne, n[m.ni]} THEN [m EXCEPT !.pi = @ + 1, !.ni = @ + 1]
  ELSE IF m.pi <= Len(p) /\ p[m.pi] = AnyMany THEN [m EXCEPT !.star = m.pi, !.resume = m.ni, !.pi = @ + 1]
  ELSE Retry(m)

\* segment_matches; the loop turns at most once per pair of positions, and once more.
SegmentMatches(p, n) ==
  LET last == FoldLeft(LAMBDA m, i : MatchStep(p, n, m), [pi |-> 1, ni |-> 1, star |-> 0, resume |-> 1, fail |-> FALSE],
                       [i \in 1..(Len(p) + 1) * (Len(n) + 1) |-> i])
  IN  /\ ~last.fail /\ last.ni > Len(n)
      /\ \A i \in last.pi..Len(p) : p[i] = AnyMany

-----------------------------------------------------------------------------
Child(dir, name) == {e \in dir.entries : e.name = name}

\* descend: the entry at a path, if there is one.
Descend(root, path) ==
  FoldLeft(LAMBDA found, name : UNION {UNION {Child(d, name) : d \in e.dir} : e \in found},
           {DirEntry(<<>>, root)}, path)

Matched(path, e) == [path |-> path, mode |-> e.mode, id |-> e.id]

EmptyDir(e) == \E d \in e.dir : d.entries = {}

\* collect; a set, as the code sorts what it collected and drops what repeats.
RECURSIVE Collect(_, _, _)
Collect(pattern, dir, prefix) ==
  LET first == Head(pattern)
      rest == Tail(pattern)
      Under(pat, e) == UNION {Collect(pat, d, Append(prefix, e.name)) : d \in e.dir}
  IN  IF first = Globstar
      THEN IF rest = <<>>
           THEN IF dir.entries = {} THEN {} ELSE {Matched(prefix, DirEntry(<<>>, dir))}
           ELSE Collect(rest, dir, prefix) \cup UNION {Under(pattern, e) : e \in dir.entries}
      ELSE LET hits == {e \in dir.entries : SegmentMatches(first, e.name)}
           IN  IF rest = <<>> THEN {Matched(Append(prefix, e.name), e) : e \in hits}
               ELSE UNION {Under(rest, e) : e \in hits}

\* TreeIndex::subtree_digest.  A walk that fails, or a glob that does not parse, has none.
SubtreeDigest(tree, glob) ==
  LET root == TreeId(tree)
      how == Parse(glob)
  IN  IF ~root.ok \/ ~how.ok THEN Failed
      ELSE LET matched == IF how.shape = "pattern" THEN Collect(how.segs, root, <<>>)
                          ELSE {Matched(how.segs, e) : e \in {d \in Descend(root, how.segs) : ~EmptyDir(d)}}
           IN  [ok |-> TRUE, selected |-> Cardinality(matched),
                digest |-> [shape |-> how.shape, glob |-> glob, matched |-> matched]]

-----------------------------------------------------------------------------
(***************************************************************************)
(* What the code is compared with: a glob's meaning, by its definition.    *)
(***************************************************************************)
RECURSIVE Like(_, _)
Like(p, n) ==
  IF p = <<>> THEN n = <<>>
  ELSE IF Head(p) = AnyMany THEN \E k \in 0..Len(n) : Like(Tail(p), SubSeq(n, k + 1, Len(n)))
  ELSE n # <<>> /\ Head(p) \in {AnyOne, Head(n)} /\ Like(Tail(p), Tail(n))

\* A trailing ** stands for at least as many names as least.
RECURSIVE PathLike(_, _, _)
PathLike(segs, path, least) ==
  IF segs = <<>> THEN path = <<>>
  ELSE IF segs = <<Globstar>> THEN Len(path) >= least
  ELSE IF Head(segs) = Globstar
       THEN \E k \in 0..Len(path) : PathLike(Tail(segs), SubSeq(path, k + 1, Len(path)), least)
       ELSE path # <<>> /\ Like(Head(segs), Head(path)) /\ PathLike(Tail(segs), Tail(path), least)

\* The entries a glob names, and those below a directory it names.
Covered(tree, glob, least) ==
  LET segs == SelectSeq(Split(Trim(glob)), LAMBDA seg : seg # <<>>)
  IN  {e \in tree : \E k \in 0..Len(e.path) : PathLike(segs, SubSeq(e.path, 1, k), least)}

Contents(entries) == {e \in entries : e.type # "dir"}

\* Two trees with one digest agree on every file the glob covers; a glob that selected
\* nothing covers no file; and trees that agree on what it may cover have one digest,
\* so that a change elsewhere leaves the step cached.
DigestIsFaithful(trees, glob) ==
  LET rows == {[of |-> SubtreeDigest(t, glob), must |-> Contents(Covered(t, glob, 1)), may |-> Covered(t, glob, 0)] :
                 t \in trees}
  IN  \A r, s \in {x \in rows : x.of.ok} :
        /\ r.of.digest = s.of.digest => r.must = s.must
        /\ r.of.selected = 0 => r.must = {}
        /\ r.may = s.may => r.of = s.of

\* segment_matches is what its stars and question marks mean.
MatchesAreLike(pattern, names) == \A n \in names : SegmentMatches(pattern, n) = Like(pattern, n)

\* A tree is accepted under the address of another one if and only if they are one
\* tree: the same names, links, execute bits and contents.
VerifiedIsTheTree(t, u) ==
  TreeId(u).ok => (Verify(t, TreeId(u)) <=> t = u)
=============================================================================
