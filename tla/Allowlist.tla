----------------------------- MODULE Allowlist -----------------------------
(***************************************************************************)
(* Where a package URL may lead (crates/hull-ci-proxy/src/allowlist.rs).   *)
(* A path is a sequence of symbols: a letter, the characters that separate *)
(* or climb, and their percent-encodings.  What a URL parser makes of a    *)
(* path, and an upstream of the path it gets, is external.                 *)
(***************************************************************************)
EXTENDS WireNames

Colon == ":"
EncDot == "%2e"         \* also the text that a doubly encoded dot decodes to
EncSlash == "%2f"
EncTwice == "%252e"

Base == <<"b">>         \* the one segment of an upstream's base path

\* percent_decode, once.
Decoded(s) ==
  [i \in 1..Len(s) |-> CASE s[i] = EncDot -> Dot [] s[i] = EncSlash -> Slash [] s[i] = EncTwice -> EncDot [] OTHER -> s[i]]

Slashed(s) == [i \in 1..Len(s) |-> IF s[i] = Backslash THEN Slash ELSE s[i]]

Climbs(seg) == seg \in {<<Dot, Dot>>, <<EncDot, EncDot>>}

ViewsRaw(tail) == {tail}

Views(tail) == {tail, Decoded(tail)}

\* reject_traversal.
Traverses(tail) ==
  \/ Len(tail) >= 1 /\ tail[1] = Backslash
  \/ Len(tail) >= 2 /\ tail[1] = Slash /\ tail[2] \in {Slash, Backslash}
  \/ \E i \in 1..Len(tail) - 2 : SubSeq(tail, i, i + 2) = <<Colon, Slash, Slash>>
  \/ \E v \in Views(tail) : \E i \in 1..Len(v) : Control = v[i]
  \/ \E v \in Views(tail) : LET segs == Split(Slashed(v)) IN \E i \in 1..Len(segs) : Climbs(segs[i])

-----------------------------------------------------------------------------
\* Dot segments, in one of their spellings, are gone from a resolved path.
Normal(segs, dots) ==
  FoldLeft(LAMBDA out, seg :
    IF \E i \in 1..Len(seg) : seg[i] \notin dots THEN Append(out, seg)
    ELSE IF Len(seg) = 1 THEN out
    ELSE IF Len(seg) = 2 THEN (IF out = <<>> THEN out ELSE SubSeq(out, 1, Len(out) - 1))
    ELSE Append(out, seg), <<>>, segs)

\* Url::join: a scheme replaces the base outright, else the path is appended.
Join(tail) ==
  IF \E i \in 2..Len(tail) : tail[i] = Colon /\ \A j \in 1..i - 1 : tail[j] \in Letters
  THEN [origin |-> "other", path |-> <<tail>>]
  ELSE [origin |-> "upstream", path |-> Normal(<<Base>> \o Split(Slashed(tail)), {Dot, EncDot})]

\* What the upstream serves: it decodes the path it is sent, once, and resolves that.
Served(path) == Normal(Split(Slashed(Decoded(Joined(path)))), {Dot})

-----------------------------------------------------------------------------
\* tail.trim_start_matches('/').
TrimSlashes(tail) ==
  LET kept == {i \in 1..Len(tail) : tail[i] # Slash}
  IN  IF kept = {} THEN <<>> ELSE SubSeq(tail, CHOOSE i \in kept : \A j \in kept : i <= j, Len(tail))

\* Allowlist::resolve: the path to fetch, if it is one.
Resolve(tail) ==
  LET url == Join(TrimSlashes(tail))
  IN  IF ~Traverses(tail) /\ url.origin = "upstream" /\ url.path # <<>> /\ url.path[1] = Base
      THEN {url.path} ELSE {}

\* A path the proxy fetches leads to what lies under the upstream's base, when the
\* upstream has decoded it too.
StaysUnderBase(tail) == \A p \in Resolve(tail) : Served(p) # <<>> /\ Served(p)[1] = Base
=============================================================================
