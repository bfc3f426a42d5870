----------------------------- MODULE WireNames -----------------------------
(***************************************************************************)
(* The strings that decide whose work is whose:                            *)
(*   canonical_repo, tenant_of, check_path_segment, check_log_key and      *)
(*   sanitize_summary (crates/hull-ci-proto/src/lib.rs),                   *)
(*   log_key_for (crates/hull-ci-node/src/agent.rs) and accepted_log_key   *)
(*   (crates/hull-ci-control/src/control.rs).                              *)
(*                                                                         *)
(* A string is a sequence of symbols, one per class of characters that     *)
(* these functions tell apart: names keep two letters, the rest is         *)
(* whitespace, a control or invisible character, and the four separators.  *)
(***************************************************************************)
EXTENDS Naturals, FiniteSets, SequencesExt

Letters == {"a", "b"}
Space == " "
Control == "ctl"        \* any control character, and the two Unicode line breaks
Invisible == "zw"       \* is_invisible_formatting
Escape == "esc"
Bracket == "["
Slash == "/"
Backslash == "\\"
Dot == "."

White(c) == c \in {Space, Control}

\* str::split_once: what is before the first c of s and what is after it.
SplitAt(s, c) ==
  LET at == {i \in DOMAIN s : s[i] = c}
      first == CHOOSE i \in at : \A j \in at : i <= j
  IN  IF at = {} THEN {} ELSE {[before |-> SubSeq(s, 1, first - 1), after |-> SubSeq(s, first + 1, Len(s))]}

\* str::trim, on a string whose only whitespace is Space.
Trim(s) ==
  LET kept == {i \in 1..Len(s) : s[i] # Space}
  IN  IF kept = {} THEN <<>>
      ELSE SubSeq(s, CHOOSE i \in kept : \A j \in kept : i <= j, CHOOSE i \in kept : \A j \in kept : j <= i)

\* str::split('/').
Split(s) ==
  FoldLeft(LAMBDA out, c : IF c = Slash THEN Append(out, <<>>)
                           ELSE [out EXCEPT ![Len(out)] = Append(@, c)],
           << <<>> >>, s)

Joined(segments) ==
  FoldLeft(LAMBDA out, seg : IF out = <<>> THEN seg ELSE out \o <<Slash>> \o seg, <<>>, segments)

\* Mutant: dots are ordinary characters.
PathSegmentDotted(seg) ==
  /\ seg # <<>>
  /\ \A i \in 1..Len(seg) : ~White(seg[i]) /\ seg[i] \notin {Invisible, Escape, Backslash}

\* check_path_segment (an escape is a control character).
PathSegment(seg) ==
  /\ seg # <<>> /\ seg \notin {<<Dot>>, <<Dot, Dot>>}
  /\ \A i \in 1..Len(seg) : ~White(seg[i]) /\ seg[i] \notin {Invisible, Escape, Backslash}

Refused == <<"refused">>

\* Mutant: the padding inside the string stays.
CanonicalRepoOuter(repo) ==
  LET segments == [i \in 1..Len(Split(Trim(repo))) |-> Split(Trim(repo))[i]]
  IN  IF Trim(repo) # <<>> /\ \A i \in 1..Len(segments) : PathSegment(Trim(segments[i]))
      THEN Joined(segments) ELSE Refused

\* canonical_repo: one spelling, or none.
EachTrimmed(segments) == [i \in 1..Len(segments) |-> Trim(segments[i])]
CanonicalOf(trimmed, segments) ==
  IF trimmed # <<>> /\ \A i \in 1..Len(segments) : PathSegment(segments[i]) THEN Joined(segments) ELSE Refused
CanonicalRepo(repo) == CanonicalOf(Trim(repo), EachTrimmed(Split(Trim(repo))))

\* tenant_of: the first segment, or the whole string when there is none.
TenantOf(repo) ==
  LET first == Trim(Split(Trim(repo))[1])
  IN  IF first = <<>> THEN Trim(repo) ELSE first

\* check_log_key.
LogKeyOk(key) == key # <<>> /\ \A i \in 1..Len(Split(key)) : PathSegment(Split(key)[i])

\* Dispatch::canonicalize at the door, then log_key_for on the node: the key of a
\* step of a job, or none.
Prefix(repo, tree) == TenantOf(repo) \o <<Slash>> \o repo \o <<Slash>> \o tree \o <<Slash>>
LogKeyFor(repo, tree, stepName) ==
  LET key == Prefix(repo, tree) \o stepName \o <<Slash, "1">>
  IN  IF LogKeyOk(key) THEN key ELSE Refused

\* Mutant: the prefix is compared before the shape of the key is.
AcceptedLogKeyByPrefix(reported, prefix) ==
  IF reported # Refused /\ IsPrefix(prefix, reported) THEN reported ELSE Refused

\* accepted_log_key: what the control plane stores of a node's claim.
AcceptedLogKey(reported, prefix) ==
  IF reported # Refused /\ LogKeyOk(reported) /\ IsPrefix(prefix, reported) THEN reported ELSE Refused

\* What an object store or a file system makes of a key: dots resolve upwards,
\* empty segments vanish.
Resolved(key) ==
  FoldLeft(LAMBDA out, seg : CASE seg \in {<<>>, <<Dot>>} -> out
                               [] seg = <<Dot, Dot>> -> IF out = <<>> THEN out ELSE Front(out)
                               [] OTHER -> Append(out, seg),
           <<>>, Split(key))

-----------------------------------------------------------------------------
\* sanitize_summary, one symbol at a time.  mode is what the loop is in the middle
\* of: text, just after an escape, or inside an escape sequence.
SanitizeStep(max, acc, c) ==
  LET shown == IF c = Control THEN Space ELSE c IN
  CASE acc.mode = "sequence" -> [acc EXCEPT !.mode = IF c \in Letters THEN "text" ELSE "sequence"]
    [] acc.mode = "escape" /\ c = Bracket -> [acc EXCEPT !.mode = "sequence"]
    [] c = Escape /\ acc.mode # "sequence" -> [acc EXCEPT !.mode = "escape"]
    [] OTHER ->
       IF acc.full \/ c = Invisible \/ (shown = Space /\ acc.spaced)
       THEN [acc EXCEPT !.mode = "text"]
       ELSE IF Len(acc.out) >= max THEN [acc EXCEPT !.mode = "text", !.full = TRUE]
       ELSE [out |-> Append(acc.out, shown), spaced |-> shown = Space, mode |-> "text", full |-> FALSE]

\* Mutant: an escape goes, and what it introduced stays.
SanitizeSummaryShallow(raw, max) ==
  Trim(FoldLeft(LAMBDA acc, c : IF c = Escape THEN acc ELSE SanitizeStep(max, acc, c),
                [out |-> <<>>, spaced |-> FALSE, mode |-> "text", full |-> FALSE], raw).out)

SanitizeSummary(raw, max) ==
  Trim(FoldLeft(LAMBDA acc, c : SanitizeStep(max, acc, c),
                [out |-> <<>>, spaced |-> FALSE, mode |-> "text", full |-> FALSE], raw).out)

-----------------------------------------------------------------------------
\* One tenant has one spelling: the canonical form of a repo is its own canonical
\* form, it names the tenant that the repo named, and two repos that differ only in
\* padding have the same one.
OneSpelling(repo) ==
  \A c \in {CanonicalRepo(repo)} :
  c # Refused => /\ CanonicalRepo(c) = c /\ TenantOf(c) = TenantOf(repo)
                 /\ Split(c)[1] = TenantOf(c)
                 /\ ~\E i \in 1..Len(c) : White(c[i])
                 /\ c = SelectSeq(repo, LAMBDA x : x # Space)

\* A log key the control plane stores lies under the job's own prefix, as a store that
\* resolves paths reads it, whatever name the pipeline gave the step and whatever the
\* node reported.
LogStaysHome(repo, tree, reported) ==
  LET c == CanonicalRepo(repo)
      home == Resolved(Prefix(c, tree))
      key == AcceptedLogKey(reported, Prefix(c, tree))
  IN  c # Refused /\ key # Refused => IsStrictPrefix(home, Resolved(key))

\* A summary is one printable line within its length, and the second pass every
\* summary gets changes nothing.
OneLine(raw, max) ==
  LET s == SanitizeSummary(raw, max) IN
  /\ Len(s) <= max
  /\ \A i \in 1..Len(s) : s[i] \notin {Control, Invisible, Escape}
  /\ \A i \in 1..Len(s) - 1 : ~(s[i] = Space /\ s[i + 1] = Space)
  /\ SanitizeSummary(s, max) = s

\* An escape sequence leaves nothing behind but the text after it.
EscapesLeaveNothing(raw, max) ==
  \A i \in 1..Len(raw) - 2 :
    raw[i] = Escape /\ raw[i + 1] = Bracket /\ raw[i + 2] \in Letters /\ Escape \notin {raw[j] : j \in 1..i - 1}
      => SanitizeSummary(raw, max) =
           SanitizeSummary(SubSeq(raw, 1, i - 1) \o SubSeq(raw, i + 3, Len(raw)), max)
=============================================================================
