----------------------------- MODULE PlanValues -----------------------------
(***************************************************************************)
(* What a pipeline file may say and what is made of it:                    *)
(*   the rules of crates/hull-ci-plan/src/validate.rs, unpack_shard and    *)
(*   truncate (eval.rs), Limits::clamped (lib.rs), sanitize_message        *)
(*   (error.rs); the clocks of crates/hull-ci-control/src/timeouts.rs and  *)
(*   of the node; and, where there is no pipeline file, the detector of    *)
(*   crates/hull-ci-node/src/detect.rs.                                    *)
(*                                                                         *)
(* A string is a sequence of symbols, as in WireNames.  A parser answers   *)
(* with the set of what it read, which is empty when it refuses.           *)
(***************************************************************************)
EXTENDS Integers, WireNames

CONSTANTS MaxText,                 \* the length that stands for each MAX_*_LEN
          MaxShard,
          MaxWord,                 \* the largest u64
          PerMinute, PerHour,      \* seconds
          TimeoutCeiling,          \* MAX_TIMEOUT_HOURS, in seconds
          DefaultStep, MaxStep,    \* Timeouts::step and max_step
          NodeStep,                \* NodeConfig::max_step_timeout
          MinStack,
          MaxMessage, MaxEcho      \* MAX of sanitize_message, and the 32 of truncate

LineBreak == "nl"                  \* a newline or a tab: whitespace and a control character
IsControl(c) == c \in {Control, Escape, LineBreak}
Every(s, Ok(_)) == \A i \in 1..Len(s) : Ok(s[i])
WordChar(c) == c \in Letters \cup {"_", "-"}

\* check_step_name, check_cache_scope, check_image_ref, check_list_item and check_run.
CheckStepName(s) == Len(s) \in 1..MaxText /\ Every(s, LAMBDA c : WordChar(c) \/ c = Slash)
CheckCacheScope(s) == Len(s) \in 1..MaxText /\ Every(s, WordChar)
CheckImageRef(s) == Len(s) \in 1..MaxText /\ Every(s, LAMBDA c : ~IsControl(c))
CheckListItem(s) == Len(s) <= MaxText /\ Every(s, LAMBDA c : ~IsControl(c))
CheckRun(s) == Len(s) <= MaxText /\ Every(s, LAMBDA c : ~IsControl(c) \/ c = LineBreak)

\* check_action.
CheckAction(uses, registry) == uses \in registry

Digits == [d \in {"0", "1", "9"} |-> CASE d = "0" -> 0 [] d = "1" -> 1 [] d = "9" -> 9]

\* str::parse::<u64>: digits, with a plus sign in front or none, that fit.
ParseWord(s) ==
  LET t == IF s # <<>> /\ s[1] = "+" THEN Tail(s) ELSE s
      value[i \in 0..Len(t)] == IF i = 0 THEN 0 ELSE 10 * value[i - 1] + Digits[t[i]]
  IN  IF t # <<>> /\ Every(t, LAMBDA c : c \in DOMAIN Digits) /\ value[Len(t)] <= MaxWord
      THEN {value[Len(t)]} ELSE {}

UnitOf(c) == CASE c = "s" -> {1} [] c = "m" -> {PerMinute} [] c = "h" -> {PerHour} [] OTHER -> {}

\* Mutant: the product wraps.
CheckedMulWraps(n, by) == {(n * by) % (MaxWord + 1)}

\* checked_mul.
CheckedMul(n, by) == {n * by} \cap (0..MaxWord)

\* parse_timeout: in seconds.
ParseTimeout(raw) ==
  IF raw = <<>> THEN {}
  ELSE {secs \in UNION {CheckedMul(n, u) : n \in ParseWord(Front(raw)) \ {0}, u \in UnitOf(Last(raw))} : secs <= TimeoutCeiling}

\* unpack_shard: a Starlark value is a string, a bool or an int.
UnpackShard(v) ==
  CASE v.type = "str" -> IF v.is = "auto" THEN {"auto"} ELSE {}
    [] v.type = "bool" -> {}
    [] OTHER -> {n \in {v.is} : n \in 1..MaxShard}

\* Limits::clamped.
Clamped(l) ==
  LET AtLeast(n, floor) == IF n < floor THEN floor ELSE n
  IN  [f \in DOMAIN l |-> CASE f = "raw_nesting" -> AtLeast(l[f], AtLeast(l.nesting, 1)) [] f = "stack" -> AtLeast(l[f], MinStack)
                            [] OTHER -> AtLeast(l[f], 1)]

\* truncate: an echo of the author's string, with an ellipsis.
Truncate(s) == IF Len(s) > MaxEcho THEN SubSeq(s, 1, MaxEcho) \o <<"ellipsis">> ELSE s

\* str::split_whitespace.
Tokens(s) ==
  SelectSeq(FoldLeft(LAMBDA out, c : IF c \in {Space, LineBreak} THEN Append(out, <<>>) ELSE [out EXCEPT ![Len(out)] = Append(@, c)],
                     << <<>> >>, s),
            LAMBDA t : t # <<>>)

\* Mutant: the string is a path or is not.
ElidedWhole(token, first) == IF first /\ token[1] = Slash THEN <<"<path>">> ELSE token

\* A token that is a path to all appearances.
Elided(token, first) ==
  IF token[1] = Slash \/ (\E i \in 1..Len(token) - 1 : token[i] = ":" /\ token[i + 1] = Backslash) THEN <<"<path>">> ELSE token

\* sanitize_message: tokens until the cap, then without control characters.
SanitizeMessage(raw) ==
  LET tokens == Tokens(raw)
      out[i \in 0..Len(tokens)] ==
        IF i = 0 THEN <<>>
        ELSE IF Len(out[i - 1]) >= MaxMessage THEN out[i - 1]
        ELSE (IF out[i - 1] = <<>> THEN <<>> ELSE out[i - 1] \o <<Space>>) \o Elided(tokens[i], i = 1)
      shown == SelectSeq(out[Len(tokens)], LAMBDA c : ~IsControl(c))
  IN  Trim(SubSeq(shown, 1, IF Len(shown) > MaxMessage THEN MaxMessage ELSE Len(shown)))

-----------------------------------------------------------------------------
\* Timeouts::step_timeout, of what the plan asked for (nothing: {}); the Assignment carries
\* it, and the node has a ceiling of its own.
AtMost(n, cap) == IF n > cap THEN cap ELSE n
StepTimeout(asked) == AtMost(IF asked = {} THEN DefaultStep ELSE CHOOSE n \in asked : TRUE, MaxStep)
NodeTimeout(asked) == AtMost(StepTimeout(asked), NodeStep)

-----------------------------------------------------------------------------
\* Mutant: an assignment is a target.
IsTestTargetLineAny(line) ==
  /\ line # <<>> /\ line[1] \notin {Space, LineBreak, "#"} /\ \E i \in 1..Len(line) : line[i] = ":"
  /\ \E i \in 1..Len(line) : line[i] = "test" /\ \A j \in 1..i : line[j] # ":"

\* is_test_target_line, of a line as its words, colons, equals signs and spaces.
IsTestTargetLine(line) ==
  LET colons == {i \in 1..Len(line) : line[i] = ":"}
      at == CHOOSE i \in colons : \A j \in colons : i <= j
      At(i, c) == i <= Len(line) /\ line[i] = c
      WordAt(i) == (i = 1 \/ line[i - 1] = Space) /\ line[i] = "test" /\ line[i + 1] \in {Space, ":"}
  IN  /\ line # <<>> /\ line[1] \notin {Space, LineBreak, "#"} /\ colons # {}
      /\ ~At(at + 1, "=") /\ ~(At(at + 1, ":") /\ At(at + 2, "=")) /\ \A i \in 1..at : line[i] # "="
      /\ \E i \in 1..at - 1 : WordAt(i)

\* detect_test_command: files is what is at the root; lines the lines of each makefile.
Makefiles == <<"Makefile", "makefile", "GNUmakefile">>
DetectTestCommand(files, lines) ==
  CASE "Cargo.toml" \in files -> "cargo test" [] "package.json" \in files -> "npm test" [] "go.mod" \in files -> "go test"
    [] \E f \in ToSet(Makefiles) \cap files : \E l \in lines[f] : IsTestTargetLine(l) -> "make test"
    [] OTHER -> "none"

-----------------------------------------------------------------------------
\* A timeout that is accepted is the one that is written, times its unit, and every numeral
\* with a unit that is within the ceiling is accepted.  The clock on the node never outlasts
\* the one the sweep goes by, and neither outlasts what the plan asked for.
TimeoutIsAsWritten(raw) ==
  LET Place(t, i) == Digits[t[i]] * 10^(Len(t) - i)
      written == IF raw # <<>> /\ raw[1] = "+" THEN Tail(raw) ELSE raw
      digits == IF written = <<>> THEN <<>> ELSE Front(written)
      legal == digits # <<>> /\ Every(digits, LAMBDA c : c \in DOMAIN Digits) /\ Last(raw) \in {"s", "m", "h"}
      secs == FoldSet(LAMBDA i, sum : sum + Place(digits, i), 0, 1..Len(digits))
                * (CASE Last(raw) = "s" -> 1 [] Last(raw) = "m" -> PerMinute [] OTHER -> PerHour)
      got == ParseTimeout(raw)
  IN  /\ got = IF legal THEN {secs} \cap (1..TimeoutCeiling) ELSE {}
      /\ NodeTimeout(got) <= StepTimeout(got) /\ \A n \in got : StepTimeout(got) <= n /\ NodeTimeout(got) > 0

\* A name that is legal has a log key unless a separator in it separates nothing; no two
\* steps share one; and a scope is one segment of a path.
LegalNamesHaveKeys(one, other) ==
  LET Key(s) == LogKeyFor(<<"a", Slash, "b">>, <<"b">>, s)
  IN  /\ CheckStepName(one) /\ (\A seg \in ToSet(Split(one)) : seg # <<>>) => Key(one) # Refused
      /\ CheckStepName(one) /\ CheckStepName(other) /\ Key(one) = Key(other) /\ Key(one) # Refused => one = other
      /\ CheckCacheScope(one) => PathSegment(one) /\ CheckStepName(one)
      /\ CheckStepName(one) => CheckImageRef(one) /\ CheckListItem(one)
      /\ CheckListItem(one) => CheckRun(one)

\* What an author is told is one line and bounded, and shows no path to all appearances,
\* unless control characters hide it from the search; nor is an echo longer than its cap.
MessageIsSafe(raw) ==
  LET m == SanitizeMessage(raw)
  IN  /\ Len(m) <= MaxMessage /\ Every(m, LAMBDA c : ~IsControl(c)) /\ Trim(m) = m
      /\ Every(raw, LAMBDA c : c \notin {Control, Escape}) =>
           \A i \in 1..Len(m) : m[i] = Slash => i > 1 /\ m[i - 1] # Space
      /\ Len(Truncate(raw)) <= MaxEcho + 1 /\ (Len(raw) <= MaxEcho => Truncate(raw) = raw)

\* A clamped bound is usable, clamping it again changes nothing, and the raw nesting is
\* never the tighter of the two.
ClampedIsUsable(l) ==
  LET c == Clamped(l)
  IN  Clamped(c) = c /\ (\A f \in DOMAIN c : c[f] >= 1 /\ c[f] >= l[f]) /\ c.raw_nesting >= c.nesting

\* A boolean or a word is never a number of shards.
ShardIsAsWritten(v) == \A n \in UnpackShard(v) : n = v.is /\ v.type # "bool" /\ (v.type = "int" => n \in 1..MaxShard)

\* The detector says `make test` for a rule of `test` and not for a variable of that name:
\* the first colons or equals sign of the line decide (three colons and an equals sign,
\* which newer makes know, are outside).
DetectsTarget(line) ==
  LET first == {i \in 1..Len(line) : line[i] \in {":", "="} /\ \A j \in 1..i - 1 : line[j] \notin {":", "="}}
      Run(i) == {j \in i..Len(line) : \A k \in i..j : line[k] = ":"}
      Rule(i) == line[i] = ":" /\ (i + Cardinality(Run(i)) > Len(line) \/ line[i + Cardinality(Run(i))] # "=")
      Targets(i) == Tokens(SubSeq(line, 1, i - 1))
  IN  (\A i \in first : Cardinality(Run(i)) <= 2) =>
        (IsTestTargetLine(line) <=>
           /\ line # <<>> /\ line[1] \notin {Space, LineBreak, "#"}
           /\ \E i \in first : Rule(i) /\ <<"test">> \in ToSet(Targets(i)))

\* The command for a tree depends on what is at its root and not on the order of its files:
\* a makefile is read only where nothing else says what to run, and only for a target.
DetectionIsStable(files, line) ==
  LET lines == [f \in ToSet(Makefiles) |-> {line}]
      others == files \ ToSet(Makefiles)
  IN  /\ others # {} => DetectTestCommand(files, lines) = DetectTestCommand(others, lines)
      /\ DetectTestCommand(files, lines) = "none" <=> others = {} /\ (files # {} => ~IsTestTargetLine(line))
=============================================================================
