------------------------------ MODULE Planner ------------------------------
(***************************************************************************)
(* How a pipeline file becomes a plan, without the language it is written  *)
(* in (crates/hull-ci-plan and the planners of crates/hull-ci-server):     *)
(*   read_pipeline and PipelinePlanner::plan decide whether there is one,  *)
(*   shape::measure refuses source the parser could not survive,           *)
(*   Recorder takes the builtin calls of the evaluation one by one,        *)
(*   to_step_spec hands the steps to the control plane.                    *)
(*                                                                         *)
(* A builtin call is a record [fn, arg, needs, good]: good says that its   *)
(* strings and lists satisfy the checks of validate.rs that need nothing   *)
(* but the string itself.                                                  *)
(***************************************************************************)
EXTENDS Naturals, FiniteSets, SequencesExt

CONSTANTS MaxSteps, MaxDepth  \* Limits::max_steps and max_depth, after clamped

ASSUME PlannerAssumption == MaxSteps \in Nat \ {0} /\ MaxDepth \in Nat \ {0}

NotSet == "unset"

-----------------------------------------------------------------------------
\* Recorder::new.  depths[i] belongs to steps[i].
EmptyRecorder ==
  [image |-> NotSet, trust |-> NotSet, scope |-> NotSet, steps |-> <<>>, depths |-> <<>>, failure |-> "none"]

\* Recorder::fail: the first typed failure is the one reported.
Fail(rec, kind) == IF rec.failure = "none" THEN [rec EXCEPT !.failure = kind] ELSE rec

IndexOf(rec, name) == {i \in 1..Len(rec.steps) : rec.steps[i].name = name}

\* set_image, set_trust and set_cache_scope.
Declare(rec, field, call) ==
  IF rec[field] # NotSet THEN Fail(rec, "Redeclared")
  ELSE IF ~call.good THEN Fail(rec, "BadValue")
  ELSE [rec EXCEPT ![field] = call.arg]

\* 1 + the depth of the deepest step that is needed, or 1.
DepthOf(rec, needed) ==
  LET under == UNION {{rec.depths[i] : i \in IndexOf(rec, n)} : n \in needed}
  IN  IF under = {} THEN 1 ELSE 1 + CHOOSE d \in under : \A e \in under : e <= d

\* Mutant: the step is indexed before its needs are looked up.
PushStepIndexedFirst(rec, call) ==
  LET depth == DepthOf(rec, call.needs) IN
  CASE ~call.goodName -> Fail(rec, "Name")
    [] IndexOf(rec, call.arg) # {} -> Fail(rec, "DuplicateName")
    [] Len(rec.steps) >= MaxSteps -> Fail(rec, "Steps")
    [] ~call.good -> Fail(rec, "BadValue")
    [] \E n \in call.needs : IndexOf(rec, n) = {} /\ n # call.arg -> Fail(rec, "DanglingNeeds")
    [] depth > MaxDepth -> Fail(rec, "Depth")
    [] OTHER -> [rec EXCEPT !.steps = Append(@, [name |-> call.arg, needs |-> call.needs]),
                            !.depths = Append(@, depth)]

\* State::push: the checks in their order, then the step joins the graph.  A need is
\* looked up among the steps already there.
PushStep(rec, call) ==
  LET depth == DepthOf(rec, call.needs) IN
  CASE ~call.goodName -> Fail(rec, "Name")
    [] IndexOf(rec, call.arg) # {} -> Fail(rec, "DuplicateName")
    [] Len(rec.steps) >= MaxSteps -> Fail(rec, "Steps")
    [] ~call.good -> Fail(rec, "BadValue")
    [] \E n \in call.needs : IndexOf(rec, n) = {} -> Fail(rec, "DanglingNeeds")
    [] depth > MaxDepth -> Fail(rec, "Depth")
    [] OTHER -> [rec EXCEPT !.steps = Append(@, [name |-> call.arg, needs |-> call.needs]),
                            !.depths = Append(@, depth)]

\* step and action, with build_step: a step without run, a malformed timeout or shard
\* fail before push is reached.
StepCall(rec, call) == IF call.built THEN PushStep(rec, call) ELSE Fail(rec, "NothingToRun")

\* One builtin call of a running evaluation; a failure unwinds it.
Builtin(rec, call) ==
  IF rec.failure # "none" THEN rec
  ELSE IF call.fn = "step" THEN StepCall(rec, call)
  ELSE Declare(rec, call.fn, call)

\* Trust::effective_tier.
EffectiveTier(floor, trust) ==
  IF floor = "microvm" \/ trust # "trusted" THEN "microvm" ELSE "container"

-----------------------------------------------------------------------------
\* What PipelinePlanner::plan makes of the file in the tree: read_pipeline's answers,
\* then the evaluation's outcome.
PlanFrom(file, evaluated, detected) ==
  CASE file = "absent" -> [kind |-> "plan", steps |-> detected]
    [] file \in {"unreadable", "not_a_file", "too_large", "not_utf8"} -> [kind |-> "invalid", steps |-> <<>>]
    [] evaluated.failure # "none" -> [kind |-> "invalid", steps |-> <<>>]
    [] OTHER -> [kind |-> "plan", steps |-> evaluated.steps]

\* to_step_spec and the plan graph the driver gets.
NeedsOf(steps) ==
  [n \in {steps[i].name : i \in 1..Len(steps)} |->
     UNION {steps[i].needs : i \in {j \in 1..Len(steps) : steps[j].name = n}}]

-----------------------------------------------------------------------------
(* shape::measure, over symbols: brackets, a quote, a backslash, a comment sign,
   newline, semicolon, a word, and a space.  Triple quotes are left out. *)
Open == "("
Close == ")"
Quote == "'"
Hash == "#"
LineEnd == "n"
Escaped == "\\"
Semi == ";"

Less(n) == IF n = 0 THEN 0 ELSE n - 1
Larger(a, b) == IF a >= b THEN a ELSE b

\* raw_nesting: every bracket in the file.
RawStep(acc, c) ==
  CASE c = Open  -> [depth |-> acc.depth + 1, max |-> Larger(acc.max, acc.depth + 1)]
    [] c = Close -> [acc EXCEPT !.depth = Less(@)]
    [] OTHER -> acc
RawNesting(source) == FoldLeft(RawStep, [depth |-> 0, max |-> 0], source).max

\* Mutant: a newline ends the statement, brackets or not.
EndsStatementAlways(acc, c) == c \in {LineEnd, Semi}

\* A statement ends at a newline or semicolon outside brackets, unless a backslash
\* joins the lines.
EndsStatement(acc, c) == c \in {LineEnd, Semi} /\ acc.depth = 0 /\ ~(c = LineEnd /\ acc.last = Escaped)

\* skip_string: inside a literal, to its closing quote; a backslash covers the next
\* symbol, and a line end closes what nobody closed.
InString(acc, c) ==
  [acc EXCEPT !.last = c,
              !.mode = CASE acc.mode = "escape" -> "string"
                         [] c = Escaped -> "escape"
                         [] c = Quote -> "code"
                         [] OTHER -> "string"]

\* scan, one symbol at a time.  mode is code, string, comment, or escape: the symbol
\* after a backslash in a string.
ScanStep(acc, c) ==
  LET said == [acc EXCEPT !.last = c]
      weigh == [said EXCEPT !.weight = @ + 1]
  IN  CASE acc.mode = "escape" \/ (acc.mode = "string" /\ c # LineEnd) -> InString(acc, c)
        [] acc.mode = "comment" /\ c # LineEnd -> said
        [] EndsStatement(acc, c) ->
             [said EXCEPT !.mode = "code", !.heaviest = Larger(@, acc.weight), !.weight = 0]
        [] c = LineEnd \/ c = Semi -> [said EXCEPT !.mode = "code"]
        [] c = Hash -> [said EXCEPT !.mode = "comment"]
        [] c = Quote -> [weigh EXCEPT !.mode = "string"]
        [] c = Open -> [weigh EXCEPT !.depth = @ + 1, !.nesting = Larger(@, acc.depth + 1)]
        [] c = Close -> [weigh EXCEPT !.depth = Less(@)]
        [] OTHER -> weigh

Scan(source) ==
  LET end == FoldLeft(ScanStep, [mode |-> "code", depth |-> 0, nesting |-> 0, weight |-> 0,
                                 heaviest |-> 0, last |-> LineEnd], source)
  IN  [codeNesting |-> end.nesting, statementWeight |-> Larger(end.heaviest, end.weight)]

(* The block chain: a line is its indentation and what it starts with. *)
ChainStep(acc, line) ==
  LET n == CASE line.starts = "elif" -> acc.at[line.indent] + 1
             [] line.starts = "if"   -> 1
             [] line.starts = "else" -> acc.at[line.indent]
             [] OTHER -> 0
  IN  [at |-> [acc.at EXCEPT ![line.indent] = n],
       longest |-> IF line.starts \in {"if", "elif"} THEN Larger(acc.longest, n) ELSE acc.longest]
BlockChain(lines) == FoldLeft(ChainStep, [at |-> [i \in 0..1 |-> 0], longest |-> 0], lines).longest

-----------------------------------------------------------------------------
\* A recording that did not fail is a plan the driver can finish: names are unique,
\* every need is declared, before the step that has it, and the depth kept with each
\* step is the longest chain of needs that ends there, within the bounds.
PlanIsRunnable(rec) ==
  LET steps == rec.steps
      chains == UNION {[1..k -> 1..Len(steps)] : k \in 1..Len(steps)}
      needy(c) == \A i \in 1..Len(c) - 1 : steps[c[i]].name \in steps[c[i + 1]].needs
  IN  /\ \A i, j \in 1..Len(steps) : steps[i].name = steps[j].name => i = j
      /\ \A i \in 1..Len(steps) : steps[i].needs \subseteq {steps[j].name : j \in 1..i - 1}
      /\ Len(steps) <= MaxSteps /\ Len(rec.depths) = Len(steps)
      /\ \A i \in 1..Len(steps) :
           /\ rec.depths[i] <= MaxDepth
           /\ \E c \in chains : c[Len(c)] = i /\ needy(c) /\ Len(c) = rec.depths[i]
           /\ \A c \in chains : c[Len(c)] = i /\ needy(c) => Len(c) <= rec.depths[i]

\* The two bounds that guard the parser agree: a statement is at least as heavy as its
\* brackets are deep, so no layout of the lines hides nesting from max_statement_weight.
WeightCoversNesting(source) == Scan(source).codeNesting <= Scan(source).statementWeight

\* "Always >= code_nesting" (shape.rs).
RawCoversCode(source) == Scan(source).codeNesting <= RawNesting(source)

\* "The longest run of elif branches at one indentation level": a ladder at column 0 is
\* broken only by a statement at column 0.
ChainIsCounted(lines) ==
  \A i, j \in 1..Len(lines) :
    /\ i <= j /\ \A k \in i..j : lines[k].indent = 1 \/ lines[k].starts \in {"elif", "else", "comment"}
    => Cardinality({k \in i..j : lines[k].indent = 0 /\ lines[k].starts = "elif"}) <= BlockChain(lines)
=============================================================================
