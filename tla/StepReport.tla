----------------------------- MODULE StepReport -----------------------------
(***************************************************************************)
(* How a run becomes a verdict.  A step on the development backend         *)
(* (crates/hull-ci-node/src/local.rs over process.rs and sandbox.rs), the  *)
(* report the agent makes of its end (agent.rs), what the control plane    *)
(* keeps of the report (crates/hull-ci-control/src/control.rs), and the    *)
(* verdict and summary the aggregator builds (aggregate.rs, timeouts.rs).  *)
(*                                                                         *)
(* Strings are sequences of symbols, as in WireNames; each fixed piece of  *)
(* a template is one symbol.                                               *)
(***************************************************************************)
EXTENDS Integers, WireNames

CONSTANTS SummaryMax, NameCap, DetailCap   \* SUMMARY_MAX_CHARS, NAME_CAP and DETAIL_CAP

Backtick == "bt"
Apostrophe == "tick"

-----------------------------------------------------------------------------
\* A sandbox of the local backend: the job's process and one it may leave behind, both of
\* which hold the pipes, and the directory made for it.
LocalSandbox(valid, argv) ==
  [at |-> "spawn", valid |-> valid, argv |-> argv, guard |-> "fresh", scratch |-> "none", child |-> "none", left |-> FALSE,
   captured |-> FALSE, exec |-> "none", kept |-> FALSE]

\* spawn: validate_spec, then a directory of its own that rehome points HOME and TMPDIR to.
SpawnsLocal(l) ==
  {[l EXCEPT !.at = "report", !.exec = "refused"]}
  \cup (IF l.valid THEN {[l EXCEPT !.at = "exec", !.scratch = "made"]} ELSE {})

\* exec: validate_exec, UseGuard::begin_exec, and the process.  One that cannot be started
\* leaves nothing to collect.
ExecsLocal(l) ==
  IF l.argv = <<>> THEN {[l EXCEPT !.at = "collect", !.exec = "error"]}
  ELSE {[l EXCEPT !.at = "collect", !.exec = "error", !.guard = "executed"], [l EXCEPT !.at = "run", !.child = "alive", !.guard = "executed"]}

\* The job: it may start a process that stays, and ends as it likes.
OwnEnds == {"zero", "nonzero", "signal"}
ChildMoves(l) ==
  (IF l.child = "alive" THEN {[l EXCEPT !.child = e] : e \in OwnEnds} \cup {[l EXCEPT !.left = TRUE]} ELSE {})
  \cup (IF l.left THEN {[l EXCEPT !.left = FALSE]} ELSE {})

\* ExecStatus::from_exit.
FromExit(child) == child

\* Mutant: a process that was killed ended by a signal.
ClockFiresSignal(l) == [l EXCEPT !.at = "collect", !.child = IF @ = "alive" THEN "killed" ELSE @, !.exec = "signal", !.captured = TRUE]

\* run_to_completion, when the clock fires: the child is killed, and that is the outcome
\* whatever the child was about to do.
ClockFires(l) == [l EXCEPT !.at = "collect", !.child = IF @ = "alive" THEN "killed" ELSE @, !.exec = "timeout", !.captured = TRUE]

\* run_to_completion: end of file on both pipes and then the exit, an error of the pipes
\* (which drops the child, and kill_on_drop ends it), or the clock.
CompletesLocal(l) ==
  (IF l.child \in OwnEnds /\ ~l.left THEN {[l EXCEPT !.at = "collect", !.exec = FromExit(l.child), !.captured = TRUE]} ELSE {})
  \cup {ClockFires(l), [l EXCEPT !.at = "collect", !.child = IF @ = "alive" THEN "killed" ELSE @, !.exec = "error"]}

\* collect, after an exec or without one; destroy: the directory goes, if it can.
CollectsLocal(l) == {[l EXCEPT !.at = "destroy", !.guard = "collected", !.kept = l.captured]}
DestroysLocal(l) == {[l EXCEPT !.at = "report", !.scratch = s, !.guard = "destroyed"] : s \in {"none", "stuck"}}

\* The run is aborted: the child and the directory are dropped with the future.
DropsLocal(l) ==
  {[l EXCEPT !.at = "dropped", !.child = IF @ = "alive" THEN "killed" ELSE @, !.scratch = IF @ = "made" THEN "none" ELSE @]}

LocalSteps(l) ==
  CASE l.at = "spawn" -> SpawnsLocal(l) [] l.at = "exec" -> ExecsLocal(l) \cup DropsLocal(l)
    [] l.at = "run" -> ChildMoves(l) \cup CompletesLocal(l) \cup DropsLocal(l)
    [] l.at = "collect" -> CollectsLocal(l) \cup DropsLocal(l) [] l.at = "destroy" -> DestroysLocal(l) \cup DropsLocal(l)
    [] OTHER -> {}

-----------------------------------------------------------------------------
\* NodeErrorKind: prefix, reason and from_detail.
ErrorKinds == {"no_tests", "timeout", "infra"}
KindPrefix == [k \in ErrorKinds |-> CASE k = "no_tests" -> <<"no_tests:", Space>> [] k = "timeout" -> <<"timeout:", Space>> [] k = "infra" -> <<"infra:", Space>>]
FromDetail(detail) == {k \in ErrorKinds : IsPrefix(KindPrefix[k], detail)}

\* report, errored and summary_of.
ReportOf(outcome, code, detail) == [outcome |-> outcome, reason |-> {}, code |-> code, detail |-> SanitizeSummary(detail, SummaryMax)]
ErroredOf(kind, detail) ==
  [ReportOf("errored", {}, detail) EXCEPT !.reason = {kind}, !.detail = KindPrefix[kind] \o @]
SummaryOf(tail, fallback) ==
  LET shown == SanitizeSummary(tail, SummaryMax) IN IF shown = <<>> THEN fallback ELSE shown

\* The end of run_inner: exec is how it ended, tail what it printed.
RunReport(exec, tail) ==
  CASE exec = "zero" -> ReportOf("passed", {0}, SummaryOf(tail, <<"passed">>))
    [] exec = "nonzero" -> ReportOf("failed", {1}, SummaryOf(tail, <<"failed">>))
    [] exec = "signal" -> ReportOf("failed", {}, SummaryOf(tail, <<"killed">>))
    [] exec = "timeout" -> ErroredOf("timeout", <<"clock">>)
    [] exec = "no_tests" -> ErroredOf("no_tests", <<"undetected">>)
    [] OTHER -> ErroredOf("infra", <<"exec failed:", Space>> \o tail)

\* record_step_report, what it keeps: the reason is ours, whichever the node gave.
Recorded(name, report) ==
  [name |-> name, state |-> report.outcome, code |-> report.code, detail |-> SanitizeSummary(report.detail, SummaryMax),
   reason |-> IF report.outcome = "errored" THEN {"infra"} ELSE {}]

\* Expiry::reason, and what sweep keeps of a step whose clock fired.
ExpiryReason(expiry) == CASE expiry \in {"step", "job"} -> "timeout" [] expiry = "queue" -> "capacity" [] expiry = "fetch" -> "infra"
Expired(name, expiry) == [name |-> name, state |-> "errored", code |-> {}, detail |-> <<"exceeded">>, reason |-> {ExpiryReason(expiry)}]

\* Mutant: the label is cleaned and keeps its backticks.
QuotedPlain(raw, cap) == <<Backtick>> \o SanitizeSummary(raw, cap) \o <<Backtick>>

\* quoted: the label cannot close its own quotes.
Quoted(raw, cap) ==
  LET clean == SanitizeSummary(raw, cap)
  IN  <<Backtick>> \o [i \in 1..Len(clean) |-> IF clean[i] = Backtick THEN Apostrophe ELSE clean[i]] \o <<Backtick>>

Optionally(text, when) == IF when THEN text ELSE <<>>

DetailOf(step) == SanitizeSummary(step.detail, DetailCap)

\* red_summary, errored_summary and green_summary.
RedSummary(step) ==
  SanitizeSummary(<<"step", Space>> \o Quoted(step.name, NameCap) \o <<Space, "failed">> \o Optionally(<<Space, "exit">>, step.code # {})
                    \o Optionally(<<":", Space>> \o DetailOf(step), DetailOf(step) # <<>>) \o <<Space, "after">>, SummaryMax)
ErroredSummary(step) ==
  SanitizeSummary(<<"step", Space>> \o Quoted(step.name, NameCap) \o <<Space, "errored">>
                    \o Optionally(<<":", Space>> \o DetailOf(step), DetailOf(step) # <<>>) \o <<Space, "no verdict">>, SummaryMax)
GreenSummary(states) ==
  LET Some(s) == \E i \in 1..Len(states) : states[i] = s
  IN  SanitizeSummary(<<"steps">> \o Optionally(<<Space, "cached">>, Some("cached")) \o <<Space, "after">>
                        \o Optionally(<<Space, "tolerated">>, Some("failed")) \o Optionally(<<Space, "skipped">>, Some("skipped")), SummaryMax)

\* Verdict::green, red and errored, for the verdict of a job of one step.
VerdictOf(step) ==
  CASE step.state = "failed" -> [status |-> "red", reason |-> {}, summary |-> RedSummary(step)]
    [] step.state = "errored" -> [status |-> "errored", reason |-> IF step.reason = {} THEN {"infra"} ELSE step.reason, summary |-> ErroredSummary(step)]
    [] OTHER -> [status |-> "green", reason |-> {}, summary |-> GreenSummary(<<step.state>>)]

-----------------------------------------------------------------------------
\* However a run of the local backend ends, its process is gone and so is its directory, if
\* it could be removed; the sandbox was used once; and a step passed or failed only by an end
\* of its own, never by ours.
LocalEndsClean(l) ==
  /\ l.at \in {"report", "dropped"} => l.child # "alive" /\ l.scratch \in {"none", "stuck"}
  /\ l.at = "report" => l.guard = "destroyed" \/ l.exec = "refused"
  /\ l.exec \in OwnEnds => l.child = l.exec
  /\ l.child \in OwnEnds \cup {"alive", "killed"} => l.guard # "fresh" /\ l.valid
  /\ l.at = "report" /\ l.exec \in OwnEnds \cup {"timeout"} => l.kept

\* The verdict of a job says what happened to its step, whatever the step is called and
\* whatever it printed: green and red are the job's doing, a timeout or an outage is
\* neither; the reasons of an error are in the report in two forms that agree; and the
\* summary is one line, within its length, whose fixed words are all there and whose quotes
\* are the aggregator's.
VerdictIsTold(exec, name, tail) ==
  \A report \in {RunReport(exec, tail)} : \A step \in {Recorded(name, report)} : \A v \in {VerdictOf(step)} :
  LET ticks == {i \in 1..Len(v.summary) : v.summary[i] = Backtick}
  IN  /\ v.status = (CASE exec = "zero" -> "green" [] exec \in {"nonzero", "signal"} -> "red" [] OTHER -> "errored")
      /\ v.status = "errored" <=> v.reason # {}
      /\ report.outcome = "errored" => FromDetail(report.detail) = report.reason /\ FromDetail(step.detail) = report.reason
      /\ SanitizeSummary(v.summary, SummaryMax) = v.summary
      /\ v.status # "green" =>
           /\ v.summary[1] = "step" /\ v.summary[3] = Backtick
           /\ Last(v.summary) = IF v.status = "red" THEN "after" ELSE "no verdict"
           /\ \E i \in ticks : i > 3 /\ (\A j \in ticks : j <= 3 \/ j >= i) /\ i <= 4 + NameCap
                /\ v.summary[i + 1] = Space /\ v.summary[i + 2] \in {"failed", "errored"}

\* What a clock stopped is told as an error of the kind the clock is for.
ExpiryIsTold(name, expiry) ==
  LET v == VerdictOf(Expired(name, expiry))
  IN  v.status = "errored" /\ (v.reason = {"timeout"} <=> expiry \in {"step", "job"}) /\ Last(v.summary) = "no verdict"

\* A green line that names no exception has none: every step passed or was cached.
GreenTellsAll(states) ==
  LET words == ToSet(GreenSummary(states))
  IN  /\ "tolerated" \notin words => "failed" \notin ToSet(states)
      /\ "skipped" \notin words => "skipped" \notin ToSet(states)

\* What the comment on StepReport::reason says: the verdict of a step that errored gives the
\* reason the node gave.
ReasonSurvives(exec, name, tail) ==
  LET report == RunReport(exec, tail) IN report.outcome = "errored" => VerdictOf(Recorded(name, report)).reason = report.reason
=============================================================================
