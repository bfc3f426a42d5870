------------------------------ MODULE JobModel ------------------------------
(***************************************************************************)
(* The job and step state machines of crates/hull-ci-control/src/model.rs, *)
(* as constant operators the component modules share.                      *)
(***************************************************************************)

\* Status, the three answers a callback can carry (hull-ci-proto).
Statuses == {"green", "red", "errored"}

\* "no verdict yet", the None of Option<Verdict>.
NoVerdict == "none"

JobStates == {"queued", "fetching", "planning", "running"}
               \cup Statuses \cup {"reported", "report_failed"}

\* JobState::has_verdict; JobState::is_finished is defined as the same thing.
HasVerdict(s) == s \in Statuses \cup {"reported", "report_failed"}

\* JobState::owes_a_verdict.
OwesAVerdict(s) == s # "reported"

\* JobState::can_transition_to.
JobEdge(s, t) ==
  \/ s = "queued" /\ t = "fetching"
  \/ s = "fetching" /\ t = "planning"
  \/ s = "planning" /\ t = "running"
  \/ s = "running" /\ t \in Statuses
  \/ s \in {"queued", "fetching", "planning"} /\ t = "errored"
  \/ s \in Statuses /\ t \in {"reported", "report_failed"}
  \/ s = "report_failed" /\ t = "reported"

\* Job::transition: an illegal edge is refused and leaves the state alone.
JobTransition(s, t) == IF JobEdge(s, t) THEN t ELSE s

StepStates == {"pending", "ready", "leased", "running", "passed", "failed",
               "errored", "cached", "skipped"}

\* StepState::is_terminal and StepState::is_in_flight.
StepTerminal(s) == s \in {"passed", "failed", "errored", "cached", "skipped"}
StepInFlight(s) == ~StepTerminal(s)

\* The states in which some node holds the step.
StepHeld(s) == s \in {"leased", "running"}

\* StepState::can_transition_to.
StepEdge(s, t) ==
  \/ s = "pending" /\ t = "ready"
  \/ s = "ready" /\ t = "leased"
  \/ s = "leased" /\ t = "running"
  \/ s \in {"leased", "running"} /\ t \in {"passed", "failed", "errored", "ready"}
  \/ s \in {"pending", "ready"} /\ t \in {"cached", "failed", "errored"}
  \/ s \in {"pending", "ready", "leased", "running"} /\ t = "skipped"

\* Step::transition.
StepTransition(s, t) == IF StepEdge(s, t) THEN t ELSE s
=============================================================================
