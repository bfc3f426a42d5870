----------------------------- MODULE ClaimSeam -----------------------------
(***************************************************************************)
(* What trait JobClaims (crates/hull-ci-control/src/claims.rs) promises to *)
(* its caller, whichever store implements it: one tree has at most one     *)
(* job, a job that lost its tree never gets it back, a destination stays   *)
(* with its tree until the tree has an answer, and a job is answered once. *)
(* When a claim lapses is the implementation's business.                   *)
(***************************************************************************)
CONSTANTS Trees, Jobs, NoJob, Urls, Answers, NoAnswer

VARIABLES
  holder,   \* holder[t]: the job that stands for tree t, or NoJob
  dests,    \* dests[t]: the callback urls recorded against t's claim
  answer,   \* answer[t]: the verdict published on t's claim, or NoAnswer
  minted    \* the job ids that have ever won a claim

vars == <<holder, dests, answer, minted>>

Init ==
  /\ holder = [t \in Trees |-> NoJob]
  /\ dests = [t \in Trees |-> {}]
  /\ answer = [t \in Trees |-> NoAnswer]
  /\ minted = {}

\* admit, won: a job id nobody used before takes the tree.  Destinations of a
\* predecessor that was never answered come along.
Create(t, j, u) ==
  /\ j \notin minted
  /\ minted' = minted \cup {j}
  /\ holder' = [holder EXCEPT ![t] = j]
  /\ dests' = [dests EXCEPT ![t] = {u} \cup IF answer[t] = NoAnswer THEN @ ELSE {}]
  /\ answer' = [answer EXCEPT ![t] = NoAnswer]

\* admit, attached: the destination joins the claim in the same commit.
Attach(t, u) ==
  /\ holder[t] # NoJob
  /\ dests' = [dests EXCEPT ![t] = @ \cup {u}]
  /\ UNCHANGED <<holder, answer, minted>>

\* settle: one verdict per job.
Answer(t, v) ==
  /\ holder[t] # NoJob /\ answer[t] = NoAnswer
  /\ answer' = [answer EXCEPT ![t] = v]
  /\ UNCHANGED <<holder, dests, minted>>

\* forget.
Drop(t) ==
  /\ holder[t] # NoJob
  /\ holder' = [holder EXCEPT ![t] = NoJob]
  /\ dests' = [dests EXCEPT ![t] = {}]
  /\ answer' = [answer EXCEPT ![t] = NoAnswer]
  /\ UNCHANGED minted

Next ==
  \E t \in Trees :
    \/ \E u \in Urls : Attach(t, u) \/ \E j \in Jobs : Create(t, j, u)
    \/ \E v \in Answers : Answer(t, v)
    \/ Drop(t)

Spec == Init /\ [][Next]_vars
=============================================================================
