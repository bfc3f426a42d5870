------------------------------ MODULE StepMemo ------------------------------
(***************************************************************************)
(* The step memo (crates/hull-ci-control/src/memo.rs) as jobs use it: the  *)
(* key of a step, the lookups when a plan is resolved (phase_memo and the  *)
(* head of phase_run in control.rs) and the write when a node reports      *)
(* (record_step_report).                                                   *)
(*                                                                         *)
(* A plan is a sequence of steps [name, needs, inputs, def]; def stands    *)
(* for the image, the argv, the timeout, the tolerance, the secrets and    *)
(* the environment, which a key holds as they are.  A key is the record    *)
(* that is hashed into it, in a set that is empty for a step that is not   *)
(* cacheable.  The tier and the pipeline version are those of the process. *)
(***************************************************************************)
EXTENDS TreeDigest

CONSTANTS MemoJobs,               \* jobs
          MemoCases,              \* what a job may be, a sequence: [ctx (JobKeyContext), tree, specs, keyed]
          PassedTtl, FailedTtl,   \* MemoPolicy
          MemoCapacity,
          MaxMemoNow              \* bound: the clock

VARIABLES memo,     \* entries: [tenant, key, outcome, expires, seq]
          memoSeq,  \* next_seq
          memoJob,  \* a job's plan, its steps and how far phase_memo got
          memoNow,
          ran       \* history: what ran, how it ended, when

memoVars == <<memo, memoSeq, memoJob, memoNow, ran>>

-----------------------------------------------------------------------------
\* step_key.
StepKey(ctx, tree, spec, depKeys) ==
  LET answers == {[glob |-> Trim(g), of |-> SubtreeDigest(tree, Trim(g))] : g \in spec.inputs}
  IN  IF \/ spec.inputs = {}
         \/ \E a \in answers : ~a.of.ok
         \/ \A a \in answers : a.of.selected = 0
      THEN {}
      ELSE {[tenant |-> ctx.tenant, class |-> ctx.class, name |-> spec.name, def |-> spec.def,
             inputs |-> {<<a.glob, a.of.digest>> : a \in answers}, deps |-> depKeys]}

\* The key of the first step of that name, if one before the i-th has it.
KeyOfNeed(specs, keys, need) ==
  LET at == {i \in 1..Len(specs) : specs[i].name = need}
      first == CHOOSE i \in at : \A j \in at : i <= j
  IN  IF at = {} \/ first > Len(keys) THEN {} ELSE keys[first]

\* Mutant: a need that is not cacheable is left out of the key.
DepKeysKnown(specs, keys, needed) == {UNION {KeyOfNeed(specs, keys, n) : n \in needed}}

\* The keys of what a step needs, unless one of them has none.
DepKeys(specs, keys, needed) ==
  IF \E n \in needed : KeyOfNeed(specs, keys, n) = {} THEN {} ELSE {UNION {KeyOfNeed(specs, keys, n) : n \in needed}}

\* plan_step_keys.
PlanStepKeys(ctx, tree, specs) ==
  FoldLeft(LAMBDA keys, spec :
             Append(keys, UNION {StepKey(ctx, tree, spec, d) : d \in DepKeys(specs, keys, spec.needs)}),
           <<>>, specs)

-----------------------------------------------------------------------------
\* MemoOutcome::from_state.
FromState(state) == {o \in {"passed", "failed"} : o = state}

Believed(outcome) == IF outcome = "passed" THEN PassedTtl ELSE FailedTtl

Entry(tenant, key) == {e \in memo : e.tenant = tenant /\ e.key = key}

Held(entries, tenant) == Cardinality({e \in entries : e.tenant = tenant})

Oldest(entries) == CHOOSE e \in entries : \A f \in entries : e.seq <= f.seq

\* Mutant: the oldest entry of all.
EvicteeOldest(entries, recording) == Oldest(entries)

\* evictee: the oldest entry of the tenant that holds most; the writer wins a tie.
Evictee(entries, recording) ==
  LET tenants == {e.tenant : e \in entries}
      full == {t \in tenants : \A u \in tenants : Held(entries, u) <= Held(entries, t)}
      fullest == IF recording \in full THEN recording ELSE CHOOSE t \in full : TRUE
  IN  Oldest({e \in entries : e.tenant = fullest})

\* record.
Remember(tenant, key, outcome) ==
  LET kept == IF Cardinality(memo) >= MemoCapacity THEN memo \ {Evictee(memo, tenant)} ELSE memo
      old == {e \in kept : e.tenant = tenant /\ e.key = key}
  IN  (kept \ old) \cup {[tenant |-> tenant, key |-> key, outcome |-> outcome,
                          expires |-> memoNow + Believed(outcome), seq |-> memoSeq]}

-----------------------------------------------------------------------------
NoMemoJob == [phase |-> "none"]

\* The files a step declares, or the whole tree if it declares none that exist.
Declared(tree, inputs) ==
  LET files == UNION {Contents(Covered(tree, g, 1)) : g \in inputs}
  IN  IF files = {} THEN Contents(tree) ELSE files

\* What a step is a function of, by its definition: who runs it, its definition, the
\* files it declares and the same of what it needs.
RECURSIVE World(_, _, _, _)
World(ctx, tree, specs, i) ==
  [ctx |-> ctx, name |-> specs[i].name, def |-> specs[i].def,
   files |-> Declared(tree, specs[i].inputs),
   needs |-> {World(ctx, tree, specs, j) : j \in {k \in 1..i - 1 : specs[k].name \in specs[i].needs}}]

CaseOf(job) == MemoCases[job.case]
WorldsOf == [n \in DOMAIN MemoCases |-> LET c == MemoCases[n] IN [i \in DOMAIN c.specs |-> World(c.ctx, c.tree, c.specs, i)]]

MemoInit == memo = {} /\ memoSeq = 0 /\ memoJob = [j \in MemoJobs |-> NoMemoJob] /\ memoNow = 0 /\ ran = {}

\* phase_memo derives every key first; with no digester, or when that panics, none.
KeysOf(c) == IF c.keyed THEN PlanStepKeys(c.ctx, c.tree, c.specs) ELSE [i \in 1..Len(c.specs) |-> {}]

DerivesKeys(j) ==
  /\ memoJob[j] = NoMemoJob
  /\ \E n \in DOMAIN MemoCases :
       memoJob' = [memoJob EXCEPT ![j] = [phase |-> "resolving", case |-> n, keys |-> KeysOf(MemoCases[n]), at |-> memoNow, steps |-> <<>>]]
  /\ UNCHANGED <<memo, memoSeq, memoNow, ran>>

\* The next step's lookup, at the time phase_memo read; a hit is cached or failed.
LooksUp(j) ==
  /\ memoJob[j].phase = "resolving"
  /\ \E job \in {memoJob[j]} :
     \E found \in {UNION {Entry(CaseOf(job).ctx.tenant, k) : k \in job.keys[Len(job.steps) + 1]}} :
       LET live == {e \in found : job.at < e.expires}
           state == IF live = {} THEN "pending" ELSE IF \E e \in live : e.outcome = "passed" THEN "cached" ELSE "failed"
           steps == Append(job.steps, [state |-> state, hit |-> live # {}])
       IN  /\ memo' = memo \ (found \ live)
           /\ memoJob' = [memoJob EXCEPT ![j].steps = steps,
                                         ![j].phase = IF Len(steps) = Len(CaseOf(job).specs) THEN "running" ELSE @]
  /\ UNCHANGED <<memoSeq, memoNow, ran>>

\* A step that was run ends; record_step_report remembers it if it has a key.
ReportsStep(j) ==
  /\ memoJob[j].phase = "running"
  /\ \E i \in 1..Len(memoJob[j].steps), o \in {"passed", "failed", "errored"} :
       LET job == memoJob[j]
           writes == job.keys[i] # {} /\ FromState(o) # {}
       IN  /\ job.steps[i].state = "pending"
           /\ memoJob' = [memoJob EXCEPT ![j].steps[i].state = o]
           /\ ran' = IF o = "errored" THEN ran ELSE ran \cup {[case |-> job.case, step |-> i, outcome |-> o, at |-> memoNow]}
           /\ memoSeq' = IF writes THEN memoSeq + 1 ELSE memoSeq
           /\ memo' = IF writes THEN UNION {Remember(CaseOf(job).ctx.tenant, k, o) : k \in job.keys[i]} ELSE memo
  /\ UNCHANGED memoNow

\* A day, or the time a failure is remembered.
MemoTime == memoNow < MaxMemoNow /\ memoNow' = memoNow + 1 /\ UNCHANGED <<memo, memoSeq, memoJob, ran>>

MemoNext == MemoTime \/ \E j \in MemoJobs : DerivesKeys(j) \/ LooksUp(j) \/ ReportsStep(j)

-----------------------------------------------------------------------------
\* A step served from the memo was run before, for this tenant and class of author, on
\* the same files, after the same steps, with that outcome, and not longer ago than that
\* outcome is believed.  The memo stays within its capacity, and makes room at the
\* expense of another tenant only while that one holds more than the writer.
HitIsEarned ==
  /\ \A j \in MemoJobs : memoJob[j].phase # "none" =>
       \A i \in 1..Len(memoJob[j].steps) : memoJob[j].steps[i].hit =>
         \E r \in ran : /\ WorldsOf[r.case][r.step] = WorldsOf[memoJob[j].case][i]
                        /\ r.outcome = IF memoJob[j].steps[i].state = "cached" THEN "passed" ELSE "failed"
                        /\ memoJob[j].at < r.at + Believed(r.outcome)
  /\ Cardinality(memo) <= MemoCapacity
  /\ memo # {} =>
       \A t \in {MemoCases[n].ctx.tenant : n \in DOMAIN MemoCases} :
         LET victim == Evictee(memo, t).tenant
         IN  victim # t => Held(memo, victim) > Held(memo, t)
=============================================================================
