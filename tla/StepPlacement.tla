--------------------------- MODULE StepPlacement ---------------------------
(***************************************************************************)
(* From a dispatch to the sandbox its steps run in: the job                *)
(* (crates/hull-ci-control/src/model.rs), the tree (seams.rs and           *)
(* crates/hull-ci-server/src/fetch.rs), the plan and what of it is not     *)
(* honoured (pipeline.rs, plan.rs), the assignment (control.rs), the       *)
(* capability minted for it (server/src/node.rs), and the spec and the     *)
(* command the agent makes of it (crates/hull-ci-node/src/agent.rs).       *)
(*                                                                         *)
(* A value that may be missing is a set of one or none.                    *)
(***************************************************************************)
EXTENDS JobModel, SandboxPolicy, PlanValues, Startup

CONSTANTS MaxSourceBytes        \* Limits::max_source_bytes

-----------------------------------------------------------------------------
\* Dispatch, as the door let it in.
Dispatched(repo, tree, url, token) ==
  [repo |-> CanonicalRepo(repo), tree_id |-> tree, source_url |-> "source", callback_url |-> url, fetch_token |-> token]

\* Job::new.
NewJob(id, d, class, at, clock) ==
  [id |-> id, dispatch |-> d, class |-> class, state |-> "queued", steps |-> <<>>, verdict |-> {},
   created |-> at, deadline |-> at + clock, attempts |-> 0, urls |-> <<d.callback_url>>,
   delivery |-> {}, delivering |-> FALSE, delivered |-> {}, settled |-> {}]

\* Mutant: a retry of a dispatch is one more place to answer.
AddCallbackUrlAlways(job, url) == [job EXCEPT !.urls = Append(@, url)]

\* add_callback_url.
AddCallbackUrl(job, url) == IF url \in ToSet(job.urls) THEN job ELSE [job EXCEPT !.urls = Append(@, url)]

\* StepSpec::new, and Step::new: nothing that a node or a clock fills in is there yet.
NewStepSpec(name, argv, image) ==
  [name |-> name, argv |-> argv, image |-> image, timeout |-> {}, tolerated |-> FALSE, needs |-> {}, secrets |-> {},
   inputs |-> {}, env |-> {}]
NewStep(id, spec) ==
  [id |-> id, spec |-> spec, state |-> "pending", attempt |-> 0, node |-> {}, lease |-> {}, ready |-> {}, started |-> {},
   finished |-> {}, exit |-> {}, log |-> {}, detail |-> <<>>, reason |-> {}, key |-> {}]

-----------------------------------------------------------------------------
\* FetchRequest of phase_fetch: the only place the token goes to.
FetchRequest(d) == [tenant |-> TenantOf(d.repo), tree_id |-> d.tree_id, source_url |-> d.source_url, fetch_token |-> d.fetch_token]

\* VerifiedTree: a tree of the store, which is the tenant's, and the pin that keeps it.
VerifiedTree(req, cached) == [tree_id |-> req.tree_id, path |-> <<req.tenant, req.tree_id>>, cached |-> cached, keep_alive |-> {"pin"}]

\* to_seam_error.
ToSeamError(error) == IF error = "mismatch" THEN "tree_mismatch" ELSE "failed"

\* BrokerFetcher::fetch, of what ensure_tree answered.
BrokerFetch(req, answer) ==
  IF answer \in {"hit", "fetched"} THEN [tree |-> {VerifiedTree(req, answer = "hit")}, error |-> "none"]
  ELSE [tree |-> {}, error |-> ToSeamError(answer)]

-----------------------------------------------------------------------------
\* PlanStep and Pipeline, with what a file leaves out.
PlanStep(name) ==
  [name |-> name, kind |-> "run", script |-> "script", inputs |-> {}, cache |-> {}, secrets |-> {}, needs |-> {}, shard |-> {},
   timeout |-> {}, image |-> {}, tolerated |-> FALSE]
PipelineOf(steps) == [image |-> {}, trust |-> {}, scope |-> {}, steps |-> steps]

\* effective_image, and the server's own where neither names one.
EffectiveImage(step, pipeline) == IF step.image # {} THEN step.image ELSE pipeline.image
ImageOf(step, pipeline, default) ==
  IF EffectiveImage(step, pipeline) = {} THEN default ELSE CHOOSE i \in EffectiveImage(step, pipeline) : TRUE

\* to_step_spec: a script is one element of its argv.
ToStepSpec(step, pipeline, default) ==
  [NewStepSpec(step.name, IF step.kind = "run" THEN <<"/bin/sh", "-c", step.script>> ELSE <<"/bin/false", step.script>>,
               ImageOf(step, pipeline, default))
     EXCEPT !.needs = step.needs, !.secrets = step.secrets, !.inputs = step.inputs, !.timeout = step.timeout,
            !.tolerated = step.tolerated]

\* Mutant: a file that cannot be read is a file that is not there.
ReadPipelineKindly(entry) ==
  IF entry.is = "file" /\ entry.bytes <= MaxSourceBytes /\ entry.utf8 THEN "present" ELSE "absent"

\* read_pipeline: what is at the file's path, not followed if it is a link.
ReadPipeline(entry) ==
  CASE entry.is = "absent" -> "absent"
    [] entry.is = "file" /\ entry.bytes <= MaxSourceBytes /\ entry.utf8 -> "present"
    [] OTHER -> "invalid"

\* AutodetectPlanner::plan: one step, or nothing to run.
DetectedPlan(command, image) == IF command = "none" THEN <<>> ELSE <<NewStepSpec("test", <<command>>, image)>>

\* PipelinePlanner::plan; {} is PlanError::Invalid.
PlanSpecs(entry, pipeline, command, default) ==
  CASE ReadPipeline(entry) = "invalid" -> {}
    [] ReadPipeline(entry) = "absent" -> {DetectedPlan(command, default)}
    [] OTHER -> {[i \in DOMAIN pipeline.steps |-> ToStepSpec(pipeline.steps[i], pipeline, default)]}

\* Mutant: nobody is told that a step goes without its secrets.
WarnUnhonouredQuiet(pipeline, secretsDelivered) ==
  {<<f, {s.name : s \in {t \in ToSet(pipeline.steps) : t[f] # {}}}>> : f \in {"shard", "cache"}}
    \cup {<<"trust", {}>> : t \in pipeline.trust}

\* warn_unhonoured: which feature, and of which steps.
WarnUnhonoured(pipeline, secretsDelivered) ==
  LET with(f) == {s.name : s \in {t \in ToSet(pipeline.steps) : t[f] # {}}}
      dropped == {"shard", "cache"} \cup (IF secretsDelivered THEN {} ELSE {"secrets"})
  IN  {<<f, with(f)>> : f \in {g \in dropped : with(g) # {}}} \cup {<<"trust", {}>> : t \in pipeline.trust}

-----------------------------------------------------------------------------
\* Mutant: the tenant is what the dispatch calls the repo.
AssignmentForRepo(job, trees, stepId, tier) ==
  {[job_id |-> job.id, step_id |-> s.id, step_name |-> s.spec.name, tenant |-> job.dispatch.repo, repo |-> job.dispatch.repo,
    tree_id |-> job.dispatch.tree_id, argv |-> s.spec.argv, secrets |-> s.spec.secrets, image |-> s.spec.image, tier |-> tier,
    author |-> job.class, timeout |-> StepTimeout(s.spec.timeout)] :
     s \in {t \in ToSet(job.steps) : t.id = stepId /\ trees # {}}}

\* assignment_for: nothing, if the job's tree or the step is gone.
AssignmentFor(job, trees, stepId, tier) ==
  {[job_id |-> job.id, step_id |-> s.id, step_name |-> s.spec.name, tenant |-> TenantOf(job.dispatch.repo), repo |-> job.dispatch.repo,
    tree_id |-> job.dispatch.tree_id, argv |-> s.spec.argv, secrets |-> s.spec.secrets, image |-> s.spec.image, tier |-> tier,
    author |-> job.class, timeout |-> StepTimeout(s.spec.timeout)] :
     s \in {t \in ToSet(job.steps) : t.id = stepId /\ trees # {}}}

\* CapabilityRequest::for_assignment.
ForAssignment(a, node) == [tenant |-> a.tenant, job |-> a.job_id, node |-> node, declared |-> a.secrets, author |-> a.author]

\* SecretService::mint, as placement sees it: the names it may deliver, or why not.
BrokerMints(broker, q) ==
  CASE q.author = "outsider" -> "outsider"
    [] q.tenant \notin DOMAIN broker.stored -> "no_keys"
    [] q.declared \subseteq broker.stored[q.tenant] -> "minted"
    [] OTHER -> "unknown_secret"

\* Mutant: whatever the broker says, the step runs.
MintCapabilityAnyway(broker, a, node) ==
  IF broker.on /\ a.secrets # {} /\ BrokerMints(broker, ForAssignment(a, node)) = "minted"
  THEN [rejected |-> FALSE, token |-> {ForAssignment(a, node)}] ELSE [rejected |-> FALSE, token |-> {}]

\* mint_capability.
MintCapability(broker, a, node) ==
  LET q == ForAssignment(a, node)
  IN  CASE ~broker.on \/ a.secrets = {} -> [rejected |-> FALSE, token |-> {}]
        [] BrokerMints(broker, q) = "minted" -> [rejected |-> FALSE, token |-> {q}]
        [] BrokerMints(broker, q) = "outsider" -> [rejected |-> FALSE, token |-> {}]
        [] OTHER -> [rejected |-> TRUE, token |-> {}]

-----------------------------------------------------------------------------
\* NodeConfig with NodeAgent::new: every slot free, no tree warm.
NewAgent(id, slots, controls) ==
  [id |-> id, tier |-> "container", labels |-> <<>>, slots |-> slots, free |-> slots, warm |-> <<>>,
   caps |-> ToCapabilities(controls), unmet |-> UnmetClauses(ToCapabilities(controls)), workdir |-> "/workspace",
   limits |-> [cpus |-> 2000, memory |-> 4, pids |-> 2, tmpfs |-> 1]]

\* note_warm_tree.
NoteWarmTree(agent, tree) == IF tree \in ToSet(agent.warm) THEN agent ELSE [agent EXCEPT !.warm = Append(@, tree)]

\* run_assignment_with: a slot is taken and given back, never below none or above all.
TakesSlot(agent) == [agent EXCEPT !.free = IF @ = 0 THEN 0 ELSE @ - 1]
GivesSlot(agent) == [agent EXCEPT !.free = AtMost(@ + 1, agent.slots)]

\* NodeAgent::state, the heartbeat.
NodeState(agent) == [f \in {"id", "tier", "labels", "slots", "free", "warm", "caps"} |-> agent[f]]

\* InProcessFleet::assign, up to the task it spawns.
Assigns(agent, attached, broker, a) ==
  LET minted == MintCapability(broker, a, agent.id)
  IN  IF Admits(agent.tier, agent.caps, a) /\ attached /\ ~minted.rejected THEN {minted.token} ELSE {}

\* base_env_with_path.
BaseEnv == {"PATH", "HOME", "LANG", "CI", "TMPDIR"}

\* Mutant: what was asked for is what was authorised.
SandboxSpecAsked(agent, a, delivered, packages) ==
  [job_id |-> a.job_id, step_id |-> a.step_id, image |-> a.image, workspace |-> TRUE, workdir |-> agent.workdir,
   limits |-> agent.limits, env |-> BaseEnv, author |-> a.author, authorised |-> a.secrets \cup packages, secrets |-> delivered \cup packages]

\* Mutant: the package variables are ordinary ones.
SandboxSpecByValue(agent, a, delivered, packages) ==
  [job_id |-> a.job_id, step_id |-> a.step_id, image |-> a.image, workspace |-> TRUE, workdir |-> agent.workdir,
   limits |-> agent.limits, env |-> BaseEnv \cup packages, author |-> a.author, authorised |-> delivered, secrets |-> delivered]

\* SandboxSpec as run_inner builds it: the grant of the proxy takes the channel of the
\* secrets, and its names are vouched for with theirs.
SandboxSpecOf(agent, a, delivered, packages) ==
  [job_id |-> a.job_id, step_id |-> a.step_id, image |-> a.image, workspace |-> TRUE, workdir |-> agent.workdir,
   limits |-> agent.limits, env |-> BaseEnv, author |-> a.author, authorised |-> delivered \cup packages, secrets |-> delivered \cup packages]

\* validate_exec.
ValidExec(argv) == argv # <<>> /\ argv[1] # ""

\* run_inner, up to the sandbox: redeemed is whether the broker took the capability back,
\* packages the variables the proxy granted, command what is detected in the tree.
RunInner(agent, a, token, redeemed, packages, command) ==
  LET argv == IF a.argv = <<>> THEN (IF command = "none" THEN <<>> ELSE <<command>>) ELSE a.argv
      delivered == UNION {t.declared : t \in token}
  IN  CASE ~Admits(agent.tier, agent.caps, a) -> [end |-> "infra"]
        [] argv = <<>> -> [end |-> "no_tests"]
        [] token # {} /\ ~redeemed -> [end |-> "infra"]
        [] OTHER -> [end |-> "exec", spec |-> SandboxSpecOf(agent, a, delivered, packages), argv |-> argv,
                     timeout |-> AtMost(a.timeout, NodeStep)]

-----------------------------------------------------------------------------
\* One job from its dispatch to its first step's sandbox.  x says what is dispatched, whom
\* the runner trusts, what the fetch and the redemption answer, what the tree holds, what
\* the broker stores and what the backend enforces.
PlannedJob(x, d, plan) ==
  [NewJob("j", d, Classify(ParseTrusted(x.trusted), d.repo), 0, 1) EXCEPT !.steps = [i \in DOMAIN plan |-> NewStep(i, plan[i])]]
RunsOf(x, agent, assigned, tokens) == {RunInner(agent, a, t, x.redeemed, x.packages, x.command) : a \in assigned, t \in tokens}
Placed(x, agent, job, tree, specs, assigned) ==
  [job |-> job, tree |-> tree, specs |-> specs, assigned |-> assigned,
   warned |-> IF ReadPipeline(x.entry) = "present" THEN WarnUnhonoured(x.pipeline, x.broker.on) ELSE {},
   runs |-> RunsOf(x, agent, assigned, UNION {Assigns(agent, TRUE, x.broker, a) : a \in assigned})]
PlacedJob(x, job, tree, specs) ==
  Placed(x, NewAgent("n", 1, x.controls), job, tree, specs, AssignmentFor(job, tree, 1, "container"))
PlacedDispatch(x, d, specs) ==
  PlacedJob(x, PlannedJob(x, d, IF specs = {} THEN <<>> ELSE CHOOSE s \in specs : TRUE), BrokerFetch(FetchRequest(d), x.fetch).tree, specs)
Placing(x) == PlacedDispatch(x, Dispatched(x.repo, "t", "u", {"token"}), PlanSpecs(x.entry, x.pipeline, x.command, "default"))

\* What runs is the job's own: its tenant's, on its tenant's copy of its tree, in the image its
\* step or its file names, within both clocks.  It is given the secrets its step declared, if
\* they are its tenant's and its author is a member, and no others; what is secret goes by name;
\* and the backend accepts what the node made.  A step runs without what it declared only if
\* its author is an outsider or there is no broker, and then it was said.
PlacementIsItsOwn(x) ==
  \A p \in {Placing(x)} :
    LET member == p.job.class = "member"
        tenant == Split(p.job.dispatch.repo)[1]
        stored == IF member /\ x.broker.on /\ tenant \in DOMAIN x.broker.stored THEN x.broker.stored[tenant] ELSE {}
    IN
      /\ \A t \in p.tree : t.path = <<tenant, p.job.dispatch.tree_id>> /\ t.keep_alive # {}
      /\ \A r \in {q \in p.runs : q.end = "exec"} :
           \E s \in UNION {ToSet(plan) : plan \in p.specs} : \E a \in p.assigned :
             /\ a.tenant = tenant /\ ValidExec(r.argv) /\ ValidSpec(r.spec) /\ r.spec.image = s.image
             /\ r.timeout <= AtMost(MaxStep, NodeStep) /\ \A n \in s.timeout : r.timeout <= n
             /\ r.spec.secrets \ x.packages \subseteq s.secrets \cap stored
             /\ r.spec.authorised \subseteq stored \cup x.packages
             /\ CreateArgv(DefaultContainerConfig, r.spec).values \cap (stored \cup x.packages) = {}
             /\ s.secrets \subseteq r.spec.secrets \/ ~member \/ (~x.broker.on /\ \E w \in p.warned : w[1] = "secrets" /\ s.name \in w[2])
             /\ member \/ RequiredForUntrusted \subseteq x.controls
      /\ x.fetch \notin {"hit", "fetched"} \/ p.specs = {} => p.runs = {}

\* A plan is the author's whole file or it is none: what is neither honoured nor refused is
\* warned about, step by step, and only a tree without the file is guessed at.
DeclaredIsHonoured(x) ==
  \A p \in {Placing(x)} :
    LET warnedOf(f) == UNION {w[2] : w \in {v \in p.warned : v[1] = f}}
    IN  \A plan \in p.specs :
        IF x.entry.is = "absent" THEN Len(plan) <= 1 ELSE
          /\ Len(plan) = Len(x.pipeline.steps) /\ x.entry.is = "file"
          /\ \A i \in DOMAIN plan : LET step == x.pipeline.steps[i] IN
               /\ \A f \in {"needs", "secrets", "inputs", "timeout"} : plan[i][f] = step[f]
               /\ plan[i].image \in (IF step.image # {} THEN step.image ELSE IF x.pipeline.image # {} THEN x.pipeline.image ELSE {"default"})
               /\ \A f \in {"shard", "cache"} : step[f] # {} <=> step.name \in warnedOf(f)
               /\ step.secrets # {} /\ ~x.broker.on <=> step.name \in warnedOf("secrets")

\* A verdict is owed to every url that was dispatched, and to each once.
UrlsAreAnsweredOnce(job, urls) ==
  LET all == FoldLeft(AddCallbackUrl, job, urls).urls
  IN  ToSet(all) = ToSet(job.urls) \cup ToSet(urls) /\ \A i, k \in DOMAIN all : all[i] = all[k] => i = k

\* A node says what it is: no more slots free than it has, whatever runs begin and end, and a
\* tree that was used twice is warm once.
HeartbeatIsTrue(agent, moves) ==
  LET Move(a, m) == CASE m = "take" -> TakesSlot(a) [] m = "give" -> GivesSlot(a) [] OTHER -> NoteWarmTree(a, m)
      s == NodeState(FoldLeft(Move, agent, moves))
  IN  /\ s.free \in 0..s.slots /\ Len(s.warm) = Cardinality(ToSet(s.warm))
      /\ ToSet(s.warm) = {m \in ToSet(moves) : m \notin {"take", "give"}}
      /\ AdmitsUntrusted(s.caps) <=> agent.unmet \cap RequiredForUntrusted = {}
=============================================================================
