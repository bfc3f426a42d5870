-------------------------------- MODULE Door --------------------------------
(***************************************************************************)
(* What the control plane answers and asks over HTTP:                      *)
(*   ingest (hull-ci-control/src/ingest.rs, auth.rs), with the fields of a *)
(*   dispatch (hull-ci-proto/src/lib.rs);                                  *)
(*   the attempts of one callback (hull-ci-control/src/callback.rs);       *)
(*   the read-only panel (hull-ci-server/src/admin.rs) over the snapshot   *)
(*   of the jobs (hull-ci-control/src/snapshot.rs).                        *)
(*                                                                         *)
(* A secret is a sequence of bytes, of which 0 is one.  An optional value  *)
(* is a set with at most one member.                                       *)
(***************************************************************************)
EXTENDS Integers, StepPlacement

CONSTANTS ShiftBits,     \* the width of the factor a delay is multiplied by
          MaxDuration,   \* bound: the longest duration a multiplication may give
          DefaultLimit, MaxLimit  \* DEFAULT_JOB_LIMIT and MAX_JOB_LIMIT

-----------------------------------------------------------------------------
Differ(x, y) == x # y

\* Mutant: the lengths are not compared.
ConstantTimeEqPadded(a, b) ==
  LET n == IF Len(a) > Len(b) THEN Len(a) ELSE Len(b)
      At(s, i) == IF i <= Len(s) THEN s[i] ELSE 0
  IN  ~\E i \in 1..n : Differ(At(a, i), At(b, i))

\* constant_time_eq: the accumulated difference of the lengths and of the bytes, a missing
\* byte counting as 0.
ConstantTimeEq(a, b) ==
  LET n == IF Len(a) > Len(b) THEN Len(a) ELSE Len(b)
      At(s, i) == IF i <= Len(s) THEN s[i] ELSE 0
  IN  ~(Differ(Len(a), Len(b)) \/ \E i \in 1..n : Differ(At(a, i), At(b, i)))

\* check_secret.
CheckSecret(configured, presented) ==
  CASE configured = {} -> "ok"
    [] presented = {} -> "missing"
    [] OTHER -> IF \E w \in configured, g \in presented : ConstantTimeEq(w, g) THEN "ok" ELSE "mismatch"

\* check_version: an absent header is tolerated.
CheckVersion(header) == header \subseteq {"1"}

\* Dispatch::required_fields, of the trimmed fields.
RequiredFields(d) == \A f \in DOMAIN d : Trim(d[f]) # <<>>

\* Dispatch::canonicalize: the dispatch every later reader sees, if there is one.
Canonicalize(d) ==
  IF RequiredFields(d) /\ CanonicalRepo(d.repo) # Refused THEN {[d EXCEPT !.repo = CanonicalRepo(@)]} ELSE {}

Reply(status, body, jobs) == [status |-> status, body |-> body, accepted |-> jobs]

\* ingest: the answer, and what was handed to accept.  A header that is not text reads as
\* absent; body is the dispatch it parses to, if it does; durable is whether accept recorded it.
Ingest(configured, q) ==
  IF CheckSecret(configured, q.secret) # "ok" THEN Reply(401, "unauthorized", {})
  ELSE IF ~CheckVersion(q.version) THEN Reply(400, "version", {})
  ELSE IF q.body = {} THEN Reply(400, "malformed", {})
  ELSE LET d == UNION {Canonicalize(b) : b \in q.body}
       IN  IF d = {} THEN Reply(400, "unusable", {})
           ELSE IF ~q.durable THEN Reply(503, "journal", d) ELSE Reply(202, "accepted", d)

-----------------------------------------------------------------------------
\* CallbackResponse::is_success and is_retryable; 0 stands for a transport error.
IsSuccess(status) == status \in 200..299
IsRetryable(status) == status >= 500 \/ status \in {408, 429}

\* Mutant: the factor wraps around.
FactorWraps(attempt) == 2^((attempt - 1) % ShiftBits)

\* 1u32.checked_shl(attempt.saturating_sub(1)).unwrap_or(u32::MAX)
Factor(attempt) ==
  LET by == IF attempt = 0 THEN 0 ELSE attempt - 1
  IN  IF by < ShiftBits THEN 2^by ELSE 2^ShiftBits - 1

\* The delay of RetryPolicy::delay before its jitter.
Backoff(policy, attempt) ==
  LET product == policy.base * Factor(attempt)
      exp == IF product > MaxDuration THEN policy.max ELSE product
  IN  IF exp < policy.max THEN exp ELSE policy.max

\* RetryPolicy::delay: half of it, and less than the other half at random.
Delays(policy, attempt) ==
  LET half == Backoff(policy, attempt) \div 2
  IN  {half + j : j \in 0..(IF half = 0 THEN 0 ELSE half - 1)}

\* Mutant: a refusal is tried again.
EndsDeliveryNever(status) == IsSuccess(status)

\* The arms of deliver_reporting's match that return.
EndsDelivery(status) == status # 0 /\ (IsSuccess(status) \/ ~IsRetryable(status))

\* deliver_reporting, of the answers it gets: what was announced and posted, in order, and
\* how it ended.  HttpCallback::post sends the verdict to the url it was given, with the
\* secret if there is one, and follows no redirect.
DeliverReporting(req, maxAttempts, answers) ==
  LET most == IF maxAttempts > 1 THEN maxAttempts ELSE 1
      loop[k \in 0..most] ==
        IF k = 0 THEN [log |-> <<>>, ended |-> FALSE, result |-> "none"]
        ELSE LET before == loop[k - 1]
                 posted == before.log \o <<[say |-> "attempt", n |-> k], [say |-> "post", url |-> req.url, secret |-> req.secret]>>
             IN  IF before.ended THEN before
                 ELSE IF EndsDelivery(answers[k])
                 THEN [log |-> posted, ended |-> TRUE, result |-> IF IsSuccess(answers[k]) THEN "delivered" ELSE "parked"]
                 ELSE IF k = most THEN [log |-> posted, ended |-> TRUE, result |-> "parked"]
                 ELSE [log |-> Append(posted, [say |-> "wait", n |-> k]), ended |-> FALSE, result |-> "none"]
  IN  loop[most]

-----------------------------------------------------------------------------
\* authorized: the header of the panel, else a bearer token, else nothing.
Authorized(token, headers) ==
  LET presented == IF headers.own # {} THEN headers.own ELSE headers.bearer
  IN  ConstantTimeEq(token, IF presented = {} THEN <<>> ELSE CHOOSE p \in presented : TRUE)

\* matches_filter.
MatchesFilter(state, filter) ==
  CASE filter \in {"none", "", "all"} -> TRUE
    [] filter = "live" -> ~HasVerdict(state)
    [] filter = "settled" -> HasVerdict(state)
    [] OTHER -> state = filter

\* The limit of the handler jobs: a number, or what does not parse as one.
LimitOf(asked) ==
  LET n == IF asked = {} THEN DefaultLimit ELSE CHOOSE a \in asked : TRUE
  IN  IF n < 1 THEN 1 ELSE IF n > MaxLimit THEN MaxLimit ELSE n

\* saturating_duration_since.
Since(now, t) == IF now > t THEN now - t ELSE 0

\* StepSnapshot: of what the step was given to run, its name.
StepSnapshot(step, at) ==
  [id |-> step.id, name |-> step.spec.name, state |-> step.state, attempt |-> step.attempt, node |-> step.node, exit |-> step.exit,
   detail |-> step.detail, ran |-> {Since(IF step.finished = {} THEN at ELSE CHOOSE f \in step.finished : TRUE, t) : t \in step.started}]

\* Mutant: a job with the urls that wait for it.
SnapshotJobUrls(job, at) ==
  [id |-> job.id, tenant |-> TenantOf(job.dispatch.repo), repo |-> job.dispatch.repo, tree_id |-> job.dispatch.tree_id, class |-> job.class,
   state |-> job.state, age |-> Since(at, job.created), settled_for |-> {Since(at, t) : t \in job.settled}, attempts |-> job.attempts,
   delivering |-> job.delivery, targets |-> job.urls, steps |-> [i \in DOMAIN job.steps |-> StepSnapshot(job.steps[i], at)],
   verdict |-> {[status |-> v.status, reason |-> v.reason, summary |-> v.summary] : v \in job.verdict}]

\* snapshot_job: a job without its urls, its token, its commands, its environment or its secrets.
SnapshotJob(job, at) ==
  [id |-> job.id, tenant |-> TenantOf(job.dispatch.repo), repo |-> job.dispatch.repo, tree_id |-> job.dispatch.tree_id, class |-> job.class,
   state |-> job.state, age |-> Since(at, job.created), settled_for |-> {Since(at, t) : t \in job.settled}, attempts |-> job.attempts,
   delivering |-> job.delivery, targets |-> Len(job.urls), steps |-> [i \in DOMAIN job.steps |-> StepSnapshot(job.steps[i], at)],
   verdict |-> {[status |-> v.status, reason |-> v.reason, summary |-> v.summary] : v \in job.verdict}]

\* snapshot_jobs: newest first.
SnapshotJobs(jobs, at) ==
  SortSeq([i \in DOMAIN jobs |-> SnapshotJob(jobs[i], at)], LAMBDA a, b : a.age < b.age)

\* snapshot_tenants: the tenants of the store, how many jobs each holds, and what the queue
\* says of it; depth is the queue's answer for a tenant.
SnapshotTenants(jobs, depth) ==
  [t \in {TenantOf(j.dispatch.repo) : j \in ToSet(jobs)} |->
     [held |-> Len(SelectSeq(jobs, LAMBDA j : TenantOf(j.dispatch.repo) = t)), queued |-> depth[t].queued, running |-> depth[t].running,
      blocked |-> depth[t].blocked]]

\* job_json: everything of the snapshot but the delivery in flight.
JobJson(snapshot) == [f \in DOMAIN snapshot \ {"delivering"} |-> snapshot[f]]

\* The handlers of the panel, over w: the jobs, the queue's answers, the node and the time.
Summary(w) ==
  LET all == SnapshotJobs(w.jobs, w.at)
      tenants == SnapshotTenants(w.jobs, w.depth)
      total(f) == FoldFunctionOnSet(LAMBDA x, y : x[f] + y, 0, tenants, DOMAIN tenants)
      node == NodeState(w.agent)
  IN  <<[held |-> Len(all), byState |-> [s \in {j.state : j \in ToSet(all)} |-> Len(SelectSeq(all, LAMBDA j : j.state = s))],
         queued |-> total("queued"), running |-> total("running"), slots |-> node.slots, free |-> node.free,
         tenants |-> Cardinality(DOMAIN tenants), unmet |-> Cardinality(w.agent.unmet)]>>

\* Mutant: the trees by name.
NodesPageTrees(w) ==
  LET node == NodeState(w.agent)
  IN  <<[id |-> node.id, tier |-> node.tier, labels |-> node.labels, slots |-> node.slots, free |-> node.free, warm |-> node.warm,
         caps |-> [f \in {"egress_deny", "metadata_blackhole", "single_use", "cross_tenant_safe"} |-> node.caps[f]],
         admits |-> AdmitsUntrusted(node.caps), unmet |-> w.agent.unmet, blocking |-> UnmetForUntrusted(node.caps)]>>

NodesPage(w) ==
  LET node == NodeState(w.agent)
  IN  <<[id |-> node.id, tier |-> node.tier, labels |-> node.labels, slots |-> node.slots, free |-> node.free, warm |-> Len(node.warm),
         caps |-> [f \in {"egress_deny", "metadata_blackhole", "single_use", "cross_tenant_safe"} |-> node.caps[f]],
         admits |-> AdmitsUntrusted(node.caps), unmet |-> w.agent.unmet, blocking |-> UnmetForUntrusted(node.caps)]>>

JobsPage(q, w) ==
  LET matched == SelectSeq(SnapshotJobs(w.jobs, w.at), LAMBDA j : MatchesFilter(j.state, q.filter))
      limit == LimitOf(q.limit)
  IN  [i \in 1..(IF Len(matched) < limit THEN Len(matched) ELSE limit) |-> JobJson(matched[i])]

QueuePage(w) == <<SnapshotTenants(w.jobs, w.depth)>>

\* Its routes: the page without the token, everything else with it.
Panel(token, q, w) ==
  CASE q.route = "page" -> [status |-> 200, shows |-> <<>>]
    [] ~Authorized(token, q.headers) -> [status |-> 401, shows |-> <<>>]
    [] q.route = "jobs" -> [status |-> 200, shows |-> JobsPage(q, w)]
    [] q.route = "summary" -> [status |-> 200, shows |-> Summary(w)]
    [] q.route = "nodes" -> [status |-> 200, shows |-> NodesPage(w)]
    [] q.route = "queue" -> [status |-> 200, shows |-> QueuePage(w)]

-----------------------------------------------------------------------------
\* Characters that mean something to a page or a script, and their names in an escape.
Marks == {"<", ">", "&", "2028", "2029"}

\* serde_json: a string's quotes and backslashes are escaped (external).
SerdeJson(s) == FlattenSeq([i \in DOMAIN s |-> IF s[i] \in {Backslash, "quote"} THEN <<Backslash, s[i]>> ELSE <<s[i]>>])

\* Mutant: the backslash of the escape is escaped once more.
EscapeForEmbeddingTwice(json) ==
  FlattenSeq([i \in DOMAIN json |-> IF json[i] \in Marks THEN <<Backslash, Backslash, "u", json[i] \o "'">> ELSE <<json[i]>>])

\* escape_for_embedding, over the text that serde_json wrote; a mark's four digits are one symbol.
EscapeForEmbedding(json) ==
  FlattenSeq([i \in DOMAIN json |-> IF json[i] \in Marks THEN <<Backslash, "u", json[i] \o "'">> ELSE <<json[i]>>])

\* JSON.parse of the inside of a string literal (external).
JsonParse(text) ==
  LET read[k \in 0..Len(text)] ==
        IF k = 0 THEN [out |-> <<>>, mode |-> "text"]
        ELSE LET b == read[k - 1]
             IN  CASE b.mode = "escape" /\ text[k] = "u" -> [b EXCEPT !.mode = "digits"]
                   [] b.mode = "digits" -> [out |-> Append(b.out, CHOOSE m \in Marks \cup {"bad"} : m \o "'" = text[k] \/ m = "bad"), mode |-> "text"]
                   [] b.mode = "text" /\ text[k] = Backslash -> [b EXCEPT !.mode = "escape"]
                   [] OTHER -> [out |-> Append(b.out, text[k]), mode |-> "text"]
  IN  read[Len(text)].out

-----------------------------------------------------------------------------
\* A dispatch is let in by its secret and by no other string, one that differs in length or
\* in trailing zero bytes included; whoever does not know it learns nothing from the answer,
\* neither of the body nor of the journal; and what is accepted was complete, is written in
\* its canonical form and was recorded.
DoorIsGuarded(configured, q) ==
  \A r \in {Ingest(configured, q)} :
      /\ configured # {} /\ q.secret # configured => r = Reply(401, "unauthorized", {})
      /\ r.status = 202 => /\ q.durable
                           /\ \A d \in r.accepted : RequiredFields(d) /\ CanonicalRepo(d.repo) = d.repo
      /\ r.accepted # {} => r.accepted = UNION {Canonicalize(b) : b \in q.body} /\ configured \in {{}, q.secret}

\* The delays of a policy grow to their limit and stay there, whatever the attempt's number
\* does to the factor; and a delay is never less than half of what it is meant to be.
BackoffIsSane(policy, attempt) ==
  /\ Backoff(policy, attempt) <= Backoff(policy, attempt + 1)
  /\ \A d \in Delays(policy, attempt) : d <= policy.max /\ 2 * d >= Backoff(policy, attempt) - 1

\* Every attempt and every wait is announced before it happens, there are as many as the
\* policy says and none after an answer that settles it, and each one sends the same request.
DeliveryIsTold(req, maxAttempts, answers) ==
  LET done == DeliverReporting(req, maxAttempts, answers)
      posts == SelectSeq(done.log, LAMBDA e : e.say = "post")
      n == Len(posts)
  IN  /\ done.ended /\ n \in 1..(IF maxAttempts > 1 THEN maxAttempts ELSE 1)
      /\ done.log = FlattenSeq([i \in 1..n |-> <<[say |-> "attempt", n |-> i], [say |-> "post", url |-> req.url, secret |-> req.secret]>>
                                                 \o IF i < n THEN <<[say |-> "wait", n |-> i]>> ELSE <<>>])
      /\ done.result = "delivered" <=> answers[n] \in 200..299
      /\ \A i \in 1..n - 1 : answers[i] = 0 \/ answers[i] >= 500 \/ answers[i] \in {408, 429}

\* The same jobs and node, as far as the panel may tell: other urls, tokens, sources, commands,
\* variables and secrets, and other trees that are warm.
Disguised(w) ==
  LET Other(i) == "another"
      Step(s) == [s EXCEPT !.spec.argv = <<>>, !.spec.secrets = {}, !.spec.env = {}, !.spec.inputs = {}, !.log = {}, !.key = {}]
      Job(j) == [j EXCEPT !.urls = [i \in DOMAIN @ |-> Other(i)], !.dispatch.callback_url = "another", !.dispatch.source_url = "another",
                          !.dispatch.fetch_token = {}, !.steps = [i \in DOMAIN @ |-> Step(@[i])],
                          !.verdict = {[v EXCEPT !.details_url = {}] : v \in @}]
  IN  [w EXCEPT !.jobs = [i \in DOMAIN @ |-> Job(@[i])], !.agent.warm = [i \in DOMAIN @ |-> Other(i)]]

\* Without the token the panel shows nothing of any job; with it, no more than the limit,
\* newest first.  Whoever knows the token learns nothing of what a job may do: not a url, a
\* token, a command, a variable or a secret, nor which trees are warm.
PanelIsClosed(token, q, w) ==
  LET knows == token \in q.headers.own \/ (q.headers.own = {} /\ token \in q.headers.bearer)
  IN  \A r \in {Panel(token, q, w)} :
      /\ ~knows => r.shows = <<>>
      /\ r = Panel(token, q, Disguised(w))
      /\ q.route = "jobs" /\ knows =>
           /\ Len(r.shows) <= MaxLimit
           /\ \A i, k \in DOMAIN r.shows : i < k => r.shows[i].age <= r.shows[k].age
           /\ \A j \in ToSet(w.jobs) : MatchesFilter(j.state, q.filter) /\ JobJson(SnapshotJob(j, w.at)) \notin ToSet(r.shows) =>
                \A s \in ToSet(r.shows) : s.age <= w.at - j.created

\* What a job wrote reads back as it was, and no mark is left that a page or a script
\* would take for its own.
EmbeddedIsInert(s) ==
  LET text == EscapeForEmbedding(SerdeJson(s))
  IN  JsonParse(text) = s /\ ToSet(text) \cap Marks = {}
=============================================================================
