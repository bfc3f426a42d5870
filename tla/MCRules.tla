------------------------------ MODULE MCRules ------------------------------
(***************************************************************************)
(* The parts that keep no shared state, each over all of its small inputs. *)
(* A behaviour belongs to one part: it drives one plan (graph), captures   *)
(* one step's output (capture), evaluates one pipeline (eval), records one *)
(* plan (plan), uses the secret broker (broker), the package proxy (proxy) *)
(* or one rate limit (bucket), keeps a step memo (memo), schedules two     *)
(* tenants' jobs (queue), reads an archive (archive), copies a tree (work), *)
(* calls the kms (kms), starts (start), runs a step (report), or makes one  *)
(* call of a function; call is that call.                                  *)
(***************************************************************************)
EXTENDS PlanDrive, SandboxPolicy, WireNames, OutputCapture,
        Planner, PlanChild, PackageProxy, Allowlist, StepMemo, Extract, FairQueue,
        Bindings, KmsClient, Door, Workspace, ProxyRoutes, Startup, PlanValues, StepReport,
        StepPlacement

\* One job of one tenant, with a capability for its node and one for the proxy, and what an
\* outsider's job of that tenant asks for.
MCCaps ==
  {[family |-> f, job |-> "job", holder |-> "here", declared |-> {"npm"}, outsider |-> FALSE] : f \in {"node", "proxy"}}
    \cup {[family |-> "node", job |-> "fork", holder |-> "here", declared |-> {"npm"}, outsider |-> TRUE]}
MCCap == CHOOSE c \in MCCaps : c.family = "proxy"
MCCredentialOf == [u \in Upstreams |-> IF u = "private" THEN {"npm"} ELSE {}]

MCValues == {<<"a", "b", "a">>, <<"a", "b">>}

\* Files and directories, and the trees a digest is taken of.
TreeEntry(path, type, exec, data) == [path |-> path, type |-> type, exec |-> exec, data |-> data]
File(path, data) == TreeEntry(path, "file", FALSE, data)
Dir(path) == TreeEntry(path, "dir", FALSE, "")
NameA == <<"a">>
NameB == <<"b">>
NameAB == <<"a", "b">>

MCTrees ==
  {{}, {File(<<NameA>>, "x")}, {File(<<NameA>>, "y")}, {TreeEntry(<<NameA>>, "file", TRUE, "x")},
   {TreeEntry(<<NameA>>, "link", FALSE, "x")}, {TreeEntry(<<NameA>>, "other", FALSE, "")},
   {Dir(<<NameA>>)}, {Dir(<<NameA>>), Dir(<<NameA, NameAB>>), Dir(<<NameA, NameAB, NameA>>)}}
  \cup {{Dir(<<NameA>>), File(<<NameA, NameAB>>, d)} : d \in {"x", "y"}}
  \cup {{Dir(<<NameA>>), Dir(<<NameA, NameAB>>), File(<<NameA, NameAB, NameA>>, d), File(<<NameAB>>, e)} :
           d, e \in {"x", "y"}}
  \cup {{Dir(<<NameA>>), Dir(<<NameA, NameAB>>), Dir(<<NameA, NameAB, NameA>>), File(<<NameA, NameAB, NameA, NameA>>, "x")}}

\* Two plans, of which the first step of one has nothing to key it, and the start of the
\* other, over trees that differ in one declared file, by tenant and by class of author.
MCStep(name, needed, globs, def) == [name |-> name, needs |-> needed, inputs |-> globs, def |-> def]
MCChain == <<MCStep("one", {}, {<<"a">>}, 1), MCStep("two", {"one"}, {<<"b">>, <<"c">>}, 2)>>
MCLoose == <<MCStep("one", {}, {}, 1), MCStep("two", {"one"}, {<<"b">>}, 2)>>
MCOne == SubSeq(MCChain, 1, 1)
MCFiles(x, y) == {Dir(<<NameA>>), File(<<NameA, NameB>>, x), File(<<NameB>>, y)}
MCCase(tenant, class, tree, specs, keyed) ==
  [ctx |-> [tenant |-> tenant, class |-> class], tree |-> tree, specs |-> specs, keyed |-> keyed]
MCMemoCases ==
  <<MCCase("t", "member", MCFiles("x", "x"), MCChain, TRUE), MCCase("t", "outsider", MCFiles("x", "x"), MCOne, TRUE),
    MCCase("u", "member", MCFiles("x", "x"), MCOne, TRUE), MCCase("t", "member", MCFiles("x", "y"), MCChain, TRUE),
    MCCase("t", "member", MCFiles("y", "x"), MCOne, FALSE),
    MCCase("t", "member", MCFiles("x", "x"), MCLoose, TRUE), MCCase("t", "member", MCFiles("y", "x"), MCLoose, TRUE)>>

\* A tenant with an interactive job of two steps, and one with a batch job of one step
\* and a plan whose weight is 0.
MCFqStep(job, tenant, class, id, name) == [job |-> job, tenant |-> tenant, class |-> class, id |-> id, name |-> name]
MCFqSteps ==
  <<MCFqStep("ja", "a", 1, 1, "x"), MCFqStep("ja", "a", 1, 2, "y"), MCFqStep("jb", "b", 2, 3, "x")>>
MCFqTenants == <<"a", "b">>
MCWeights == [t \in ToSet(MCFqTenants) |-> IF t = "a" THEN 2 ELSE 0]
MCMaxRunning == [t \in ToSet(MCFqTenants) |-> 1]
MCReplicaOf == [c \in KmsCallers |-> IF c = "x" THEN "r1" ELSE "r2"]
MCNodeTicks == [t \in ToSet(MCFqTenants) |-> 2]

\* The callers of the broker, the requests of a job and the jobs of the memo are alike.
Symmetry == Permutations(Tasks)

VARIABLES part, call

serviceVars == <<brokerVars, proxyVars, memoVars, fqVars, kmsVars>>
vars == <<part, call, captureVars, serviceVars, graphVars, childVars>>

None == [fn |-> "none"]

-----------------------------------------------------------------------------
\* A job that has no plan yet.
GraphIdle == needs = <<>> /\ tol = {} /\ st = <<>> /\ verdict = NoVerdict

Drives == part = "graph" /\ GraphNext /\ UNCHANGED <<part, call, captureVars, serviceVars, childVars>>
Captures == part = "capture" /\ CaptureNext /\ UNCHANGED <<part, call, graphVars, serviceVars, childVars>>
Evaluates == part = "eval" /\ ChildNext /\ UNCHANGED <<part, call, graphVars, captureVars, serviceVars>>

-----------------------------------------------------------------------------
\* The inputs of the calls.
Strings(symbols, n) == UNION {[1..k -> symbols] : k \in 0..n}

Worlds ==
  [route : BOOLEAN, admin : BOOLEAN, drop : BOOLEAN, dns : BOOLEAN, metadata : BOOLEAN,
   icc : BOOLEAN, internal : BOOLEAN, open : SUBSET {22, 3128}, proxy : {TRUE}]
Tools == {{"ip", "nc", "nslookup"}, {"nc", "nslookup"}, {"ip", "nslookup"}, {"ip", "nc"}, {}}

\* A probe as it goes on a node whose image has every tool.
Probed(w) == ProbeNetworkPosture(w, {"ip", "nc", "nslookup"}, TRUE, TRUE, 99, TRUE, 3128)
Quiet == [route |-> FALSE, admin |-> FALSE, drop |-> TRUE, dns |-> FALSE, metadata |-> TRUE,
          icc |-> FALSE, internal |-> TRUE, open |-> {3128}, proxy |-> TRUE]
\* A network, and the world it is in.
Networks ==
  {[net |-> NoNetwork, world |-> Quiet], [net |-> NamedNetwork("bridge"), world |-> [Quiet EXCEPT !.route = TRUE]]}
  \cup {[net |-> ProxyOnly({Probed(w)}), world |-> w] :
          w \in {Quiet, [Quiet EXCEPT !.icc = TRUE], [Quiet EXCEPT !.route = TRUE, !.drop = FALSE], [Quiet EXCEPT !.admin = TRUE]}}
Daemons == [os : {"linux", "other"}, seccomp : {"builtin", "unconfined", "off"}, cpu : {TRUE}, memory : BOOLEAN, pids : {TRUE}]
\* What of a daemon's answer arrives.
Answers(d) ==
  {ProbeDocker(rc, TRUE, Answer(d)) : rc \in {0, 1}}
  \cup {ProbeDocker(0, json, [f \in DOMAIN Answer(d) \ {missing} |-> Answer(d)[f]]) : json \in BOOLEAN, missing \in {"memory", "options"}}
Configs == {[DefaultContainerConfig EXCEPT !.user = u, !.seccomp = p] : u \in {"", "65534"}, p \in {"default", "own"}}
Limits ==
  {[cpus |-> c, memory |-> m, pids |-> 1, tmpfs |-> 1] : c \in {0, 4, 5, 1005}, m \in {0, 1}}
Specs ==
  [image : {"img"}, workdir : {"/w"}, limits : Limits, env : {{}, {"PATH"}, {"NPM_TOKEN"}},
   secrets : {{}, {"NPM_TOKEN"}}, authorised : {{}, {"NPM_TOKEN"}}, workspace : BOOLEAN]

\* Every clause, every one but one, what the local backend has, or nothing.
ClaimSets == {Clauses, LocalControls, {}} \cup {Clauses \ {c} : c \in Clauses}

ProbesNetwork ==
  /\ part = "posture" /\ call = None
  /\ \/ \E w \in Worlds, t \in Tools, peer, gw \in BOOLEAN, upTo \in {0, 6, 99} :
          call' = [fn |-> "posture", world |-> w,
                   facts |-> NetworkFacts(TRUE, ProxyOnly({ProbeNetworkPosture(w, t, peer, upTo > 0, upTo, gw, 3128)})),
                   open |-> IF gw THEN {3128} ELSE {}]
     \/ \E icc, proxy \in BOOLEAN, t \in Tools, upTo \in {0, 6, 99} :
          LET w == [Quiet EXCEPT !.icc = icc, !.proxy = proxy]
          IN  call' = [fn |-> "caveats", world |-> w, posture |-> ProbeNetworkPosture(w, t, TRUE, upTo > 0, upTo, TRUE, 3128)]
     \/ \E c \in ClaimSets, o \in {{}} \cup {{f} : f \in Flags} : call' = [fn |-> "wire", controls |-> c, omitted |-> o]
  /\ UNCHANGED <<part, captureVars, serviceVars, graphVars, childVars>>

SpawnsSandbox ==
  /\ part = "spawn" /\ call = None
  /\ \E d \in Daemons, c \in Configs, n \in Networks, s \in Specs : \E a \in Answers(d) :
       /\ Spawns(a, s)
       /\ call' = [fn |-> "spawn", daemon |-> d, answer |-> a, cfg |-> [c EXCEPT !.network = n.net], world |-> n.world, spec |-> s]
  /\ UNCHANGED <<part, captureVars, serviceVars, graphVars, childVars>>

NamesRepo ==
  /\ part = "repo" /\ call = None
  /\ \E r \in Strings({"a", "b", Space, Slash, Dot, Control, Invisible}, 4) \cup Strings({"a", Slash, Dot, Control}, 5) :
       call' = [fn |-> "repo", repo |-> r]
  /\ UNCHANGED <<part, captureVars, serviceVars, graphVars, childVars>>

ReportsLogKey ==
  /\ part = "key" /\ call = None
  /\ \E r \in {<<"a">>, <<"a", Slash, "b">>, <<Space, "a">>}, s \in Strings({"a", Slash, Dot, Space}, 4) :
       \E k \in {LogKeyFor(CanonicalRepo(r), <<"b">>, s), Prefix(CanonicalRepo(r), <<"b">>) \o s, s} :
         call' = [fn |-> "key", repo |-> r, key |-> k]
  /\ UNCHANGED <<part, captureVars, serviceVars, graphVars, childVars>>

SummarisesStep ==
  /\ part = "summary" /\ call = None
  /\ \E s \in Strings({"a", Space, Control, Invisible, Escape, Bracket}, 5) :
       call' = [fn |-> "summary", raw |-> s]
  /\ UNCHANGED <<part, captureVars, serviceVars, graphVars, childVars>>

\* The builtin calls of a pipeline file, one per step, until one fails.
PlanCalls ==
  [fn : {"image", "trust"}, arg : {"x"}, good : BOOLEAN]
  \cup [fn : {"step"}, arg : Steps, needs : SUBSET (Steps \cup {Ghost}), built : {TRUE}, goodName : {TRUE}, good : {TRUE}]
  \cup [fn : {"step"}, arg : {Ghost}, needs : SUBSET Steps, built : BOOLEAN, goodName : BOOLEAN, good : BOOLEAN]

RecordsPlan ==
  /\ part = "plan" /\ call.rec.failure = "none"
  /\ \E c \in PlanCalls : call' = [call EXCEPT !.rec = Builtin(@, c)]
  /\ UNCHANGED <<part, captureVars, serviceVars, graphVars, childVars>>

MeasuresSource ==
  /\ part = "shape" /\ call = None
  /\ \E s \in Strings({Open, Close, Quote, Hash, LineEnd, Escaped, "w"}, 4) \cup Strings({Open, Close, Quote, Hash, LineEnd}, 5) :
       call' = [fn |-> "shape", source |-> s]
  /\ UNCHANGED <<part, captureVars, serviceVars, graphVars, childVars>>

\* A request asks for a token, at any time the clock may show.
TakesToken ==
  /\ part = "bucket" /\ call.meter.taken < 2 * Burst + MaxNow
  /\ \E t \in 0..MaxNow + 1 : call' = [call EXCEPT !.meter = Asks(@, t)]
  /\ UNCHANGED <<part, captureVars, serviceVars, graphVars, childVars>>

ResolvesTail ==
  /\ part = "path" /\ call = None
  /\ \E s \in Strings({"a", Dot, Slash, Backslash, Colon, EncDot, EncSlash, EncTwice}, 4)
            \cup Strings({"a", Dot, Slash, EncDot}, 6) :
       call' = [fn |-> "path", tail |-> s]
  /\ UNCHANGED <<part, captureVars, serviceVars, graphVars, childVars>>

UsesBroker == part = "broker" /\ BrokerNext /\ UNCHANGED <<part, call, graphVars, captureVars, proxyVars, memoVars, fqVars, kmsVars, childVars>>
UsesProxy == part = "proxy" /\ ProxyNext /\ UNCHANGED <<part, call, graphVars, captureVars, memoVars, fqVars, kmsVars, childVars>>
UsesMemo == part = "memo" /\ MemoNext /\ UNCHANGED <<part, call, graphVars, captureVars, brokerVars, proxyVars, fqVars, kmsVars, childVars>>
UsesQueue == part = "queue" /\ FqNext /\ UNCHANGED <<part, call, graphVars, captureVars, brokerVars, proxyVars, memoVars, kmsVars, childVars>>
UsesKms == part = "kms" /\ KmsNext /\ UNCHANGED <<part, call, graphVars, captureVars, brokerVars, proxyVars, memoVars, fqVars, childVars>>

\* A glob of the file's own symbols, or one made of names and wildcards.
Segments == {NameA, NameAB, <<AnyMany>>, Globstar, <<AnyOne>>, <<"a", AnyMany>>}
Globs == Strings({"a", AnyMany, Slash, Dot, Space}, 3) \cup {Joined(s) : s \in Strings(Segments, 3) \ {<<>>}}

DigestsTrees ==
  /\ part = "digest" /\ call = None
  /\ \/ \E g \in Globs : call' = [fn |-> "glob", glob |-> g]
     \/ \E p \in Strings({"a", "b", AnyMany, AnyOne}, 4) : call' = [fn |-> "segment", glob |-> p]
     \/ \E t, u \in MCTrees : call' = [fn |-> "verify", tree |-> t, other |-> u]
  /\ UNCHANGED <<part, captureVars, serviceVars, graphVars, childVars>>

\* Two spellings of one name, names within names, and every kind of entry.
ArchivePaths ==
  {<<NameA>>, <<NameB>>, <<NameA, NameB>>, <<<<Dot>>, NameA, NameB, NameA>>, <<<<Dot>>>>, <<<<"e", Acute>>>>, <<<<EAcute>>>>}
BadPaths == {<<NameA, <<Dot, Dot>>>>, <<<<>>, NameA>>, <<<<"a", Control>>>>, <<NameA, NameA, NameA, NameA>>, <<<<"a", "a", "a">>>>}
PlainEntry ==
  [kind |-> "file", path |-> <<NameA>>, priv |-> FALSE, exec |-> FALSE, declared |-> 1, data |-> <<"x">>, target |-> <<>>]
ArchiveEntries ==
  {[PlainEntry EXCEPT !.kind = k, !.path = p] : k \in {"file", "dir"}, p \in ArchivePaths}
  \cup {[PlainEntry EXCEPT !.path = p, !.exec = TRUE, !.data = <<"x", "x">>, !.declared = n] : p \in ArchivePaths, n \in {1, 3}}
  \cup {[PlainEntry EXCEPT !.path = p, !.kind = "link", !.target = t] :
           p \in ArchivePaths, t \in {<<NameA>>, <<<<Dot, Dot>>, NameB>>, <<<<>>>>}}
  \cup {[PlainEntry EXCEPT !.kind = k] : k \in {"special", "global", "broken"}}
  \cup {[PlainEntry EXCEPT !.path = p] : p \in BadPaths}
  \cup {[PlainEntry EXCEPT !.priv = TRUE], [PlainEntry EXCEPT !.data = <<"x", "x", "x">>]}

ReadsArchive ==
  /\ part = "archive" /\ ~call.st.refused
  /\ \E e \in ArchiveEntries : call' = [call EXCEPT !.st = ReadEntry(@, e)]
  /\ UNCHANGED <<part, captureVars, serviceVars, graphVars, childVars>>

\* Texts whose concatenations collide, and letters that look like lengths.
Texts == {<<1>>, <<1, 2>>, <<2>>}
NodeRequests ==
  [family : {"node"}, token : {<<1>>, <<1, 1>>}, job : Texts, nonce : {<<1>>}, issued : {<<1>>, <<2>>}, key : {<<1>>},
   requested : Strings(Texts, 2)]
ProxyRequests ==
  [family : {"proxy"}, token : {<<1>>, <<1, 1>>}, tenant : Texts, job : Texts, nonce : {<<1>>}, issued : {<<1>>, <<2>>}, key : {<<1>>, <<2>>}]
SealedBy(kind, dek, plain) ==
  UNION {Seal(kind, t, n, v, dek, plain) : t \in {<<1>>, <<1, 2>>}, n \in {<<2>>, <<2, 2>>}, v \in {1, 2}}

BindsContext ==
  /\ part = "bind" /\ call = None
  /\ \/ \E q \in NodeRequests \cup ProxyRequests : call' = [fn |-> "sign", request |-> q]
     \/ \E k \in {"dev", "kms"} : \E a \in SealedBy(k, <<1, 1>>, <<1>>), b \in SealedBy(k, <<1, 2>>, <<2>>) :
          call' = [fn |-> "seal", svc |-> k, one |-> a, other |-> b]
     \/ \E t \in Strings({CapabilityPrefix, GrantPrefix, "0", ".", "x"}, 5) : call' = [fn |-> "token", token |-> t]
     \/ \E p \in {<<"a">>, <<"a", "-", "0">>, <<"-">>}, t \in Strings({"a", "/"}, 7) \cup Strings({"A", "0", "/"}, 3) :
          call' = [fn |-> "keyname", prefix |-> p, tenant |-> t]
     \/ \E e \in [{"url", "project", "token", "id", "secret"} -> {"unset", "blank", "set"}],
           t \in {"unset", "blank", "zero", "some"} :
          call' = [fn |-> "kms", env |-> [v \in DOMAIN e \cup {"timeout"} |-> IF v = "timeout" THEN t ELSE e[v]]]
  /\ UNCHANGED <<part, captureVars, serviceVars, graphVars, childVars>>

\* Secrets that differ in their length, in a zero at the end, or in one byte.
Secrets3 == {<<1>>, <<1, 0>>, <<1, 1>>, <<>>}
Optional(S) == {{}} \cup {{x} : x \in S}
DispatchOf(repo, tree) == [repo |-> repo, change |-> <<"a">>, tree_id |-> tree, source_url |-> <<"b">>, callback_url |-> <<"b", Space>>]
IngestRequests ==
  [secret : Optional(Secrets3), version : Optional({"1", "2"}), durable : BOOLEAN,
   body : Optional({DispatchOf(r, t) : r \in {<<"a", Space, Slash, "b">>, <<Slash, "b">>, <<Space>>}, t \in {<<"a">>, <<Space, Space>>}})]
Policies == [base : {0, 1, 3}, max : {0, 5, 20}]
HttpStatuses == {0, 200, 204, 302, 401, 408, 429, 500}
\* Four jobs of two tenants, one with a step that runs and one with a verdict, and their node.
PanelJob(id, repo, url, at) == NewJob(id, Dispatched(repo, "t", url, {"token"}), "member", at, 1)
PanelStep == [NewStep(1, NewStepSpec("s", <<"sh">>, "img")) EXCEPT !.state = "leased", !.started = {1}, !.node = {"n"}, !.spec.secrets = {"npm"}]
PanelWorld ==
  [jobs |-> <<[PanelJob(1, <<"a", Slash, "b">>, "u", 1) EXCEPT !.state = "running", !.steps = <<PanelStep>>],
              [AddCallbackUrl(PanelJob(2, <<"b">>, "u", 3), "v") EXCEPT !.state = "green", !.settled = {3},
                 !.verdict = {[status |-> "green", reason |-> {}, summary |-> <<"a">>, details_url |-> {"d"}]}],
              [PanelJob(3, <<"a">>, "v", 2) EXCEPT !.state = "report_failed", !.attempts = 2],
              [PanelJob(4, <<"a">>, "w", 4) EXCEPT !.state = "running", !.delivery = {2}]>>,
   depth |-> [t \in {<<"a">>, <<"b">>} |-> [queued |-> Len(t), running |-> 1, blocked |-> t = <<"a">>]],
   agent |-> NoteWarmTree(NewAgent("n", 2, LocalControls), "t"), at |-> 4]

\* One call of ingest, of the retry policy, of a delivery, of the panel or of its page.
KnocksOnDoor ==
  /\ part = "door" /\ call = None
  /\ \/ \E c \in Optional(Secrets3 \ {<<>>}), q \in IngestRequests : call' = [fn |-> "ingest", configured |-> c, request |-> q]
     \/ \E p \in Policies, n \in 0..6 : call' = [fn |-> "delay", policy |-> p, attempt |-> n]
     \/ \E n \in 0..3, a \in [1..3 -> HttpStatuses] :
          call' = [fn |-> "deliver", most |-> n, answers |-> a, request |-> [url |-> "u", secret |-> {<<1>>}]]
     \/ \E h \in [own : Optional({<<1>>, <<1, 0>>}), bearer : Optional({<<1>>, <<>>})], r \in {"page", "summary", "nodes", "jobs", "queue"},
           f \in {"none", "", "live", "settled", "running", "other"}, l \in Optional({0, 1, 9}) :
          call' = [fn |-> "panel", request |-> [headers |-> h, route |-> r, filter |-> f, limit |-> l]]
     \/ \E s \in Strings({"<", "2028", Backslash, "quote", "u", "<'"}, 4) : call' = [fn |-> "embed", text |-> s]
  /\ UNCHANGED <<part, captureVars, serviceVars, graphVars, childVars>>

\* Upstreams that are complete, and ones with an option, an address or a label that is not.
Url(scheme, path) == [scheme |-> scheme, host |-> TRUE, userinfo |-> FALSE, query |-> FALSE, path |-> path]
UrlBases == {Url("https", <<>>), Url("https", <<Slash, "a">>), Url("ftp", <<Slash>>), [Url("http", <<Slash>>) EXCEPT !.userinfo = TRUE]}
UpstreamOptions == Strings({[key |-> "secret", value |-> "npm"], [key |-> "auth", value |-> "basic"], [key |-> "auth", value |-> "odd"], [key |-> "secert", value |-> "npm"]}, 2)
UpstreamEntries == [head : {TRUE}, label : {<<"a">>, <<"b">>, <<"A">>}, base : UrlBases, opts : UpstreamOptions]
PlainUpstream(l) == [head |-> TRUE, label |-> l, base |-> Url("https", <<>>), opts |-> <<>>]
ProxyEndpoints == {<<"b">>, <<"b", Slash>>, <<"b", Slash, Slash>>}

\* One call of the proxy's set-up, of its urls or of its log.
RoutesProxy ==
  /\ part = "routes" /\ call = None
  /\ \/ \E e \in UpstreamEntries, l \in {<<"a">>, <<"a", "a", "a", "a">>, <<Slash>>} :
          call' = [fn |-> "upstreams", entries |-> <<e, PlainUpstream(l)>>]
     \/ \E b \in ProxyEndpoints, l \in Strings({"a", Dot, Slash, "A"}, 3), t \in {<<>>, <<"a">>, <<"u", Slash, "b">>} :
          call' = [fn |-> "url", base |-> b, label |-> l, tail |-> t]
     \/ \E m \in {"on", "off"}, n \in BOOLEAN, e \in {{}} \cup {{b} : b \in ProxyEndpoints}, l \in SUBSET {<<"a">>, <<"b">>, <<"a", Dot>>} :
          call' = [fn |-> "plane", config |-> [mode |-> m, network |-> n, endpoint |-> e, labels |-> l]]
     \/ \E p \in Strings({Slash, "j", "u", Grantee}, 6) : call' = [fn |-> "log", path |-> <<Slash>> \o p]
     \/ \E b \in Strings({0, 1, 77, 255}, 4) : call' = [fn |-> "base64", bytes |-> b]
  /\ UNCHANGED <<part, captureVars, serviceVars, graphVars, childVars>>

\* A tree with every kind of entry, and one that holds what the store never keeps.
WorkTrees ==
  {{TreeEntry(<<NameA>>, "dir", TRUE, ""), TreeEntry(<<NameA, NameB>>, "file", TRUE, "x"), File(<<NameB>>, "y"), TreeEntry(<<NameA, NameA>>, "link", FALSE, "b")},
   {File(<<NameA>>, "x"), TreeEntry(<<NameB>>, "other", FALSE, "")}}

CopiesTree ==
  /\ part = "work" /\ \E w \in WorkspaceSteps(call.work) : call' = [call EXCEPT !.work = w]
  /\ UNCHANGED <<part, captureVars, serviceVars, graphVars, childVars>>

\* The raw values of each variable: none, a blank, words of both cases, numbers, and typos.
RawValues ==
  [bind |-> {"blank", "host:port", " host:port "}, sandbox |-> {"container", "Docker", "LOCAL", "blank", "docer"},
   secrets |-> {"off", "dev", "KMS", "kmz", "blank"}, proxy |-> {" ON ", "off", "yes"}, slots |-> {"0", " 1 ", "9", "-1", "blank"},
   journal |-> {"Off", " ON ", "0", "of", "blank"}, reclaim |-> {"off", "yes", "nope"}, retention |-> {"0", "14d"},
   depth |-> {"1", "0", "on"}, total |-> {"0", "1"}, unsandboxed |-> {"1", "Off", "y"}, memo |-> {" ON ", "maybe"},
   secret |-> {"blank", "word"}, admin |-> {"blank", "word"}, url |-> {"blank", "word"}, replica |-> {"blank", "word"},
   store |-> {"word"}, work |-> {"word"}, node |-> {"blank", "word"}, image |-> {"word"}, trusted |-> {"blank", "word"},
   details |-> {"word"}, dev |-> {"blank", "word"}]
DevSamples ==
  ({<<"N">>, <<"N", "1">>, <<"1">>, <<"P">>, <<"N", Slash, "N">>} \X {<<"a">>})
  \cup {<< <<"N">>, <<>> >>, << <<"N">>, <<"a", Equals, Slash, "a">> >>}
Unset == [v \in DOMAIN RawValues |-> "unset"]
BootEnvs ==
  {[Unset EXCEPT !.sandbox = b[1], !.unsandboxed = b[2], !.secrets = m, !.proxy = p, !.journal = j, !.url = u[1], !.replica = u[2], !.admin = a,
                 !.node = i, !.dev = i] :
     b \in {<<"unset", "unset">>, <<"LOCAL", "unset">>, <<"LOCAL", "1">>}, m \in {"unset", "dev", "KMS"}, p \in {"unset", " ON "},
     j \in {"blank", "Off"}, u \in {<<"unset", "unset">>, <<"word", "blank">>, <<"word", "word">>}, a \in {"blank", "word"},
     i \in {"blank", "word"}}
\* One reading of an environment or of the trusted tenants, or a process that starts.
StartsUp ==
  /\ part = "start" /\ call = None
  /\ \/ \E v, w \in DOMAIN RawValues, cores \in {{}, {1}, {64}} : \E x \in RawValues[v], y \in RawValues[w] :
          call' = [fn |-> "config", env |-> [Unset EXCEPT ![v] = x, ![w] = y], cores |-> cores]
     \/ \E e \in BootEnvs, build \in {{}, {"postgres", "infisical"}} : \E c \in FromEnv(e, {4}) :
          call' = [fn |-> "boot", boot |-> Booting(c, build, 1)]
     \/ \E e \in SUBSET {<<"a">>, <<Space, "a", Slash, "b">>, <<"b", Space>>, AnyTenant, <<Space>>}, r \in Strings({"a", "b", Slash, Space}, 3) :
          call' = [fn |-> "trust", entries |-> e, repo |-> r]
     \/ \E raw \in Strings({"a", "N", Slash, Equals, Space}, 4), e \in DevSamples :
          call' = [fn |-> "dev", raw |-> raw, name |-> e[1], value |-> e[2]]
  /\ UNCHANGED <<part, captureVars, serviceVars, graphVars, childVars>>

Boots ==
  /\ call.fn = "boot" /\ \E s \in StartSteps(call.boot) : call' = [call EXCEPT !.boot = s]
  /\ UNCHANGED <<part, captureVars, serviceVars, graphVars, childVars>>

\* One value of a pipeline file, or one line of a makefile.
ReadsValue ==
  /\ part = "value" /\ call = None
  /\ \/ \E t \in Strings({"0", "1", "9", "+", "s", "m", "h", "euro"}, 4) : call' = [fn |-> "timeout", text |-> t]
     \/ \E s \in Strings({"a", "b", Slash, "_", Dot, LineBreak}, 4) : call' = [fn |-> "stepname", text |-> s]
     \/ \E s \in Strings({"a", Slash, Space, Control, LineBreak, ":", Backslash}, 4) : call' = [fn |-> "message", text |-> s]
     \/ \E l \in [{"steps", "nesting", "raw_nesting", "stack"} -> 0..3] : call' = [fn |-> "clamp", limits |-> l]
     \/ \E v \in [type : {"int"}, is : -1..4] \cup [type : {"str"}, is : {"auto", "2"}] \cup [type : {"bool"}, is : BOOLEAN] :
          call' = [fn |-> "shard", value |-> v]
     \/ \E l \in Strings({"test", "x", ":", "=", Space, "#"}, 4) \cup Strings({"test", ":", "=", Space}, 5) : call' = [fn |-> "make", line |-> l]
  /\ UNCHANGED <<part, captureVars, serviceVars, graphVars, childVars>>

\* The end of a step or of its clock, or a run on the local backend.
TellsStep ==
  /\ part = "report" /\ call = None
  /\ \/ \E e \in {"zero", "nonzero", "signal", "timeout", "no_tests", "error"},
           n \in Strings({"a", Backtick, Escape}, 2), t \in Strings({"a", Backtick, Escape, "timeout:", Space}, 3) :
          call' = [fn |-> "tell", exec |-> e, name |-> n, tail |-> t]
     \/ \E n \in Strings({"a", Backtick, Control}, 2), x \in {"step", "job", "queue", "fetch"} : call' = [fn |-> "expiry", name |-> n, expiry |-> x]
     \/ \E s \in Strings({"passed", "cached", "failed", "skipped"}, 3) : call' = [fn |-> "green", states |-> s]
     \/ \E v \in BOOLEAN, a \in {<<>>, <<"a">>} : call' = [fn |-> "local", local |-> LocalSandbox(v, a)]
  /\ UNCHANGED <<part, captureVars, serviceVars, graphVars, childVars>>

RunsLocally ==
  /\ call.fn = "local" /\ \E l \in LocalSteps(call.local) : call' = [call EXCEPT !.local = l]
  /\ UNCHANGED <<part, captureVars, serviceVars, graphVars, childVars>>

\* One step of every kind, alone in its file, by what may be missing or refused on the way.
PlacedSteps ==
  {[PlanStep("s") EXCEPT !.secrets = s, !.image = i, !.kind = k, !.timeout = c[1], !.shard = c[2], !.cache = c[2], !.needs = c[2]] :
     s \in {{}, {"npm"}, {"npm", "key"}}, i \in {{}, {"own"}}, k \in {"run", "action"}, c \in {<<{}, {}>>, <<{30}, {1}>>}}
PlacedPipelines ==
  {[PipelineOf(<<s>>) EXCEPT !.image = i, !.trust = t] : s \in PlacedSteps, i \in {{}, {"file"}}, t \in {{}, {"x"}}}
PlacedEntries == {[is |-> "file", bytes |-> n, utf8 |-> u] : n \in {2, 3}, u \in BOOLEAN} \cup {[is |-> "absent"], [is |-> "link"]}
Brokers == [on : BOOLEAN, stored : {[t \in {<<"a">>, <<"b">>} |-> {"npm", "key"}], [t \in {<<"a">>} |-> {"npm"}], [t \in {<<"b">>} |-> {"npm", "key"}]}]
PlainPlacement ==
  [repo |-> <<Space, "a", Slash, "b">>, trusted |-> {<<"a">>}, fetch |-> "fetched", entry |-> [is |-> "file", bytes |-> 2, utf8 |-> TRUE],
   pipeline |-> PipelineOf(<<PlanStep("s")>>), command |-> "cargo test", broker |-> [on |-> TRUE, stored |-> [t \in {<<"a">>} |-> {"npm"}]],
   controls |-> Clauses, redeemed |-> TRUE, packages |-> {}]

\* A job and its step, the urls that are owed its verdict, or a node and what runs on it.
PlacesStep ==
  /\ part = "place" /\ call = None
  /\ \/ \E p \in PlacedPipelines, b \in Brokers, t \in {{}, {<<"a">>}}, c \in {Clauses, LocalControls}, v \in {{}, {"NPM_CONFIG_REGISTRY"}} :
          call' = [fn |-> "place", job |-> [PlainPlacement EXCEPT !.pipeline = p, !.broker = b, !.trusted = t, !.controls = c, !.packages = v]]
     \/ \E e \in PlacedEntries, f \in {"hit", "fetched", "mismatch", "dropped"}, k \in {"none", "cargo test"}, r \in BOOLEAN, o \in {<<"b">>, <<"a", Slash, "b">>},
           s \in {{}, {"npm"}} :
          call' = [fn |-> "place", job |-> [PlainPlacement EXCEPT !.entry = e, !.fetch = f, !.command = k, !.redeemed = r, !.repo = o,
                                                                 !.pipeline.steps[1].secrets = s]]
     \/ \E u \in Strings({"u", "v"}, 3) :
          call' = [fn |-> "urls", job |-> NewJob("j", Dispatched(<<"a">>, "t", "u", {}), "member", 0, 1), urls |-> u]
     \/ \E n \in 0..2, m \in Strings({"take", "give", "t1", "t2"}, 4), c \in {Clauses, LocalControls} :
          call' = [fn |-> "heartbeat", agent |-> NewAgent("n", n, c), moves |-> m]
  /\ UNCHANGED <<part, captureVars, serviceVars, graphVars, childVars>>

Parts == {"place", "value", "report", "start", "door", "routes", "work", "bind", "kms", "queue", "memo", "digest", "archive", "broker", "proxy", "bucket", "path", "graph", "eval", "plan", "shape", "capture", "posture", "spawn", "repo", "key", "summary"}

Init ==
  /\ part \in Parts /\ CaptureInit /\ ChildInit /\ ProxyInit /\ MemoInit /\ FqInit /\ KmsInit
  /\ call \in CASE part = "plan" -> {[fn |-> "plan", rec |-> EmptyRecorder]}
                [] part = "archive" -> {[fn |-> "archive", st |-> EmptyArchive]}
                [] part = "work" -> {[fn |-> "work", work |-> EmptyWorkspace(t)] : t \in WorkTrees}
                [] part = "bucket" -> {[fn |-> "bucket", meter |-> FullMeter]}
                [] OTHER -> {None}
  /\ IF part = "graph" THEN GraphInit ELSE GraphIdle
  /\ IF part = "broker" THEN BrokerInit({"dev", "kms"}, {Cap}, 1) ELSE BrokerInit({"dev"}, {Cap}, MaxCalls - 1)

Next ==
  \/ Drives \/ Captures \/ Evaluates \/ RecordsPlan \/ MeasuresSource
  \/ ProbesNetwork \/ SpawnsSandbox \/ NamesRepo \/ ReportsLogKey \/ SummarisesStep
  \/ UsesBroker \/ UsesProxy \/ TakesToken \/ ResolvesTail
  \/ UsesMemo \/ UsesQueue \/ DigestsTrees \/ ReadsArchive
  \/ BindsContext \/ UsesKms \/ KnocksOnDoor \/ RoutesProxy \/ CopiesTree \/ StartsUp \/ Boots
  \/ ReadsValue \/ TellsStep \/ RunsLocally \/ PlacesStep

Spec == Init /\ [][Next]_vars

-----------------------------------------------------------------------------
\* PlanIsRunnable, of every recording, and the driver finds no step of it dangling or
\* on a cycle.  A recording that failed, and a file that cannot be read, plan nothing.
\* WeightCoversNesting, of every source in front of the parser.  What a value says is what
\* is done: TimeoutIsAsWritten, LegalNamesHaveKeys, ShardIsAsWritten, ClampedIsUsable and
\* MessageIsSafe; and DetectsTarget and DetectionIsStable where there is no file.  DeclaredIsHonoured of every
\* step that is handed to a node.
PlanIsTheAuthors ==
  /\ call.fn = "timeout" => TimeoutIsAsWritten(call.text)
  /\ call.fn = "stepname" => \A o \in {<<"a">>, <<"a", Slash, "1">>, <<"b">>} : LegalNamesHaveKeys(call.text, o)
  /\ call.fn = "message" => MessageIsSafe(call.text)
  /\ call.fn = "clamp" => ClampedIsUsable(call.limits)
  /\ call.fn = "shard" => ShardIsAsWritten(call.value)
  /\ call.fn = "place" => DeclaredIsHonoured(call.job)
  /\ call.fn = "make" => DetectsTarget(call.line) /\ \A f \in SUBSET {"go.mod", "Cargo.toml", "makefile"} : DetectionIsStable(f, call.line)
  /\ call.fn = "shape" => WeightCoversNesting(call.source)
  /\ call.fn = "plan" => PlanIsRunnable(call.rec)
  /\ call.fn = "plan" =>
       \A file \in {"absent", "unreadable", "present"} :
         LET plan == PlanFrom(file, call.rec, <<[name |-> "test", needs |-> {}]>>)
             graph == NeedsOf(plan.steps)
         IN  /\ plan.kind = "plan" /\ file # "absent" => call.rec.failure = "none" /\ file = "present"
             /\ \A t \in SUBSET DOMAIN graph :
                  "errored" \notin {AdvanceLoop([m \in DOMAIN graph |-> "pending"], graph, t)[n] : n \in DOMAIN graph}

\* What the node claims of a network is true of it, whichever tools the probe image
\* lacks and wherever its output was cut: egress_deny means that no packet leaves and
\* that the node answers on nothing but the proxy, metadata_blackhole that the
\* metadata service is out of reach, no_inbound that no other container is.
PostureIsEarned ==
  call.fn = "posture" =>
    /\ "egress_deny" \in call.facts =>
         ~Forwards(call.world) /\ ~call.world.dns /\ call.world.open \subseteq call.open
    /\ "metadata_blackhole" \in call.facts => ~ReachesMetadata(call.world)
    /\ "no_inbound" \in call.facts => ~call.world.icc

\* PostureIsEarned, and a job that spawn does not refuse runs under every clause
\* controls_for claimed, in the container created for it and in the warm one it joined:
\* a member warmed from the key of a job is the container created for the job, whatever of
\* the daemon's answer arrived.  CaveatsAreTrue of every posture and WireUnderstates of
\* every claim.  What the runner was told is what it does: ConfigIsAsWritten of every environment, ServesWhole of
\* every start, TrustIsByTenant of every list of trusted tenants, and DevSecretsAreAsWritten.  PlacementIsItsOwn of
\* every job on its way to a sandbox, and HeartbeatIsTrue of every node.
RunsUnderItsClaims ==
  /\ PostureIsEarned
  /\ call.fn = "spawn" =>
       \A c \in ControlsFor(call.answer, call.cfg) :
         /\ InForce(c, call.daemon, call.world, Cold(call.cfg, call.spec), call.spec)
         /\ InForce(c, call.daemon, call.world, Warm(call.cfg, call.spec), call.spec)
  /\ call.fn = "spawn" => Warm(call.cfg, call.spec) = Cold(call.cfg, call.spec)
  /\ call.fn = "caveats" => CaveatsAreTrue(call.world, call.posture)
  /\ call.fn = "wire" => WireUnderstates(call.controls, call.omitted)
  /\ call.fn = "config" => ConfigIsAsWritten(call.env, call.cores)
  /\ call.fn = "boot" => ServesWhole(call.boot)
  /\ call.fn = "dev" => DevSecretsAreAsWritten(call.raw, <<"a">>, call.name, call.value)
  /\ call.fn = "trust" => TrustIsByTenant(call.entries, call.repo)
  /\ call.fn = "place" => PlacementIsItsOwn(call.job)
  /\ call.fn = "heartbeat" => HeartbeatIsTrue(call.agent, call.moves)

\* What reaches a store or a page from outside: OneSpelling of every repo string, so
\* that a tenant has one name; LogStaysHome of every key a node reports, its own, a
\* longer or another one; OneLine and EscapesLeaveNothing of every string a job prints.
\* DoorIsGuarded of every dispatch, BackoffIsSane and DeliveryIsTold of every callback,
\* PanelIsClosed of every request for the panel and EmbeddedIsInert of what its page shows.
\* VerdictIsTold, ExpiryIsTold and GreenTellsAll of every end of a step, and LocalEndsClean
\* of every run on the local backend; and UrlsAreAnsweredOnce, of every repeated dispatch.
NamesStayHome ==
  /\ call.fn = "repo" => OneSpelling(call.repo)
  /\ call.fn = "key" => LogStaysHome(call.repo, <<"b">>, call.key)
  /\ call.fn = "summary" => OneLine(call.raw, 3) /\ EscapesLeaveNothing(call.raw, 3)
  /\ call.fn = "ingest" => DoorIsGuarded(call.configured, call.request)
  /\ call.fn = "delay" => BackoffIsSane(call.policy, call.attempt)
  /\ call.fn = "deliver" => DeliveryIsTold(call.request, call.most, call.answers)
  /\ call.fn = "panel" => PanelIsClosed(<<1>>, call.request, PanelWorld)
  /\ call.fn = "embed" => EmbeddedIsInert(call.text)
  /\ call.fn = "tell" => VerdictIsTold(call.exec, call.name, call.tail)
  /\ call.fn = "expiry" => ExpiryIsTold(call.name, call.expiry)
  /\ call.fn = "green" => GreenTellsAll(call.states)
  /\ call.fn = "local" => LocalEndsClean(call.local)
  /\ call.fn = "urls" => UrlsAreAnsweredOnce(call.job, call.urls)

\* ShredIsFinal and StoredIsReadable: a value can be read while its keys are there, in
\* the middle of a rotation too, and not once they were shredded.  KmsIsHonest, whatever
\* the calls of two replicas do to one key.  What is bound to a context opens or verifies
\* in no other: SealedIsBound of every two records, SignedIsAsSent of every request,
\* TokenIsWhole of every string; and KeyNameIsLegal and OneCredential.
KeysGovernValues ==
  /\ ShredIsFinal /\ StoredIsReadable /\ KmsIsHonest
  /\ call.fn = "seal" => SealedIsBound(call.svc, call.one, call.other)
  /\ call.fn = "sign" => SignedIsAsSent(call.request, NodeRequests \cup ProxyRequests)
  /\ call.fn = "token" => TokenIsWhole(call.token)
  /\ call.fn = "keyname" => KeyNameIsLegal(call.prefix, call.tenant)
  /\ call.fn = "kms" => OneCredential(call.env)

\* CredentialStaysHome and AuditedOnce, of every interleaving of a job's requests with
\* its end and with what an operator revokes.  RateIsKept of every bucket, and
\* StaysUnderBase of every path a job asks for.  UpstreamsAreAsWritten and NoHalfProxy, of
\* every configuration; UrlsComeBack and GrantIsRedacted, of every url and path; and
\* Base64IsFaithful.
ProxySpendsWithCare ==
  /\ CredentialStaysHome /\ AuditedOnce
  /\ call.fn = "bucket" => RateIsKept(call.meter)
  /\ call.fn = "path" => StaysUnderBase(call.tail)
  /\ call.fn = "upstreams" => UpstreamsAreAsWritten(call.entries)
  /\ call.fn = "url" => UrlsComeBack(call.base, call.label, call.tail)
  /\ call.fn = "plane" => NoHalfProxy(call.config)
  /\ call.fn = "log" => GrantIsRedacted(call.path)
  /\ call.fn = "base64" => Base64IsFaithful(call.bytes)

\* What a tree is known by: DigestIsFaithful of every glob, MatchesAreLike of every
\* segment of one, VerifiedIsTheTree of every two trees, and ArchiveIsTheTree of every
\* archive, entry by entry; and WorkspaceIsItsOwn of every copy a step runs on.
TreesAreTheirAddress ==
  /\ call.fn = "glob" => DigestIsFaithful(MCTrees, call.glob)
  /\ call.fn = "segment" => MatchesAreLike(call.glob, Strings(Letters, 4))
  /\ call.fn = "verify" => VerifiedIsTheTree(call.tree, call.other)
  /\ call.fn = "archive" => ArchiveIsTheTree(call.st)
  /\ call.fn = "work" => WorkspaceIsItsOwn(call.work)
=============================================================================
