--------------------------- MODULE SandboxPolicy ---------------------------
(***************************************************************************)
(* What a container node claims about its sandboxes, and what it builds:   *)
(*   the network posture probe, controls_for, spawn's refusals and the     *)
(*   create and exec command lines (crates/hull-ci-node/src/container.rs), *)
(*   PoolKey, the recipe of a warm member (pool.rs),                       *)
(*   validate_spec (sandbox.rs), reject_forbidden_except (env.rs),         *)
(*   and the clauses the scheduler reads (crates/hull-ci-proto/src/lib.rs).*)
(*                                                                         *)
(* A network, a daemon, a configuration and a spec are records of what     *)
(* these functions look at.  What a container on a network can really do   *)
(* is Egress, Metadata and friends: the claims are held against those.     *)
(***************************************************************************)
EXTENDS Naturals, FiniteSets, SequencesExt

-----------------------------------------------------------------------------
\* Clause, and which of them a backend needs before it runs an outsider's code.
Clauses ==
  {"single_use", "kernel_isolation", "env_allowlist", "metadata_blackhole", "egress_deny",
   "no_inbound", "non_root", "read_only_rootfs", "tmpfs_scratch", "caps_dropped",
   "no_new_privileges", "seccomp_default_deny", "cpu_limit", "memory_limit", "pid_limit",
   "disk_limit", "wall_clock_timeout", "output_cap"}

RequiredForUntrusted ==
  {"single_use", "kernel_isolation", "env_allowlist", "metadata_blackhole", "egress_deny",
   "no_inbound", "cpu_limit", "memory_limit", "wall_clock_timeout", "output_cap"}

\* EnforcedControls is what is measured on the host, a set of clauses; BackendCapabilities
\* what is told to the scheduler, a flag for each.  The kernel's boundary has another name
\* there.
WireName(c) == IF c = "kernel_isolation" THEN "cross_tenant_safe" ELSE c
Flags == {WireName(c) : c \in Clauses}

\* to_capabilities.
ToCapabilities(controls) == [f \in Flags |-> \E c \in controls : WireName(c) = f]

\* Mutant: a flag that was not sent is one that was not switched off.
ReceivedKindly(sent) == [f \in Flags |-> f \notin DOMAIN sent \/ sent[f]]

\* serde(default), of the flags a peer sent: the others read as not enforced.
Received(sent) == [f \in Flags |-> f \in DOMAIN sent /\ sent[f]]

\* enforces, unmet_clauses, fully_conforming, unmet_for_untrusted and admits_untrusted.
Enforces(caps, c) == caps[WireName(c)]
UnmetClauses(caps) == {c \in Clauses : ~Enforces(caps, c)}
FullyConforming(caps) == UnmetClauses(caps) = {}
UnmetForUntrusted(caps) == {c \in RequiredForUntrusted : ~Enforces(caps, c)}
AdmitsUntrusted(caps) == UnmetForUntrusted(caps) = {}

\* NodeAgent::admission_check.
Admits(tier, caps, a) ==
  /\ a.tier = tier
  /\ a.author = "outsider" => AdmitsUntrusted(caps)

\* LocalProcessBackend::controls_reported.
LocalControls == {"wall_clock_timeout", "output_cap", "env_allowlist"}

-----------------------------------------------------------------------------
(* A network, as it is: is there a default route (route), can a sandbox add one
   (admin), does the daemon drop what is forwarded (drop), does a name resolve
   (dns), is there a metadata service (metadata), can one container reach another
   (icc), which scanned ports does the node answer on (open), does the proxy answer
   (proxy), and does the daemon call the network internal. *)
Forwards(w) == (w.route \/ w.admin) /\ ~w.drop
ReachesMetadata(w) == w.metadata /\ Forwards(w)

\* The shell's exit code for a step of the probe: 127 without the tool.
Rc(tools, tool, succeeds) == IF tool \notin tools THEN 127 ELSE IF succeeds THEN 0 ELSE 1

\* POSTURE_SCRIPT: what the probe container prints, in order.
ProbeOutput(w, tools, hadPeer) ==
  LET nc(yes) == Rc(tools, "nc", yes)
      open == IF "nc" \in tools THEN SetToSeq(w.open) ELSE <<>>
  IN  << <<"iprc", Rc(tools, "ip", TRUE)>>,
         <<"default_route", IF "ip" \in tools /\ w.route THEN 1 ELSE 0>>,
         <<"raw_ip", nc(w.route /\ ~w.drop)>>,
         <<"metadata", nc(w.metadata /\ w.route /\ ~w.drop)>>,
         <<"public_dns", Rc(tools, "nslookup", w.dns)>>,
         <<"proxy", nc(w.proxy)>>,
         <<"peer", IF hadPeer THEN nc(w.icc) ELSE 1>> >>
      \o [i \in 1..Len(open) |-> <<"gwopen", open[i]>>]
      \o << <<"route_add", Rc(tools, "ip", w.admin)>>, <<"probe_done", 1>> >>

Said(out, key) == {out[i][2] : i \in {j \in 1..Len(out) : out[j][1] = key}}

\* Mutant: an answer is an answer, whoever gave it.
ParsePostureTrusting(out, internal, hadPeer) ==
  LET zero(key) == 0 \in Said(out, key)
      other(key) == Said(out, key) \ {0} # {}
  IN  [declaredInternal |-> internal,
       noDefaultRoute |-> zero("default_route"),
       publicIpUnreachable |-> other("raw_ip"),
       metadataUnreachable |-> other("metadata"),
       publicDnsUnresolvable |-> other("public_dns"),
       proxyReachable |-> zero("proxy"),
       peerUnreachable |-> hadPeer /\ other("peer"),
       cannotAddRoute |-> other("route_add"),
       open |-> Said(out, "gwopen"),
       failure |-> Said(out, "probe_done") = {}]

\* parse_posture.  Truncated output, a missing tool and a failing `ip` make it a
\* failure whatever else was said.
ParsePosture(out, internal, hadPeer) ==
  LET zero(key) == 0 \in Said(out, key)
      other(key) == Said(out, key) \ {0} # {}
  IN  [declaredInternal |-> internal,
       noDefaultRoute |-> zero("default_route"),
       publicIpUnreachable |-> other("raw_ip"),
       metadataUnreachable |-> other("metadata"),
       publicDnsUnresolvable |-> other("public_dns"),
       proxyReachable |-> zero("proxy"),
       peerUnreachable |-> hadPeer /\ other("peer"),
       cannotAddRoute |-> other("route_add"),
       open |-> Said(out, "gwopen"),
       failure |-> \/ Said(out, "probe_done") = {}
                   \/ \E i \in 1..Len(out) : out[i][2] = 127
                   \/ ~zero("iprc")]

\* exclude_proxy_port: the proxy may answer on the gateway, if that is where it is.
ExcludeProxyPort(p, proxyOnGateway, port) ==
  IF proxyOnGateway THEN [p EXCEPT !.open = @ \ {port}] ELSE p

\* probe_network_posture.  A network the daemon cannot describe, or a probe that
\* does not come back with exit 0, is a failure; `cut` is how much of the output
\* arrived.
ProbeNetworkPosture(w, tools, hadPeer, described, cut, proxyOnGateway, port) ==
  LET out == ProbeOutput(w, tools, hadPeer)
      heard == IF described THEN SubSeq(out, 1, IF cut < Len(out) THEN cut ELSE Len(out)) ELSE <<>>
  IN  ExcludeProxyPort(ParsePosture(heard, w.internal, hadPeer), proxyOnGateway, port)

EgressDenied(p) ==
  /\ ~p.failure /\ p.declaredInternal /\ p.noDefaultRoute /\ p.cannotAddRoute
  /\ p.publicIpUnreachable /\ p.publicDnsUnresolvable /\ p.open = {}

\* Mutant: a connect that fails is a blackhole.
MetadataBlackholedByProbe(p) == ~p.failure /\ p.metadataUnreachable

MetadataBlackholed(p) ==
  ~p.failure /\ p.metadataUnreachable /\ p.noDefaultRoute /\ p.cannotAddRoute

\* network_facts: the clauses a network lets the backend claim; net.posture is the
\* set of the one posture that was probed, or empty.
NetworkFacts(namespaced, net) ==
  IF ~namespaced \/ net.mode = "named" THEN {}
  ELSE IF net.mode = "none" THEN {"egress_deny", "metadata_blackhole", "no_inbound"}
  ELSE {c \in {"egress_deny", "metadata_blackhole", "no_inbound"} :
          \E p \in net.posture :
            CASE c = "egress_deny"        -> EgressDenied(p)
              [] c = "metadata_blackhole" -> MetadataBlackholed(p)
              [] OTHER -> ~p.failure /\ p.peerUnreachable}

\* Mutant: what a failed probe did not find is told as found.
CaveatsOfAll(p) ==
  {"scan is a sample", "metadata by route", "node reaches in"}
    \cup (IF p.peerUnreachable THEN {} ELSE {"peers reach in"}) \cup (IF p.proxyReachable THEN {} ELSE {"proxy is silent"})

\* caveats: what the log says of a posture, beside the clauses that are unmet.
Caveats(p) ==
  IF p.failure THEN {"nothing is known"}
  ELSE {"scan is a sample", "metadata by route", "node reaches in"}
       \cup (IF p.peerUnreachable THEN {} ELSE {"peers reach in"}) \cup (IF p.proxyReachable THEN {} ELSE {"proxy is silent"})

\* NetworkMode.  A proxy's network has the posture somebody probed, or none.
NoNetwork == [mode |-> "none", name |-> "none", posture |-> {}]
NamedNetwork(name) == [mode |-> "named", name |-> name, posture |-> {}]
ProxyOnly(posture) == [mode |-> "proxy", name |-> "proxy", posture |-> posture]

\* ContainerConfig::default; runner is the label a container is reaped by.
DefaultContainerConfig ==
  [runtime |-> "docker", network |-> NoNetwork, user |-> "65534", seccomp |-> "default", runner |-> "hull-ci-node-0"]

-----------------------------------------------------------------------------
\* What `docker info` says of a daemon as it is; fields of it may be missing.
Answer(d) ==
  [os |-> d.os, memory |-> d.memory, pids |-> d.pids, cpu |-> d.cpu,
   options |-> IF d.seccomp = "off" THEN {} ELSE {IF d.seccomp = "builtin" THEN {"name=seccomp"} ELSE {"name=seccomp", d.seccomp}}]

Unreachable == [reachable |-> FALSE, os |-> "?", seccomp |-> "none", cpu |-> FALSE, memory |-> FALSE, pids |-> FALSE]

\* Mutant: what the daemon does not mention, it has.
AsBoolKindly(said, f) == f \notin DOMAIN said \/ said[f]

\* as_bool, or false.
AsBool(said, f) == f \in DOMAIN said /\ said[f]

\* probe_docker: no CLI, a clock that fires and an exit code are one failure here.  The
\* profile of an option that names none is the built-in one.
ProbeDocker(rc, json, said) ==
  LET seccomp == IF "options" \in DOMAIN said THEN {o \in said.options : "name=seccomp" \in o} ELSE {}
      profiles == UNION seccomp \ {"name=seccomp"}
  IN  IF rc # 0 \/ ~json THEN Unreachable
      ELSE [reachable |-> TRUE, os |-> IF "os" \in DOMAIN said THEN said.os ELSE "?",
            seccomp |-> IF seccomp = {} THEN "none" ELSE IF profiles = {} THEN "builtin" ELSE CHOOSE p \in profiles : TRUE,
            cpu |-> AsBool(said, "cpu"), memory |-> AsBool(said, "memory"), pids |-> AsBool(said, "pids")]

-----------------------------------------------------------------------------
\* runs_as_non_root: the uid half of --user.
RunsAsNonRoot(user) == user \notin {"", "0", "root"}

\* controls_for.  A daemon says whether it is there, its OS, its seccomp profile and
\* its cgroup controllers (probe_docker).
ControlsFor(daemon, cfg) ==
  LET linux == daemon.os = "linux"
      seccomp == cfg.seccomp # "default" \/ daemon.seccomp \notin {"none", "unconfined"}
  IN  IF ~daemon.reachable THEN {}
      ELSE {"single_use", "env_allowlist", "wall_clock_timeout", "output_cap"}
           \cup NetworkFacts(linux, cfg.network)
           \cup (IF linux THEN {"read_only_rootfs", "tmpfs_scratch", "caps_dropped",
                                "no_new_privileges"} ELSE {})
           \cup (IF linux /\ RunsAsNonRoot(cfg.user) THEN {"non_root"} ELSE {})
           \cup (IF linux /\ seccomp THEN {"seccomp_default_deny"} ELSE {})
           \cup (IF daemon.cpu THEN {"cpu_limit"} ELSE {})
           \cup (IF daemon.memory THEN {"memory_limit"} ELSE {})
           \cup (IF daemon.pids THEN {"pid_limit"} ELSE {})

\* --cpus is printed with two decimals; cpus are thousandths here.
Rendered(cpus) == (cpus + 5) \div 10

\* Mutant: the limit is compared before it is printed.
UnlimitedResourcesExact(l) ==
  {x \in {"cpus", "memory", "pids"} : IF x = "cpus" THEN l.cpus = 0 ELSE l[x] = 0}

\* unlimited_resources: ceilings the runtime would read as none.
UnlimitedResources(l) ==
  {x \in {"cpus", "memory", "pids"} : IF x = "cpus" THEN Rendered(l.cpus) = 0 ELSE l[x] = 0}

\* full_env and reject_forbidden_except: the credential-shaped names nobody authorised.
CredentialShaped == {"NPM_TOKEN", "AWS_KEY"}
FullEnv(spec) == spec.env \cup spec.secrets
RejectForbiddenExcept(env, authorised) == (env \cap CredentialShaped) \ authorised

\* Mutant: names are checked, and where the values came from is not.
ValidSpecByName(spec) == RejectForbiddenExcept(spec.env, spec.authorised) = {} /\ spec.workspace

\* validate_spec.
ValidSpec(spec) ==
  /\ spec.secrets \subseteq spec.authorised
  /\ RejectForbiddenExcept(FullEnv(spec), spec.authorised) = {}
  /\ spec.workspace

\* ContainerBackend::spawn refuses, or goes on to claim or create.
Spawns(daemon, spec) ==
  ValidSpec(spec) /\ daemon.reachable /\ UnlimitedResources(spec.limits) = {}

-----------------------------------------------------------------------------
\* create_argv: everything the container is created with.
CreateArgv(cfg, spec) ==
  [runtime |-> cfg.runtime, runner |-> cfg.runner, user |-> cfg.user, seccomp |-> cfg.seccomp,
   network |-> cfg.network.name, image |-> spec.image, workdir |-> spec.workdir,
   cpus |-> Rendered(spec.limits.cpus), memory |-> spec.limits.memory, pids |-> spec.limits.pids,
   tmpfs |-> spec.limits.tmpfs,
   values |-> spec.env, names |-> spec.secrets, mounts |-> spec.workspace]

\* exec_argv: what a member created before its job is told when it runs it.
ExecArgv(spec) == [workdir |-> spec.workdir, values |-> spec.env, names |-> spec.secrets]

\* Mutant: the key forgets which profile the syscalls are filtered with.
PoolKeyNoSeccomp(cfg, spec) ==
  [runtime |-> cfg.runtime, runner |-> cfg.runner, user |-> cfg.user, seccomp |-> "default",
   network |-> cfg.network, image |-> spec.image, workdir |-> spec.workdir,
   limits |-> [cpus |-> Rendered(spec.limits.cpus), memory |-> spec.limits.memory,
               pids |-> spec.limits.pids, tmpfs |-> spec.limits.tmpfs]]

\* PoolKey::for_job, LimitsKey::of and NetworkIdentity.
PoolKey(cfg, spec) ==
  [runtime |-> cfg.runtime, runner |-> cfg.runner, user |-> cfg.user, seccomp |-> cfg.seccomp,
   network |-> cfg.network, image |-> spec.image, workdir |-> spec.workdir,
   limits |-> [cpus |-> Rendered(spec.limits.cpus), memory |-> spec.limits.memory,
               pids |-> spec.limits.pids, tmpfs |-> spec.limits.tmpfs]]

\* PoolKey::container_config and network_mode.
ContainerConfig(key) ==
  [runtime |-> key.runtime, runner |-> key.runner, user |-> key.user, seccomp |-> key.seccomp,
   network |-> key.network]

\* PoolKey::shape_spec and LimitsKey::to_limits: no environment, nobody's secrets.
ShapeSpec(key) ==
  [image |-> key.image, workdir |-> key.workdir, env |-> {}, secrets |-> {}, authorised |-> {},
   workspace |-> TRUE,
   limits |-> [cpus |-> 10 * key.limits.cpus, memory |-> key.limits.memory,
               pids |-> key.limits.pids, tmpfs |-> key.limits.tmpfs]]

\* The sandbox a job runs in: created for it, or created from its key and joined.
Cold(cfg, spec) == CreateArgv(cfg, spec)
Warm(cfg, spec) ==
  LET key == PoolKey(cfg, spec) IN
  [CreateArgv(ContainerConfig(key), ShapeSpec(key))
     EXCEPT !.values = @ \cup ExecArgv(spec).values, !.names = @ \cup ExecArgv(spec).names]

-----------------------------------------------------------------------------
\* What the daemon makes of a command line: is the clause in force in that sandbox?
InForce(c, daemon, w, argv, spec) ==
  CASE c = "egress_deny" ->
         argv.network = "none" \/ (argv.network = "proxy" /\ ~Forwards(w))
    [] c = "metadata_blackhole" ->
         argv.network = "none" \/ (argv.network = "proxy" /\ ~ReachesMetadata(w))
    [] c = "no_inbound" -> argv.network = "none" \/ (argv.network = "proxy" /\ ~w.icc)
    [] c = "non_root" -> argv.user \notin {"", "0", "root"}
    [] c = "cpu_limit" -> daemon.cpu /\ argv.cpus > 0
    [] c = "memory_limit" -> daemon.memory /\ argv.memory > 0
    [] c = "pid_limit" -> daemon.pids /\ argv.pids > 0
    [] c = "seccomp_default_deny" -> argv.seccomp # "default" \/ daemon.seccomp = "builtin"
    [] c = "env_allowlist" ->
         argv.names \subseteq spec.authorised /\ argv.values \cap CredentialShaped \subseteq spec.authorised
    [] c = "kernel_isolation" -> FALSE
    [] OTHER -> TRUE

-----------------------------------------------------------------------------
\* What reaches the scheduler of a backend's clauses can only understate them, whatever a
\* peer leaves out: an outsider is admitted only where every clause that takes is enforced,
\* the gaps an operator reads are the gaps there are, and the local backend takes none.
WireUnderstates(controls, omitted) ==
  LET sent == ToCapabilities(controls)
      caps == Received([f \in DOMAIN sent \ omitted |-> sent[f]])
  IN  /\ Admits("container", caps, [tier |-> "container", author |-> "outsider"]) => RequiredForUntrusted \subseteq controls
      /\ UnmetClauses(caps) = (Clauses \ controls) \cup {c \in Clauses : WireName(c) \in omitted}
      /\ UnmetForUntrusted(caps) = {} <=> UnmetClauses(caps) \cap RequiredForUntrusted = {}
      /\ FullyConforming(caps) => AdmitsUntrusted(caps) /\ controls = Clauses
      /\ controls \subseteq LocalControls => ~AdmitsUntrusted(caps)

\* What is logged of a posture is so: the network's containers reach one another or the
\* proxy does not answer just where it says so (the peer was there to ask), and of a probe
\* that failed nothing is said.
CaveatsAreTrue(w, p) ==
  /\ p.failure => Caveats(p) = {"nothing is known"}
  /\ ~p.failure => ("peers reach in" \in Caveats(p) <=> w.icc) /\ ("proxy is silent" \in Caveats(p) <=> ~w.proxy)
=============================================================================
