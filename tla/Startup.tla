------------------------------ MODULE Startup ------------------------------
(***************************************************************************)
(* From the environment to a runner that serves: Config::from_env          *)
(* (hull-ci-server/src/config.rs) and ProxyConfig::from_env (hull-ci-proxy *)
(* /src/config.rs), the trusted tenants (membership.rs), the development   *)
(* secrets (secrets.rs, proxy.rs), and the steps of assemble and run       *)
(* (lib.rs) with what each of them may refuse.                             *)
(*                                                                         *)
(* An environment gives every variable a raw value; "unset" and "blank"    *)
(* are two of them.  A parser answers with the set of what it read, which  *)
(* is empty when it refuses.                                               *)
(***************************************************************************)
EXTENDS Integers, WireNames

CONSTANTS CoresPerSlot,     \* ResourceLimits::default().cpus
          MaxDerivedSlots,  \* MAX_DERIVED_NODE_SLOTS
          PlanCap           \* max_running_steps of the default plan

\* trim and to_ascii_lowercase, and the numbers among the raw values.
Spelled == [raw \in {" ON ", "Off", "Docker", "LOCAL", "KMS"} |->
              CASE raw = " ON " -> "on" [] raw = "Off" -> "off" [] raw = "Docker" -> "docker" [] raw = "LOCAL" -> "local" [] raw = "KMS" -> "kms"]
Plain(raw) == IF raw \in DOMAIN Spelled THEN Spelled[raw] ELSE raw
Number(raw) == CASE raw = "0" -> {0} [] raw \in {"1", " 1 "} -> {1} [] raw = "9" -> {9} [] OTHER -> {}

\* var: a variable that is blank is one that is not set.
Var(env, name) == IF env[name] \in {"unset", "blank"} THEN {} ELSE {env[name]}

Read(env, name, Parse(_), default) ==
  IF Var(env, name) = {} THEN {default} ELSE UNION {Parse(raw) : raw \in Var(env, name)}

\* SandboxChoice::parse, SecretsMode::parse and ProxyMode::parse.
SandboxOf(raw) ==
  CASE Plain(raw) \in {"container", "docker"} -> {"container"} [] Plain(raw) \in {"local", "local-process"} -> {"local"} [] OTHER -> {}
SecretsModeOf(raw) ==
  CASE Plain(raw) \in {"off", "none", "disabled"} -> {"off"} [] Plain(raw) \in {"dev", "development"} -> {"dev"}
    [] Plain(raw) \in {"infisical", "kms"} -> {"kms"} [] OTHER -> {}
ProxyModeOf(raw) ==
  CASE Plain(raw) \in {"off", "none", "disabled"} -> {FALSE} [] Plain(raw) \in {"on", "enabled"} -> {TRUE} [] OTHER -> {}

\* is_truthy: everything else is no.
IsTruthy(raw) == {Plain(raw) \in {"1", "true", "yes", "on"}}

\* Mutant: what is not a yes is a no.
SwitchLenient(raw) == {Plain(raw) \in {"1", "true", "yes", "on"}}

\* journal_enabled and reclaim_enabled: on, off, or an error.
Switch(raw) ==
  CASE Plain(raw) \in {"1", "true", "yes", "on"} -> {TRUE} [] Plain(raw) \in {"0", "false", "no", "off"} -> {FALSE} [] OTHER -> {}

\* slots_for_cores.
SlotsForCores(cores) ==
  LET derived == cores \div CoresPerSlot
  IN  IF derived < 1 THEN 1 ELSE IF derived > MaxDerivedSlots THEN MaxDerivedSlots ELSE derived

\* default_node_slots: a host that does not say has one core.
DefaultNodeSlots(cores) == SlotsForCores(IF cores = {} THEN 1 ELSE CHOOSE n \in cores : TRUE)

\* node_slots: zero is an error here and nowhere else.
NodeSlots(raw) == Number(raw) \ {0}

\* reclaim_retention: days are written and hours are kept.
HoursPerDay == 24
RetentionOf(raw) == {days * HoursPerDay : days \in Number(raw)}

\* bind: an address as it is, without a trim.
AddressOf(raw) == IF raw = "host:port" THEN {raw} ELSE {}
TextOf(raw) == {raw}

\* Mutant: the journal is off where nobody asks for it.
DefaultConfigOff(cores) ==
  [bind |-> "loopback", store |-> "temp/store", work |-> "temp/workspaces", node |-> "node-0", image |-> "m1",
   sandbox |-> "container", unsandboxed |-> FALSE, trusted |-> {}, slots |-> DefaultNodeSlots(cores), secrets |-> "off",
   proxy |-> FALSE, memo |-> FALSE, journal |-> FALSE, reclaim |-> TRUE, retention |-> 14 * HoursPerDay, depth |-> 0,
   total |-> 8, secret |-> {}, admin |-> {}, details |-> {}, dev |-> {}, url |-> {}, replica |-> {}]

\* Config::default.
DefaultConfig(cores) ==
  [bind |-> "loopback", store |-> "temp/store", work |-> "temp/workspaces", node |-> "node-0", image |-> "m1",
   sandbox |-> "container", unsandboxed |-> FALSE, trusted |-> {}, slots |-> DefaultNodeSlots(cores), secrets |-> "off",
   proxy |-> FALSE, memo |-> FALSE, journal |-> TRUE, reclaim |-> TRUE, retention |-> 14 * HoursPerDay, depth |-> 0,
   total |-> 8, secret |-> {}, admin |-> {}, details |-> {}, dev |-> {}, url |-> {}, replica |-> {}]

\* from_env: the whole configuration, or an error.  Two switches and the slots have a default
\* of their own.
FromEnv(env, cores) ==
  LET d == DefaultConfig(cores)
  IN  {[bind |-> b, store |-> e, work |-> w, node |-> i, image |-> g, sandbox |-> s, secrets |-> m, proxy |-> p, slots |-> n,
        journal |-> j, reclaim |-> r, retention |-> h, depth |-> k, total |-> t, unsandboxed |-> u, memo |-> o,
        trusted |-> IF Var(env, "trusted") = {} THEN d.trusted ELSE Var(env, "trusted"), secret |-> Var(env, "secret"),
        admin |-> Var(env, "admin"), details |-> Var(env, "details"), dev |-> Var(env, "dev"), url |-> Var(env, "url"),
        replica |-> Var(env, "replica")] :
         b \in Read(env, "bind", AddressOf, d.bind), e \in Read(env, "store", TextOf, d.store),
         w \in Read(env, "work", TextOf, d.work), i \in Read(env, "node", TextOf, d.node),
         g \in Read(env, "image", TextOf, d.image), s \in Read(env, "sandbox", SandboxOf, d.sandbox),
         m \in Read(env, "secrets", SecretsModeOf, d.secrets), p \in Read(env, "proxy", ProxyModeOf, FALSE),
         n \in Read(env, "slots", NodeSlots, DefaultNodeSlots(cores)), j \in Read(env, "journal", Switch, TRUE),
         r \in Read(env, "reclaim", Switch, TRUE), h \in Read(env, "retention", RetentionOf, d.retention),
         k \in Read(env, "depth", Number, d.depth), t \in Read(env, "total", Number, d.total),
         u \in Read(env, "unsandboxed", IsTruthy, FALSE), o \in Read(env, "memo", IsTruthy, FALSE)}

\* fleet_capacity: the fleet is as large as the node, and no quota is larger.
FleetCapacity(slots) ==
  LET fleet == IF slots < 1 THEN 1 ELSE slots
  IN  [fleet |-> fleet, cap |-> IF PlanCap > fleet THEN fleet ELSE PlanCap]

\* fetch::reclaim and warm_pool.
Reclaims(c) == IF c.reclaim THEN {c.retention} ELSE {}
WarmPool(c) == [depth |-> c.depth, total |-> c.total, root |-> "work/pool", on |-> c.depth > 0 /\ c.total > 0]

-----------------------------------------------------------------------------
AnyTenant == <<"*">>

\* TrustedTenants::parse, of what the commas leave, and classify.
ParseTrusted(entries) ==
  LET given == {Trim(e) : e \in entries} \ {<<>>}
  IN  [all |-> AnyTenant \in given, names |-> {TenantOf(n) : n \in given \ {AnyTenant}}]
Classify(trusted, repo) == IF trusted.all \/ TenantOf(repo) \in trusted.names THEN "member" ELSE "outsider"

-----------------------------------------------------------------------------
Equals == "="
Uppercase == {"N", "P", "_"}
Reserved == {<<"P">>}   \* RESERVED_NAMES

\* validate_name: what the name of a secret may be, given that it becomes a variable.
ValidName(name) ==
  /\ name # <<>> /\ Head(name) \in Uppercase /\ ToSet(name) \subseteq Uppercase \cup {"1"}
  /\ name \notin Reserved

\* Mutant: a value ends where another could begin.
DevEntryLast(raw) ==
  UNION {{[tenant |-> t.before, name |-> t.after, value |-> e.after] : t \in SplitAt(Trim(e.before), Slash)} :
           e \in {[before |-> SubSeq(raw, 1, n - 1), after |-> SubSeq(raw, n + 1, Len(raw))] :
                    n \in {i \in DOMAIN raw : raw[i] = Equals /\ \A j \in DOMAIN raw : raw[j] = Equals => j <= i}}}

\* One entry of HULL_CI_DEV_SECRETS, tenant/NAME=value, as both of its readers read it.
DevEntry(raw) ==
  UNION {{[tenant |-> t.before, name |-> t.after, value |-> e.after] : t \in SplitAt(Trim(e.before), Slash)} :
           e \in SplitAt(Trim(raw), Equals)}

\* A later entry takes the place of an earlier one.
Overlaid(kept, new) ==
  {s \in kept : \A n \in new : s.tenant # n.tenant \/ s.name # n.name} \cup new

\* seed_dev_secrets, into the broker, and dev_credentials, for the proxy.
SeedDevSecrets(raws) == FoldLeft(LAMBDA kept, raw : Overlaid(kept, {e \in DevEntry(raw) : ValidName(e.name)}), {}, raws)
DevCredentials(raws) == FoldLeft(LAMBDA kept, raw : Overlaid(kept, DevEntry(raw)), {}, raws)

-----------------------------------------------------------------------------
\* A process that has read its configuration.  owed is what the last run left in the
\* journal; build holds the features the binary was compiled with.
Booting(c, build, owed) ==
  [at |-> "backend", cfg |-> c, build |-> build, owed |-> owed, backend |-> "none", dirs |-> FALSE, agent |-> {}, plane |-> {},
   control |-> {}, journal |-> "none", claims |-> "none", recovered |-> FALSE, attached |-> FALSE, panel |-> FALSE,
   open |-> {}, accepted |-> FALSE]

\* main: an error ends the process, and with it every listener.
MainExits(s) == {[s EXCEPT !.at = "exited", !.open = {}]}

\* Mutant: without a container runtime jobs run as plain processes.
ChooseBackendFalls(s) ==
  {[s EXCEPT !.at = "dirs", !.backend = b] : b \in IF s.cfg.sandbox = "container" THEN {"container", "local"} ELSE {"local"}}

\* choose_backend: the container runtime answers, or it does not.
ChooseBackend(s) ==
  CASE s.cfg.sandbox = "container" -> {[s EXCEPT !.at = "dirs", !.backend = "container"]} \cup MainExits(s)
    [] ~s.cfg.unsandboxed -> MainExits(s)
    [] OTHER -> {[s EXCEPT !.at = "dirs", !.backend = "local"]}

\* prepare_dir, twice, the fetch broker and the agent of the one node.
PreparesDirs(s) ==
  {[s EXCEPT !.at = "secrets", !.dirs = TRUE, !.agent = {[node |-> s.cfg.node, slots |-> s.cfg.slots]}]} \cup MainExits(s)

\* Mutant: the node is enrolled under the name it has when nobody gives it one.
BuildPlaneDefault(c, keys) == [keys |-> keys, enrolled |-> "node-0", seeded |-> c.dev]

\* build_plane, the same for all keys, and what seed_dev_secrets puts into it.
BuildPlane(c, keys) == [keys |-> keys, enrolled |-> c.node, seeded |-> c.dev]

\* secrets::assemble with assemble_infisical: a mode that cannot be had leaves no broker.
AssembledPlane(c, build) ==
  CASE c.secrets = "off" -> {{}} [] c.secrets = "dev" -> {{BuildPlane(c, "dev")}}
    [] OTHER -> {{}} \cup IF "infisical" \in build THEN {{BuildPlane(c, "kms")}} ELSE {}

\* The fleet is built of the agent and the plane there is, and the control plane is told
\* what the fleet can hold; memo::assemble is in it.
AssemblesSecrets(s) ==
  {[s EXCEPT !.at = "journal", !.plane = p,
             !.control = {[secret |-> s.cfg.secret, fair |-> FleetCapacity(s.cfg.slots), memo |-> s.cfg.memo]}] :
     p \in AssembledPlane(s.cfg, s.build)}

\* journal::assemble, after the callback client.
OpensJournal(s) ==
  {[s EXCEPT !.at = "claims", !.journal = IF s.cfg.journal THEN "file" ELSE "nothing"]} \cup MainExits(s)

\* claims::assemble: an index of this process, or one that is shared and known to be.
AssemblesClaims(s) ==
  CASE s.cfg.url = {} -> {[s EXCEPT !.at = "recover", !.claims = "local"]}
    [] s.cfg.replica = {} \/ "postgres" \notin s.build -> MainExits(s)
    [] OTHER -> {[s EXCEPT !.at = "recover", !.claims = "shared"]} \cup MainExits(s)

\* journal::recover: what the journal holds is answered or kept; neither stops the start.
\* A journal that remembers nothing owes nothing.
Recovers(s) ==
  {[s EXCEPT !.at = "control", !.recovered = TRUE, !.owed = o] : o \in IF s.journal = "file" THEN 0..s.owed ELSE {s.owed}}

\* Control::new, attach and the router, with the panel if there is a token.
BuildsRouter(s) == {[s EXCEPT !.at = "proxy", !.attached = TRUE, !.panel = s.cfg.admin # {}]}

\* run: the proxy's listener, then the one for dispatches.
BindsProxy(s) == IF s.cfg.proxy THEN {[s EXCEPT !.at = "bind", !.open = {"proxy"}]} \cup MainExits(s) ELSE {[s EXCEPT !.at = "bind"]}
Binds(s) == {[s EXCEPT !.at = "serving", !.open = @ \cup {"dispatch"}]} \cup MainExits(s)

\* A dispatch arrives; the server stops, or the proxy's task does.
ServesDispatches(s) ==
  {[s EXCEPT !.accepted = TRUE]} \cup MainExits(s) \cup {[s EXCEPT !.open = @ \ {"proxy"}]}

StartSteps(s) ==
  CASE s.at = "backend" -> ChooseBackend(s) [] s.at = "dirs" -> PreparesDirs(s) [] s.at = "secrets" -> AssemblesSecrets(s)
    [] s.at = "journal" -> OpensJournal(s) [] s.at = "claims" -> AssemblesClaims(s) [] s.at = "recover" -> Recovers(s)
    [] s.at = "control" -> BuildsRouter(s) [] s.at = "proxy" -> BindsProxy(s) [] s.at = "bind" -> Binds(s)
    [] s.at = "serving" -> ServesDispatches(s) [] OTHER -> {}

-----------------------------------------------------------------------------
\* A configuration that is read is the one that was written: a blank value is none; one
\* variable sets one field, and the others are what they are where nobody sets anything; a
\* typo is never a default, and where anything goes it is a no; nothing turns isolation or
\* the journal off but a word for it; and the fleet can run a step and no quota promises more.
ConfigIsAsWritten(env, cores) ==
  LET read == FromEnv(env, cores)
      Typo(v) == FromEnv([env EXCEPT ![v] = "tpyo"], cores)
  IN  /\ read = FromEnv([v \in DOMAIN env |-> IF env[v] = "blank" THEN "unset" ELSE env[v]], cores)
      /\ \A c \in read, v \in DOMAIN env : Var(env, v) = {} => c[v] = DefaultConfig(cores)[v]
      /\ \A v \in {"bind", "sandbox", "secrets", "proxy", "slots", "journal", "reclaim", "retention", "depth", "total"} : Typo(v) = {}
      /\ \A v \in {"unsandboxed", "memo"} : \A c \in Typo(v) : ~c[v]
      /\ \A c \in read :
           /\ c.sandbox = "local" => Plain(env.sandbox) \in {"local", "local-process"}
           /\ ~c.journal => Plain(env.journal) \in {"0", "false", "no", "off"}
           /\ c.secrets # "off" => Var(env, "secrets") # {}
           /\ Reclaims(c) = {} => Plain(env.reclaim) \in {"0", "false", "no", "off"}
           /\ LET f == FleetCapacity(c.slots) IN c.slots >= 1 /\ f.fleet = c.slots /\ f.cap \in 1..f.fleet
           /\ WarmPool(c).on => Number(env.depth) # {}

\* A dispatch is accepted by a runner that is all there: what the last run owed was answered
\* or is still in the journal, the node can be given work, jobs run in what was asked for,
\* the claims are shared if anyone said so, keys are where they were said to be and the node
\* may redeem what is sealed under them, the scheduler hands out what the node has room for,
\* and the proxy its jobs will need was listening first.  The panel is there if it has a token.
ServesWhole(s) ==
  /\ s.accepted => s.recovered /\ s.attached /\ s.dirs /\ s.journal = (IF s.cfg.journal THEN "file" ELSE "nothing")
  /\ "dispatch" \in s.open =>
       /\ s.backend = s.cfg.sandbox /\ (s.backend = "local" => s.cfg.unsandboxed)
       /\ s.claims = (IF s.cfg.url = {} THEN "local" ELSE "shared") /\ (s.claims = "shared" => s.cfg.replica # {})
       /\ \A p \in s.plane : p.keys = s.cfg.secrets /\ \A a \in s.agent : p.enrolled = a.node
       /\ \A c \in s.control, a \in s.agent : c.fair.fleet <= a.slots /\ c.fair.cap <= a.slots /\ c.secret = s.cfg.secret
       /\ s.panel <=> s.cfg.admin # {}
  /\ s.at = "bind" => (s.cfg.proxy <=> "proxy" \in s.open)
  /\ "proxy" \in s.open => s.recovered

\* What the comments on assemble_infisical say: a runner that was told to keep its keys in
\* the kms does not start without it.
KmsOrNothing(s) == s.at = "serving" /\ s.cfg.secrets = "kms" => s.plane # {}

\* What the comment on Config::dev_secrets says: they are seeded in a development broker.
SeedsDevOnly(s) == \A p \in s.plane : p.seeded # {} => p.keys = "dev"

\* A development secret is what its last entry says, under its tenant and name, and no entry
\* touches another's; the proxy's reading is the broker's, but for names no secret may have.
DevSecretsAreAsWritten(raw, tenant, name, value) ==
  LET written == <<raw, tenant \o <<Slash>> \o name \o <<Equals>> \o value>>
      own == [tenant |-> tenant, name |-> name, value |-> value]
      creds == DevCredentials(written)
  IN  /\ creds = {own} \cup {c \in DevCredentials(<<raw>>) : c.tenant # tenant \/ c.name # name}
      /\ SeedDevSecrets(written) = {c \in creds : ValidName(c.name)}

\* A tenant is trusted under every spelling of its repos or under none.
TrustIsByTenant(entries, repo) ==
  LET trusted == ParseTrusted(entries)
  IN  CanonicalRepo(repo) # Refused =>
        /\ Classify(trusted, repo) = Classify(trusted, CanonicalRepo(repo))
        /\ Classify(trusted, repo) = "member" =>
             \E e \in entries : Trim(e) = AnyTenant \/ TenantOf(e) = TenantOf(CanonicalRepo(repo))
=============================================================================
