---------------------------- MODULE ProxyRoutes ----------------------------
(***************************************************************************)
(* How the package proxy is set up and reached: the upstreams an operator  *)
(* writes (hull-ci-proxy/src/config.rs, allowlist.rs), the network and the *)
(* urls a job is given (hull-ci-server/src/proxy.rs, hull-ci-proxy/src/    *)
(* jobenv.rs), how a request's path is read and logged (server.rs,         *)
(* audit.rs), and the encoding of a credential (credentials.rs).           *)
(*                                                                         *)
(* A path and a label are sequences of symbols; an entry of the            *)
(* configuration is a record of what its separators leave.                 *)
(***************************************************************************)
EXTENDS Integers, WireNames

CONSTANTS MaxLabel  \* the longest label

Grantee == "grant"      \* the token in a job's urls
Rest(s, n) == SubSeq(s, n + 1, Len(s))

\* str::split_once at a slash.
SplitOnce(s) == SplitAt(s, Slash)

-----------------------------------------------------------------------------
\* Mutant: a label is any text.
ValidatedLabelAny(label) == label # <<>>

\* validated_label; "A" stands for what a label may not contain.
ValidatedLabel(label) ==
  /\ label # <<>> /\ Len(label) <= MaxLabel
  /\ label[1] \in Letters
  /\ ToSet(label) \subseteq Letters \cup {Dot, "_", "-"}

\* parse_base: a plain address, and a slash at its end.
ParseBase(url) ==
  IF url.scheme \in {"https", "http"} /\ url.host /\ ~url.userinfo /\ ~url.query
  THEN {[url EXCEPT !.path = IF @ = <<>> \/ Last(@) # Slash THEN Append(@, Slash) ELSE @]}
  ELSE {}

AuthSchemes == {"bearer", "basic", "header"}

\* The options of an entry: the last of each key counts, and one that is not known, or is not
\* key=value, is an error.
ReadOptions(opts) ==
  LET Given2(key) == {i \in DOMAIN opts : opts[i].key = key}
      LastOf(key, otherwise) == IF Given2(key) = {} THEN otherwise ELSE opts[CHOOSE i \in Given2(key) : \A j \in Given2(key) : j <= i].value
  IN  IF \A i \in DOMAIN opts : opts[i].key = "secret" \/ (opts[i].key = "auth" /\ opts[i].value \in AuthSchemes)
      THEN {[credential |-> LastOf("secret", "none"), auth |-> LastOf("auth", "bearer")]} ELSE {}

\* Upstream::public and Upstream::authenticated: a scheme is kept with a credential only.
UpstreamOf(e) ==
  IF e.head /\ ValidatedLabel(e.label)
  THEN {[name |-> e.label, base |-> b, credential |-> o.credential, auth |-> IF o.credential = "none" THEN "bearer" ELSE o.auth] :
          b \in ParseBase(e.base), o \in ReadOptions(e.opts)}
  ELSE {}

\* Mutant: of two entries with one label the later one counts.
FromUpstreamsLast(list) == {{list[i] : i \in {k \in DOMAIN list : \A j \in DOMAIN list : list[j].name = list[k].name => j <= k}}}

\* Allowlist::from_upstreams.
FromUpstreams(list) ==
  IF \A i, j \in DOMAIN list : list[i].name = list[j].name => i = j THEN {ToSet(list)} ELSE {}

\* parse_upstreams: the whole configuration, or nothing.
ParseUpstreams(entries) ==
  IF \E i \in DOMAIN entries : UpstreamOf(entries[i]) = {} THEN {}
  ELSE FromUpstreams([i \in DOMAIN entries |-> CHOOSE u \in UpstreamOf(entries[i]) : TRUE])

\* credential_names_for: what a job with a grant for these labels may spend.
CredentialNamesFor(allowlist, labels) == {u.credential : u \in {v \in allowlist : v.name \in labels}} \ {"none"}

-----------------------------------------------------------------------------
\* into_base: no slashes at the end.
IntoBase(s) ==
  LET kept == {i \in DOMAIN s : s[i] # Slash}
  IN  IF kept = {} THEN <<>> ELSE SubSeq(s, 1, CHOOSE i \in kept : \A j \in kept : j <= i)

\* Mutant: the label ends the url.
UpstreamUrlOpen(base, grant, label) == IntoBase(base) \o <<Slash, "j", Slash, grant, Slash, "u", Slash>> \o label

\* JobProxyEndpoint::upstream_url.
UpstreamUrl(base, grant, label) == IntoBase(base) \o <<Slash, "j", Slash, grant, Slash, "u", Slash>> \o label \o <<Slash>>

\* env_vars: the variables of the tools this module knows, each if its label is there.
EnvVars(base, grant, labels) ==
  {[var |-> v, label |-> l, url |-> UpstreamUrl(base, grant, l)] :
     <<v, l>> \in {<<"npm_config_registry", <<"a">>>>, <<"PIP_INDEX_URL", <<"b">>>>, <<"CARGO_REGISTRIES_HULL_INDEX", <<"a", "b">>>>}
                  \cap ({"npm_config_registry", "PIP_INDEX_URL", "CARGO_REGISTRIES_HULL_INDEX"} \X labels)}

\* A client joins what it asks for onto the url it was given (external): the last segment of
\* one that does not end in a slash is replaced.
ClientJoins(url, tail) ==
  LET slashes == {i \in DOMAIN url : url[i] = Slash}
  IN  SubSeq(url, 1, CHOOSE i \in slashes : \A j \in slashes : j <= i) \o tail

\* assemble, network_mode and access: a network with its endpoint or none, and the urls a job
\* gets from ProxyAccess::grant.
Assembled(c) ==
  IF c.mode = "off" THEN [network |-> "none", env |-> {}]
  ELSE [network |-> IF c.network /\ c.endpoint # {} THEN "proxy" ELSE "none",
        env |-> UNION {EnvVars(b, Grantee, c.labels) : b \in c.endpoint}]

-----------------------------------------------------------------------------
\* parse_target, of an origin-form path: the grant, the label and the tail.
ParseTarget(path) ==
  IF ~IsPrefix(<<Slash, "j", Slash>>, path) THEN {}
  ELSE UNION {IF ~IsPrefix(<<"u", Slash>>, s.after) THEN {}
              ELSE LET rest == Rest(s.after, 2)
                   IN  IF SplitOnce(rest) = {} THEN {[token |-> s.before, label |-> rest, tail |-> <<>>]}
                       ELSE {[token |-> s.before, label |-> t.before, tail |-> t.after] : t \in SplitOnce(rest)}
              : s \in SplitOnce(Rest(path, 3))}

\* Mutant: the token is looked for by its shape.
RedactPathByShape(path) ==
  IF IsPrefix(<<Slash, "j", Slash, Grantee>>, path) THEN <<Slash, "j", Slash, "redacted">> \o Rest(path, 4) ELSE path

\* redact_path: by its place, whatever the token looks like.
RedactPath(path) ==
  LET trimmed == IF path # <<>> /\ path[1] = Slash THEN Tail(path) ELSE path
      Cut(s) == IF SplitOnce(s) = {} THEN [before |-> s, after |-> <<>>] ELSE CHOOSE x \in SplitOnce(s) : TRUE
  IN  IF SplitOnce(trimmed) # {} /\ Cut(trimmed).before = <<"j">>
      THEN <<Slash, "j", Slash, "redacted", Slash>> \o Cut(Cut(trimmed).after).after ELSE path

-----------------------------------------------------------------------------
\* Mutant: the last group is not told apart by its length.
Base64Full(input) ==
  LET At(i) == IF i <= Len(input) THEN input[i] ELSE 0
      Group(k) == LET n == At(3*k + 1) * 65536 + At(3*k + 2) * 256 + At(3*k + 3)
                  IN  <<n \div 262144, (n \div 4096) % 64, (n \div 64) % 64, n % 64>>
  IN  FlattenSeq([k \in 1..(Len(input) + 2) \div 3 |-> Group(k - 1)])

\* base64: three bytes become four sextets; 64 is the padding.
Base64(input) ==
  LET At(i) == IF i <= Len(input) THEN input[i] ELSE 0
      Group(k) == LET n == At(3*k + 1) * 65536 + At(3*k + 2) * 256 + At(3*k + 3)
                      left == Len(input) - 3*k
                  IN  <<n \div 262144, (n \div 4096) % 64, IF left > 1 THEN (n \div 64) % 64 ELSE 64, IF left > 2 THEN n % 64 ELSE 64>>
  IN  FlattenSeq([k \in 1..(Len(input) + 2) \div 3 |-> Group(k - 1)])

\* What base64 stands for: the bits of the sextets, in bytes.
Unbase64(text) ==
  LET digits == SelectSeq(text, LAMBDA d : d # 64)
      bits == FlattenSeq([i \in DOMAIN digits |-> [b \in 1..6 |-> (digits[i] \div 2^(6 - b)) % 2]])
      Byte(k) == LET At(b) == bits[8*k + b] IN 128*At(1) + 64*At(2) + 32*At(3) + 16*At(4) + 8*At(5) + 4*At(6) + 2*At(7) + At(8)
  IN  [k \in 1..Len(bits) \div 8 |-> Byte(k - 1)]

-----------------------------------------------------------------------------
\* A configuration that is taken is the one that was written: every entry is in force under
\* its own label, with a credential if and only if one was named, at a base that ends in a
\* slash, and a job with a grant for some labels may spend the credentials of those only.
UpstreamsAreAsWritten(entries) ==
  \A list \in ParseUpstreams(entries) :
    /\ Cardinality(list) = Len(entries)
    /\ \A i \in DOMAIN entries : \E u \in list :
         /\ u.name = entries[i].label /\ Last(u.base.path) = Slash /\ IsPrefix(entries[i].base.path, u.base.path)
         /\ u.credential # "none" <=> \E k \in DOMAIN entries[i].opts : entries[i].opts[k].key = "secret"
         /\ CredentialNamesFor(list, {u.name}) = {u.credential} \ {"none"}

\* What a job asks for through a url it was given comes back as its own grant, the label the
\* url was made for and what it asked, whatever the endpoint ends in.
UrlsComeBack(base, label, tail) ==
  ValidatedLabel(label) =>
    LET url == ClientJoins(UpstreamUrl(base, Grantee, label), tail)
        path == Rest(url, Len(IntoBase(base)))
    IN  ParseTarget(path) = {[token |-> <<Grantee>>, label |-> label, tail |-> tail]}

\* A job is on the proxy's network only if it is given urls, and no url names a label it has
\* no grant for.
NoHalfProxy(c) ==
  LET a == Assembled(c)
  IN  /\ a.network = "proxy" => c.mode = "on" /\ c.endpoint # {} /\ (a.env = {} => c.labels \cap {<<"a">>, <<"b">>, <<"a", "b">>} = {})
      /\ \A v \in a.env : v.label \in c.labels

\* What the comment on access says: no job gets a url that it cannot reach.
UrlsAreReachable(c) == Assembled(c).env # {} => Assembled(c).network = "proxy"

\* A path that reads as a request with a grant is logged without it, a malformed grant too.
GrantIsRedacted(path) == \A t \in ParseTarget(path) : RedactPath(path) = <<Slash, "j", Slash, "redacted", Slash, "u", Slash>> \o Rest(path, Len(t.token) + 6)

\* A credential's encoding is the one its upstream decodes, padded to whole groups.
Base64IsFaithful(input) == Unbase64(Base64(input)) = input /\ Len(Base64(input)) % 4 = 0
=============================================================================
