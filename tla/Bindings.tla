------------------------------ MODULE Bindings ------------------------------
(***************************************************************************)
(* What binds a sealed value, a wrapped key, a signature and a token to    *)
(* their context (hull-ci-secrets: lib.rs, seal.rs, keys.rs, infisical.rs, *)
(* identity.rs, package.rs, capability.rs; hull-ci-proxy: grant.rs).       *)
(*                                                                         *)
(* A text is a sequence of bytes, and a byte a small number, so that a     *)
(* length may look like a letter.  A length is one byte.  The cipher and   *)
(* the signature scheme are external: a box opens with its own key and     *)
(* context, and a signature verifies under its own key over its own bytes. *)
(***************************************************************************)
EXTENDS Integers, SequencesExt

CONSTANTS DekLen, IdLen, SecretLen,    \* DEK_LEN, ID_LEN and SECRET_LEN
          MaxKeyName, DigestChars      \* MAX_KEY_NAME_LEN and DIGEST_CHARS

\* The domains, each a text of its own.
DomainValue == <<1>>
DomainWrap == <<2>>
DomainNode == <<1, 1>>
DomainProxy == <<1, 2>>
DomainEnvelope == <<2, 1>>

-----------------------------------------------------------------------------
FramesOf(fields) == FlattenSeq([i \in DOMAIN fields |-> <<Len(fields[i])>> \o fields[i]])

\* Mutant: the fields are joined as they are.
AssociatedDataBare(domain, fields) == FlattenSeq(<<domain>> \o fields)

\* associated_data, and frame: every field behind its length.
AssociatedData(domain, fields) == FramesOf(<<domain>> \o fields)

\* value_aad and wrap_aad; a version is printed as one digit.
ValueAad(tenant, name) == AssociatedData(DomainValue, <<tenant, name>>)
WrapAad(tenant, name, version) == AssociatedData(DomainWrap, <<tenant, name, <<version>>>>)

\* aead_seal and aead_open; a blob without a nonce is nobody's.
Truncated == [key |-> <<>>, plain |-> <<>>, aad |-> <<>>]
AeadSeal(key, plain, aad) == [key |-> key, plain |-> plain, aad |-> aad]
AeadOpen(key, blob, aad) == IF blob.key = key /\ blob.aad = aad /\ blob # Truncated THEN {blob.plain} ELSE {}

-----------------------------------------------------------------------------
\* seal_envelope: what the key service is given to encrypt; it takes no context itself.
SealEnvelope(tenant, version, aad, dek) == FramesOf(<<DomainEnvelope, tenant, <<version>>, aad>>) \o dek

\* The closure take of open_envelope: a field and the rest, if the bytes hold one.
TakeField(bytes) ==
  IF bytes = <<>> \/ Len(bytes) - 1 < bytes[1] THEN {}
  ELSE {[field |-> SubSeq(bytes, 2, bytes[1] + 1), rest |-> SubSeq(bytes, bytes[1] + 2, Len(bytes))]}

TakeFields(bytes, n) ==
  LET take[k \in 0..n] ==
        IF k = 0 THEN {[fields |-> <<>>, rest |-> bytes]}
        ELSE UNION {{[fields |-> Append(t.fields, f.field), rest |-> f.rest] : f \in TakeField(t.rest)} : t \in take[k - 1]}
  IN  take[n]

\* Mutant: the key is handed out whatever it was wrapped for.
OpenEnvelopeUnbound(tenant, version, aad, bytes) == {t.rest : t \in {u \in TakeFields(bytes, 4) : Len(u.rest) = DekLen}}

\* open_envelope.
OpenEnvelope(tenant, version, aad, bytes) ==
  {t.rest : t \in {u \in TakeFields(bytes, 4) :
     u.fields = <<DomainEnvelope, tenant, <<version>>, aad>> /\ Len(u.rest) = DekLen}}

\* The tenant's key, by version where the process keeps it, and the same for every version
\* where the key service does.
KekOf(svc, tenant, version) == IF svc = "dev" THEN <<tenant, <<version>>>> ELSE <<tenant, <<>>>>

\* wrap_dek and unwrap_dek of DevKeyManager and of InfisicalKeyManager.
WrapUnder(svc, tenant, version, dek, aad) ==
  IF svc = "dev" THEN AeadSeal(KekOf(svc, tenant, version), dek, aad)
  ELSE AeadSeal(KekOf(svc, tenant, version), SealEnvelope(tenant, version, aad, dek), <<>>)

UnwrapUnder(svc, tenant, version, blob, aad) ==
  IF svc = "dev" THEN {d \in AeadOpen(KekOf(svc, tenant, version), blob, aad) : Len(d) = DekLen}
  ELSE UNION {OpenEnvelope(tenant, version, aad, p) : p \in AeadOpen(KekOf(svc, tenant, version), blob, <<>>)}

-----------------------------------------------------------------------------
\* Vault::seal, under the current version and a fresh key; an empty value is refused.
Seal(svc, tenant, name, version, dek, plain) ==
  IF plain = <<>> THEN {}
  ELSE {[tenant |-> tenant, name |-> name, version |-> version,
         wrapped |-> WrapUnder(svc, tenant, version, dek, WrapAad(tenant, name, version)),
         ciphertext |-> AeadSeal(dek, plain, ValueAad(tenant, name))]}

UnwrapOf(svc, tenant, name, r) == UnwrapUnder(svc, tenant, r.version, r.wrapped, WrapAad(tenant, name, r.version))

\* Vault::open, of a record as the secret the caller takes it for.
OpenAs(svc, tenant, name, r) ==
  IF r.tenant # tenant \/ r.name # name THEN {}
  ELSE UNION {AeadOpen(d, r.ciphertext, ValueAad(tenant, name)) : d \in UnwrapOf(svc, tenant, name, r)}

\* Vault::rewrap; nothing for a record that is current.
Rewrap(svc, r, current) ==
  IF r.version = current THEN {}
  ELSE {[r EXCEPT !.version = current,
                  !.wrapped = WrapUnder(svc, r.tenant, current, d, WrapAad(r.tenant, r.name, current))]
          : d \in UnwrapOf(svc, r.tenant, r.name, r)}

-----------------------------------------------------------------------------
\* signing_payload and proxy_signing_payload, of a node's and of a proxy's request.
SigningPayload(q) ==
  IF q.family = "node"
  THEN AssociatedData(DomainNode, <<q.token, q.job, q.nonce, q.issued, q.key>> \o q.requested)
  ELSE AssociatedData(DomainProxy, <<q.token, q.tenant, q.job, q.nonce, q.issued, q.key>>)

\* NodeIdentity::sign and ProxyIdentity::sign.
Signs(q) == [by |-> q.key, over |-> SigningPayload(q)]

\* verify_raw, the first step of both registries' verify: over what the request now says.
VerifyRaw(q, signature) == signature.by = q.key /\ signature.over = SigningPayload(q)

-----------------------------------------------------------------------------
\* Tokens: a family's prefix, the id in hex, a dot, the secret in hex.
CapabilityPrefix == "hcap_"
GrantPrefix == "hpkg_"
Hex == {"0", "1"}

\* CapabilityToken::mint and GrantToken::mint, of what the generator gave.
MintToken(prefix, id, secret) == <<prefix>> \o id \o <<".">> \o secret

\* parse: the id, and what the secret hashes to (here the secret).
ParseToken(prefix, token) ==
  LET dots == {i \in DOMAIN token : token[i] = "."}
      dot == CHOOSE i \in dots : \A j \in dots : i <= j
      id == SubSeq(token, 2, dot - 1)
      secret == SubSeq(token, dot + 1, Len(token))
  IN  IF /\ token # <<>> /\ token[1] = prefix /\ dots # {}
         /\ ToSet(id) \subseteq Hex /\ Len(id) = IdLen
         /\ ToSet(secret) \subseteq Hex /\ Len(secret) = SecretLen
      THEN {[id |-> id, digest |-> secret]}
      ELSE {}

-----------------------------------------------------------------------------
\* InfisicalConfig::validate of the prefix of key names.
ValidPrefix(p) ==
  /\ ToSet(p) \subseteq {"a", "0", "-"}
  /\ p # <<>> /\ p[1] # "-"
  /\ Len(p) + 1 + 4 + 1 + DigestChars <= MaxKeyName

Lower(c) == IF c = "A" THEN "a" ELSE c

\* Mutant: the room left for the slug forgets one of the dashes.
SlugBudgetLoose(p) == MaxKeyName - Len(p) - 1 - DigestChars

SlugBudget(p) == MaxKeyName - Len(p) - 1 - 1 - DigestChars

\* The loop of key_name: letters and digits, and one dash for whatever is between them.
SlugOf(p, tenant) ==
  LET slug[k \in 0..Len(tenant)] ==
        IF k = 0 THEN <<>>
        ELSE LET s == slug[k - 1]
             IN  CASE Len(s) = SlugBudget(p) -> s
                   [] tenant[k] \in {"a", "A", "0"} -> Append(s, Lower(tenant[k]))
                   [] s # <<>> /\ Last(s) # "-" -> Append(s, "-")
                   [] OTHER -> s
      all == slug[Len(tenant)]
  IN  IF all # <<>> /\ Last(all) = "-" THEN Front(all) ELSE all

\* key_name: the prefix, the slug and the first characters of the tenant's digest.
KeyName(p, tenant) ==
  LET slug == SlugOf(p, tenant)
  IN  p \o <<"-">> \o (IF slug = <<>> THEN <<"t">> ELSE slug) \o <<"-">> \o [i \in 1..DigestChars |-> "0"]

Given(env, var) == env[var] \notin {"unset", "blank"}

\* Mutant: a token is preferred to a machine identity.
ChooseAuthFirst(env) == IF Given(env, "token") THEN {"token"} ELSE IF Given(env, "id") /\ Given(env, "secret") THEN {"identity"} ELSE {}

\* The match of from_lookup: a token, or both halves of a machine identity, and not more.
ChooseAuth(env) ==
  CASE Given(env, "token") /\ ~Given(env, "id") /\ ~Given(env, "secret") -> {"token"}
    [] ~Given(env, "token") /\ Given(env, "id") /\ Given(env, "secret") -> {"identity"}
    [] OTHER -> {}

\* from_lookup: nothing, or a configuration.  A blank variable is an unset one, except
\* that a blank timeout is not a number.
FromLookup(env) ==
  IF Given(env, "url") /\ Given(env, "project") /\ env.timeout \notin {"blank", "zero"}
  THEN {[auth |-> a, timeout |-> IF env.timeout = "unset" THEN "default" ELSE env.timeout] : a \in ChooseAuth(env)}
  ELSE {}

-----------------------------------------------------------------------------
\* A signature is about the request it was made for: no other request of either family,
\* whatever moved from one of its fields to another, verifies with it (associated_data,
\* the domains of identity.rs and package.rs).
SignedIsAsSent(sent, others) == \A q \in others : VerifyRaw(q, Signs(sent)) <=> q = sent

\* A record opens as the secret it was sealed for and as no other: not relabelled, not
\* put together from the parts of two records, not under another version; and a record
\* that was wrapped again opens to what it held (value_aad, wrap_aad, open_envelope).
SealedIsBound(svc, a, b) ==
  LET Parts2(r, s) ==
        {[r EXCEPT !.version = v, !.wrapped = w, !.ciphertext = c] :
           v \in {r.version, s.version}, w \in {r.wrapped, s.wrapped, Truncated}, c \in {r.ciphertext, s.ciphertext}}
  IN  /\ OpenAs(svc, a.tenant, a.name, a) = {a.ciphertext.plain}
      /\ \A r \in Parts2(a, b) \cup Parts2([b EXCEPT !.tenant = a.tenant, !.name = a.name], a) :
           OpenAs(svc, a.tenant, a.name, r) # {} =>
             \E s \in {a, b} : /\ s.tenant = a.tenant /\ s.name = a.name
                               /\ r.version = s.version /\ r.wrapped = s.wrapped /\ r.ciphertext = s.ciphertext
      /\ \A r \in Rewrap(svc, a, a.version + 1) :
           /\ OpenAs(svc, a.tenant, a.name, r) = OpenAs(svc, a.tenant, a.name, a)
           /\ r.ciphertext = a.ciphertext
           /\ OpenAs(svc, a.tenant, a.name, [r EXCEPT !.version = a.version]) = {}

\* What parses as a token is one that could have been minted, and in one family only.
TokenIsWhole(token) ==
  \A p \in {CapabilityPrefix, GrantPrefix} : \A t \in ParseToken(p, token) :
    MintToken(p, t.id, t.digest) = token /\ \A q \in {CapabilityPrefix, GrantPrefix} \ {p} : ParseToken(q, token) = {}

\* A tenant's key has a name the key service takes, whatever its id looks like.
KeyNameIsLegal(p, tenant) ==
  ValidPrefix(p) =>
    LET name == KeyName(p, tenant)
    IN  /\ Len(name) <= MaxKeyName /\ ToSet(name) \subseteq {"a", "0", "t", "-"}
        /\ \A i \in Len(p) + 1..Len(name) - 1 : ~(name[i] = "-" /\ name[i + 1] = "-")

\* A configuration that is accepted says where the service is, waits a positive time, and
\* rests on the one credential that was given, so that no other is in use unnoticed.
OneCredential(env) ==
  \A c \in FromLookup(env) :
    /\ Given(env, "url") /\ Given(env, "project") /\ c.timeout # "zero"
    /\ {v \in {"token", "id", "secret"} : Given(env, v)} = IF c.auth = "token" THEN {"token"} ELSE {"id", "secret"}
=============================================================================
