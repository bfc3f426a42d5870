------------------------------ MODULE Secrets ------------------------------
(***************************************************************************)
(* The secret broker of one tenant: sealed values, the keys they are       *)
(* sealed under, the registry of signing keys, and the two families of     *)
(* single-use capabilities, a node's for a job's secrets and the package   *)
(* proxy's for its credentials (broker.rs, seal.rs, keys.rs, infisical.rs, *)
(* identity.rs, service.rs, package.rs).  Tasks call the broker            *)
(* concurrently; a step is what one lock, or one call of the store or the  *)
(* key service, covers.  A sealed value is a record of what is in it and   *)
(* which key wraps it: ciphers and signatures are external, and an open    *)
(* under another key, or a forged signature, simply fails.                 *)
(***************************************************************************)
EXTENDS Integers, Sequences, FiniteSets

CONSTANTS
  Names,             \* a tenant's secrets
  Caps,              \* capabilities that may be minted: family, job, holder, declared, outsider
  Signers,           \* key pairs of nodes and proxies
  Tasks,             \* the broker's concurrent callers
  MaxNow, Ttl, Skew, MaxCalls, MaxKeys  \* bounds on time, capability life, calls and key versions

ASSUME BrokerAssumption ==
  /\ \A c \in Caps : /\ c.family \in {"node", "proxy"} /\ c.outsider \in BOOLEAN
                     /\ c.declared \subseteq Names
  /\ MaxNow \in Nat /\ Ttl \in Nat /\ Skew \in Nat /\ MaxCalls \in Nat /\ MaxKeys \in Nat

VARIABLES
  svc,        \* which key service is in use
  keys,       \* its record of the tenant: known, the versions in order, the next number
  made,       \* keys generated so far
  row,        \* the store: at most one sealed value per name
  caps,       \* the registries: at most one record per capability
  signer,     \* the registries of public keys: family, key, id
  task,       \* what each caller is doing
  now, calls, \* the clock, and how many calls were made
  epoch,      \* completed shreds
  minted, cut, \* capabilities ever minted; those that existed when a finished revocation began
  opened,     \* what redemptions decrypted, and when
  told        \* what they delivered

brokerVars == <<svc, keys, made, row, caps, signer, task, now, calls, epoch, minted, cut, opened, told>>

Idle == [op |-> "idle", at |-> "idle", cap |-> "-", ver |-> 0, todo |-> {}, sealed |-> {}, ours |-> TRUE, late |-> FALSE]

-----------------------------------------------------------------------------
\* KeyManager, as DevKeyManager (dev) and as InfisicalKeyManager (kms).
Versions == {keys.vs[i] : i \in DOMAIN keys.vs}
CurrentVersion == IF keys.vs = <<>> THEN 0 ELSE keys.vs[Len(keys.vs)].ver

\* dev wraps under any version it has, kms under the current one.
WrapDek(ver) ==
  {k.kek : k \in {e \in Versions : e.ver = ver /\ (svc = "kms" => ver = CurrentVersion)}}

\* dev looks the version up; kms opens whatever its key ever wrapped.
UnwrapDek(s) ==
  \E k \in Versions : k.kek = s.kek /\ (svc = "dev" => k.ver = s.ver)

\* A second provision returns the version there is.
ProvisionTenant ==
  /\ keys.vs = <<>> /\ made < MaxKeys
  /\ made' = made + 1
  /\ LET ver == IF svc = "dev" THEN keys.next ELSE 1
     IN  keys' = [known |-> TRUE, vs |-> <<[ver |-> ver, kek |-> made']>>, next |-> ver + 1]

\* dev appends a key, also for a tenant that was shredded; kms makes a version of its key.
RotateKeys ==
  /\ IF svc = "dev" THEN keys.known ELSE keys.vs # <<>>
  /\ made < MaxKeys
  /\ made' = made + 1
  /\ LET kek == IF svc = "dev" THEN made' ELSE keys.vs[1].kek
     IN  keys' = [keys EXCEPT !.vs = Append(@, [ver |-> keys.next, kek |-> kek]), !.next = @ + 1]

ShredKeysLatest == keys' = [keys EXCEPT !.vs = SubSeq(@, 1, Len(@) - 1)]

\* dev keeps the next number, kms deletes the key and starts again at one.
ShredKeys == keys' = [keys EXCEPT !.vs = <<>>]

-----------------------------------------------------------------------------
\* NodeRegistry and ProxyRegistry.  A key another id has is refused; an id that
\* enrols a new key loses the old one.
Enrol(f, k, id) ==
  /\ calls < MaxCalls /\ calls' = calls + 1
  /\ \A x \in signer : x[1] = f => x[2] # k
  /\ signer' = {x \in signer : x[1] # f \/ x[3] # id} \cup {<<f, k, id>>}
  /\ UNCHANGED <<svc, keys, made, row, caps, task, now, epoch, minted, cut, opened, told>>

Withdraw(f, id) ==
  /\ calls < MaxCalls /\ calls' = calls + 1
  /\ signer' = {x \in signer : x[1] # f \/ x[3] # id}
  /\ UNCHANGED <<svc, keys, made, row, caps, task, now, epoch, minted, cut, opened, told>>

\* verify of a request that k signed at a given time: the id it speaks for, if any.
Verified(f, k, signedAt) ==
  IF now - signedAt > Skew THEN {} ELSE {x[3] : x \in {y \in signer : y[1] = f /\ y[2] = k}}

-----------------------------------------------------------------------------
Begins(t) == task[t] = Idle /\ calls < MaxCalls /\ calls' = calls + 1
Ends(t) == task' = [task EXCEPT ![t] = Idle]
Goes(t, rec) == task' = [task EXCEPT ![t] = rec]

Provision ==
  /\ calls < MaxCalls /\ calls' = calls + 1
  /\ ProvisionTenant
  /\ UNCHANGED <<svc, row, caps, signer, task, now, epoch, minted, cut, opened, told>>

\* put_secret: current_version, wrap_dek, store.put.
PutSecret(t, n) ==
  /\ Begins(t) /\ CurrentVersion # 0
  /\ Goes(t, [Idle EXCEPT !.op = "put", !.at = "seal", !.ver = CurrentVersion,
                          !.sealed = {[name |-> n, ver |-> 0, kek |-> 0, born |-> epoch, raced |-> FALSE]}])
  /\ UNCHANGED <<svc, keys, made, row, caps, signer, now, epoch, minted, cut, opened, told>>

Wrap(t) ==
  /\ task[t].at \in {"seal", "rewrap"}
  /\ LET ks == WrapDek(task[t].ver)
     IN  IF ks = {} THEN Ends(t)
         ELSE \E k \in ks, s \in task[t].sealed :
                Goes(t, [task[t] EXCEPT !.at = "store", !.sealed =
                  {[s EXCEPT !.ver = task[t].ver, !.kek = k, !.born = IF task[t].op = "put" THEN epoch ELSE @]}])
  /\ UNCHANGED <<svc, keys, made, row, caps, signer, now, calls, epoch, minted, cut, opened, told>>

\* store.put; a rotation goes on with the next record of its list.
StorePut(t) ==
  /\ task[t].at = "store"
  /\ \E s \in task[t].sealed : row' = [row EXCEPT ![s.name] = {s}]
  /\ IF task[t].op = "put" THEN Ends(t) ELSE Goes(t, [task[t] EXCEPT !.at = "next", !.sealed = {}])
  /\ UNCHANGED <<svc, keys, made, caps, signer, now, calls, epoch, minted, cut, opened, told>>

DeleteSecret(n) ==
  /\ calls < MaxCalls /\ calls' = calls + 1
  /\ row' = [row EXCEPT ![n] = {}]
  /\ UNCHANGED <<svc, keys, made, caps, signer, task, now, epoch, minted, cut, opened, told>>

-----------------------------------------------------------------------------
\* mint and mint_proxy_capability: the author's class, the tenant's keys, then the names.
Mint(t, c) ==
  /\ Begins(t) /\ c \notin minted
  /\ ~c.outsider /\ CurrentVersion # 0
  /\ minted' = minted \cup {c}
  /\ Goes(t, [Idle EXCEPT !.op = "mint", !.at = "names", !.cap = c])
  /\ UNCHANGED <<svc, keys, made, row, caps, signer, now, epoch, cut, opened, told>>

MintNames(t) ==
  /\ task[t].at = "names"
  /\ IF \E n \in task[t].cap.declared : row[n] = {} THEN Ends(t) ELSE Goes(t, [task[t] EXCEPT !.at = "insert"])
  /\ UNCHANGED <<svc, keys, made, row, caps, signer, now, calls, epoch, minted, cut, opened, told>>

\* The registry of the family loses what has expired and gains the record.
MintInsert(t) ==
  /\ task[t].at = "insert"
  /\ LET c == task[t].cap
     IN  caps' = [d \in Caps |->
           IF d = c THEN {[expires |-> now + Ttl, consumed |-> FALSE, revoked |-> FALSE]}
           ELSE IF d.family = c.family THEN {r \in caps[d] : r.expires > now} ELSE caps[d]]
  /\ Ends(t)
  /\ UNCHANGED <<svc, keys, made, row, signer, now, calls, epoch, minted, cut, opened, told>>

-----------------------------------------------------------------------------
\* The record a token names, if it may be used now by this id (reassert_proxy_capability).
Asserted(c, id) == {r \in caps[c] : ~r.revoked /\ now < r.expires /\ c.holder = id}

\* The record a redemption burns: usable, and not used before.
Redeemable(c, id) == {r \in Asserted(c, id) : ~r.consumed}

Burn(c) == caps' = [caps EXCEPT ![c] = {[r EXCEPT !.consumed = TRUE] : r \in @}]

\* redeem and redeem_proxy_capability under their lock, after verify.  A node may ask
\* for part of what its job declared, or for all by naming nothing; for more it is
\* refused, the capability burnt.  The proxy always gets all.
Redeem(t, c, k, signedAt, asked, job) ==
  /\ Begins(t)
  /\ \E id \in Verified(c.family, k, signedAt) : Redeemable(c, id) # {}
  /\ Burn(c)
  /\ LET wanted == IF c.family = "proxy" \/ asked = {} THEN c.declared ELSE asked
     IN  IF wanted \subseteq c.declared
         THEN Goes(t, [Idle EXCEPT !.op = "redeem", !.at = "next", !.cap = c, !.todo = wanted,
                                   !.ours = job = c.job, !.late = c \in cut])
         ELSE UNCHANGED task
  /\ UNCHANGED <<svc, keys, made, row, signer, now, epoch, minted, cut, opened, told>>

StoreGet(t) ==
  /\ task[t].op = "redeem" /\ task[t].at = "next" /\ task[t].todo # {}
  /\ \E n \in task[t].todo :
       IF row[n] = {} THEN Ends(t)
       ELSE Goes(t, [task[t] EXCEPT !.at = "open", !.todo = @ \ {n}, !.sealed = row[n]])
  /\ UNCHANGED <<svc, keys, made, row, caps, signer, now, calls, epoch, minted, cut, opened, told>>

OpenSealed(t) ==
  /\ task[t].at = "open"
  /\ \E s \in task[t].sealed :
       IF UnwrapDek(s)
       THEN /\ opened' = opened \cup {[born |-> s.born, raced |-> s.raced, at |-> epoch]}
            /\ Goes(t, [task[t] EXCEPT !.at = "next", !.sealed = {}])
       ELSE UNCHANGED opened /\ Ends(t)
  /\ UNCHANGED <<svc, keys, made, row, caps, signer, now, calls, epoch, minted, cut, told>>

\* SecretService::redeem and ProxyCredentialService::redeem hand nothing over for a job
\* the request was not signed for.
Deliver(t) ==
  /\ task[t].op = "redeem" /\ task[t].at = "next" /\ task[t].todo = {}
  /\ told' = IF task[t].ours
             THEN [told EXCEPT ![task[t].cap] = [times |-> @.times + 1, late |-> @.late \/ task[t].late]]
             ELSE told
  /\ Ends(t)
  /\ UNCHANGED <<svc, keys, made, row, caps, signer, now, calls, epoch, minted, cut, opened>>

-----------------------------------------------------------------------------
\* rotate_tenant: a new key, the list of the rows, and each row's key wrapped again.
RotateTenant(t) ==
  /\ Begins(t) /\ RotateKeys
  /\ Goes(t, [Idle EXCEPT !.op = "rotate", !.at = "list"])
  /\ UNCHANGED <<svc, row, caps, signer, now, epoch, minted, cut, opened, told>>

StoreList(t) ==
  /\ task[t].at = "list"
  /\ Goes(t, [task[t] EXCEPT !.at = "next", !.todo = UNION {row[n] : n \in Names}])
  /\ UNCHANGED <<svc, keys, made, row, caps, signer, now, calls, epoch, minted, cut, opened, told>>

\* rewrap's current_version: nothing to do for a row that is current already.
RewrapNext(t) ==
  /\ task[t].op = "rotate" /\ task[t].at = "next"
  /\ IF task[t].todo = {} \/ CurrentVersion = 0 THEN Ends(t)
     ELSE \E s \in task[t].todo :
            Goes(t, [task[t] EXCEPT !.todo = @ \ {s}, !.ver = CurrentVersion, !.sealed = {s},
                                    !.at = IF s.ver = CurrentVersion THEN "next" ELSE "unwrap"])
  /\ UNCHANGED <<svc, keys, made, row, caps, signer, now, calls, epoch, minted, cut, opened, told>>

RewrapUnwrap(t) ==
  /\ task[t].at = "unwrap"
  /\ IF \A s \in task[t].sealed : UnwrapDek(s) THEN Goes(t, [task[t] EXCEPT !.at = "rewrap"]) ELSE Ends(t)
  /\ UNCHANGED <<svc, keys, made, row, caps, signer, now, calls, epoch, minted, cut, opened, told>>

-----------------------------------------------------------------------------
RevokeIn(family, c, r) == [r EXCEPT !.revoked = @ \/ c.family = family]

\* revoke and revoke_proxy_capability, of one capability.
Revoke(c) ==
  /\ calls < MaxCalls /\ calls' = calls + 1
  /\ caps[c] # {}
  /\ caps' = [caps EXCEPT ![c] = {RevokeIn(c.family, c, r) : r \in @}]
  /\ cut' = cut \cup {c}
  /\ UNCHANGED <<svc, keys, made, row, signer, task, now, epoch, minted, opened, told>>

\* revoke_job_proxy_capabilities, at the end of a job.
RevokeJob(job) ==
  /\ calls < MaxCalls /\ calls' = calls + 1
  /\ caps' = [c \in Caps |-> IF c.job = job THEN {RevokeIn("proxy", c, r) : r \in caps[c]} ELSE caps[c]]
  /\ cut' = cut \cup {c \in Caps : c.job = job /\ c.family = "proxy" /\ caps[c] # {}}
  /\ UNCHANGED <<svc, keys, made, row, signer, task, now, epoch, minted, opened, told>>

\* revoke_tenant, alone or as the first half of shred_tenant: the node family.
RevokeTenant(t, op) ==
  /\ Begins(t)
  /\ caps' = [c \in Caps |-> {RevokeIn("node", c, r) : r \in caps[c]}]
  /\ Goes(t, [Idle EXCEPT !.op = op, !.at = "proxies", !.todo = {c \in Caps : caps[c] # {}}])
  /\ UNCHANGED <<svc, keys, made, row, signer, now, epoch, minted, cut, opened, told>>

RevokeProxiesNot(t) ==
  /\ task[t].at = "proxies"
  /\ cut' = cut \cup task[t].todo
  /\ IF task[t].op = "shred" THEN Goes(t, [task[t] EXCEPT !.at = "keys", !.todo = {}]) ELSE Ends(t)
  /\ UNCHANGED <<svc, keys, made, row, caps, signer, now, calls, epoch, minted, opened, told>>

\* Then, under the other lock, the proxy family.
RevokeProxies(t) ==
  /\ task[t].at = "proxies"
  /\ caps' = [c \in Caps |-> {RevokeIn("proxy", c, r) : r \in caps[c]}]
  /\ cut' = cut \cup task[t].todo
  /\ IF task[t].op = "shred" THEN Goes(t, [task[t] EXCEPT !.at = "keys", !.todo = {}]) ELSE Ends(t)
  /\ UNCHANGED <<svc, keys, made, row, signer, now, calls, epoch, minted, opened, told>>

\* keys.shred; the rotations under way are noted.  A tenant without a key is an error.
Shred(t) ==
  /\ task[t].at = "keys"
  /\ IF (svc = "kms" /\ keys.vs = <<>>) \/ ~keys.known
     THEN UNCHANGED <<keys, epoch>> /\ Ends(t)
     ELSE /\ ShredKeys
          /\ epoch' = epoch + 1
          /\ task' = [u \in Tasks |->
               IF u = t THEN Idle
               ELSE IF task[u].op = "rotate"
                    THEN [task[u] EXCEPT !.sealed = {[s EXCEPT !.raced = TRUE] : s \in @}]
                    ELSE task[u]]
  /\ UNCHANGED <<svc, made, row, caps, signer, now, calls, minted, cut, opened, told>>

\* The key service does not answer: the call fails and undoes nothing it did before.
KeyServiceFails(t) ==
  /\ svc = "kms" /\ task[t].at \in {"seal", "unwrap", "rewrap", "open", "keys"}
  /\ Ends(t)
  /\ UNCHANGED <<svc, keys, made, row, caps, signer, now, calls, epoch, minted, cut, opened, told>>

Tick ==
  /\ now < MaxNow /\ now' = now + 1
  /\ UNCHANGED <<svc, keys, made, row, caps, signer, task, calls, epoch, minted, cut, opened, told>>

-----------------------------------------------------------------------------
\* build_plane enrols the node's key and the tenant's secrets were seeded; some
\* capabilities may have been minted, and some calls made, before.
BrokerInit(services, before, made0) ==
  /\ svc \in services
  /\ made = 1 /\ keys = [known |-> TRUE, vs |-> <<[ver |-> 1, kek |-> 1]>>, next |-> 2]
  /\ row = [n \in Names |-> {[name |-> n, ver |-> 1, kek |-> 1, born |-> 0, raced |-> FALSE]}]
  /\ caps = [c \in Caps |-> {[expires |-> Ttl, consumed |-> FALSE, revoked |-> FALSE] : x \in before \cap {c}}]
  /\ task = [t \in Tasks |-> Idle] /\ minted = before /\ calls = made0
  /\ signer = {<<c.family, CHOOSE k \in Signers : TRUE, c.holder>> : c \in Caps}
  /\ now = 0 /\ epoch = 0 /\ cut = {} /\ opened = {}
  /\ told = [c \in Caps |-> [times |-> 0, late |-> FALSE]]

Breaks(t) == RevokeTenant(t, "revoke") \/ RevokeTenant(t, "shred") \/ RevokeProxies(t) \/ Shred(t)
Rotates(t) == RotateTenant(t) \/ StoreList(t) \/ RewrapNext(t) \/ RewrapUnwrap(t)
Redeems(t) == StoreGet(t) \/ OpenSealed(t) \/ Deliver(t)

BrokerNext ==
  \/ Provision \/ Tick
  \/ \E n \in Names : DeleteSecret(n)
  \/ \E c \in Caps : Revoke(c) \/ RevokeJob(c.job) \/ Withdraw(c.family, c.holder)
  \/ \E c \in Caps, k \in Signers : Enrol(c.family, k, c.holder)
  \/ \E t \in Tasks :
       \/ \E n \in Names : PutSecret(t, n)
       \/ Wrap(t) \/ StorePut(t)
       \/ \E c \in Caps : Mint(t, c)
       \/ MintNames(t) \/ MintInsert(t)
       \/ \E c, d \in Caps, k \in Signers, at \in 0..now, asked \in SUBSET Names : Redeem(t, c, k, at, asked, d.job)
       \/ Redeems(t) \/ Rotates(t) \/ Breaks(t) \/ KeyServiceFails(t)

-----------------------------------------------------------------------------
\* A capability hands its values over once at most, whoever races for it, and not at
\* all to a redemption that began after a revocation of it had returned (redeem's lock,
\* revoke_tenant, the sweep in mint).
SpentOnce ==
  \A c \in Caps : told[c].times <= (IF c.outsider THEN 0 ELSE 1) /\ ~told[c].late

\* What was sealed before a crypto-shred is not opened after it.  The exception is the
\* kms, whose versions start again at one: a rotation that the shred overtook may wrap
\* an old data key under the tenant's new one.
ShredIsFinal ==
  \A o \in opened : o.born < o.at => svc = "kms" /\ o.raced

\* A row of the present epoch can be opened, in the middle of a rotation and after any
\* part of one (rotate keeps the versions that rows still name).
StoredIsReadable ==
  \A n \in Names : \A s \in row[n] : s.born = epoch => UnwrapDek(s)
=============================================================================
