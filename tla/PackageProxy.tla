---------------------------- MODULE PackageProxy ----------------------------
(***************************************************************************)
(* The package proxy for one job (hull-ci-proxy): its grant and the rate   *)
(* limit on it, the credentials the broker lets the proxy spend for the    *)
(* job, and requests that follow redirects from one upstream to the next.  *)
(* Requests run concurrently with each other, with the end of the job and  *)
(* with everything that Secrets lets an operator revoke.  What upstreams   *)
(* answer is a choice; URLs are the upstream they resolve to.              *)
(***************************************************************************)
EXTENDS Secrets

CONSTANTS
  Requests,         \* requests of the job
  Upstreams,        \* what a URL may point at
  Allowed, Granted, \* the allowlist, and what the job's grant covers of it
  CredentialOf,     \* the secret an upstream needs: a set of at most one name
  Cap,              \* the job's proxy capability
  PerSecond, Burst, GrantLife, MaxRedirects, MaxSlots

ASSUME ProxyAssumption == Cap \in Caps /\ Cap.family = "proxy" /\ PerSecond \in Nat /\ Burst \in Nat

VARIABLES
  grant,    \* the record of the job's grant, if it is still there
  slotOf,   \* the slot the credential registry has for the job, if any
  slots,    \* every slot that was ever put there: what it holds
  locked,   \* the requests that hold a slot's mutex
  req,      \* the requests
  ending,   \* how far release_job has come
  sent,     \* what went out: to whom, with which credential, begun too late or not
  audited   \* audit records per request

proxyVars == <<grant, slotOf, slots, locked, req, ending, sent, audited>>

Waiting == [at |-> "idle", up |-> "-", slot |-> 0, cred |-> {}, hops |-> 0, late |-> FALSE, gone |-> FALSE]

-----------------------------------------------------------------------------
RefillRewound(b, t) ==
  IF b.last = {} THEN [b EXCEPT !.last = {t}]
  ELSE LET last == CHOOSE x \in b.last : TRUE
           gained == IF t <= last THEN 0 ELSE (t - last) * PerSecond
       IN  [last |-> {t}, tokens |-> IF b.tokens + gained > Burst THEN Burst ELSE b.tokens + gained]

\* TokenBucket::refill.  A clock that went back gains nothing, and is not remembered.
Refill(b, t) ==
  IF b.last = {} THEN [b EXCEPT !.last = {t}]
  ELSE LET last == CHOOSE x \in b.last : TRUE
       IN  IF t <= last THEN b
           ELSE [last |-> {t}, tokens |->
                   IF b.tokens + (t - last) * PerSecond > Burst THEN Burst ELSE b.tokens + (t - last) * PerSecond]

\* TokenBucket::take.
Take(b, t) ==
  LET full == Refill(b, t)
  IN  [ok |-> full.tokens > 0, bucket |-> [full EXCEPT !.tokens = IF @ = 0 THEN 0 ELSE @ - 1]]

\* A bucket and the requests that asked it, each at a time the clock showed.
FullMeter == [bucket |-> [tokens |-> Burst, last |-> {}], taken |-> 0, first |-> {}, latest |-> 0]

Asks(m, t) ==
  LET got == Take(m.bucket, t)
  IN  [bucket |-> got.bucket, taken |-> IF got.ok THEN m.taken + 1 ELSE m.taken,
       first |-> IF m.first = {} THEN {t} ELSE m.first, latest |-> IF t > m.latest THEN t ELSE m.latest]

\* The handler returns, or is dropped: what it held goes with it.
Returned == [Waiting EXCEPT !.at = "done"]

Refuses(r) == /\ req' = [req EXCEPT ![r] = Returned]
              /\ audited' = [audited EXCEPT ![r] = @ + 1]

\* handle, up to forward: authorise, which may find the bucket empty, comes before the
\* method, the upstream and the job's grant are looked at.
Handle(r, up, method, token) ==
  /\ req[r].at = "idle"
  /\ IF token /\ (\E g \in grant : ~g.revoked /\ now < g.expires)
        /\ method \in {"GET", "HEAD"} /\ up \in Allowed /\ up \in Granted
     THEN req' = [req EXCEPT ![r] = [Waiting EXCEPT !.at = "inject", !.up = up]] /\ UNCHANGED audited
     ELSE Refuses(r)
  /\ UNCHANGED <<grant, slotOf, slots, locked, ending, sent>>

-----------------------------------------------------------------------------
\* inject, and the lookup in BrokeredCredentials::credential: from here on the request
\* has its own handle on the slot.
Inject(r) ==
  /\ req[r].at = "inject"
  /\ IF CredentialOf[req[r].up] = {}
     THEN req' = [req EXCEPT ![r].at = "send", ![r].cred = {}] /\ UNCHANGED audited
     ELSE IF slotOf = {} THEN Refuses(r)
     ELSE /\ req' = [req EXCEPT ![r].at = "lock", ![r].slot = CHOOSE s \in slotOf : TRUE,
                                ![r].late = Cap \in cut \/ ending = "ended"]
          /\ UNCHANGED audited
  /\ UNCHANGED <<grant, slotOf, slots, locked, ending, sent>>

\* The slot's mutex; redeem spends a pending capability, reassert asks about a held one.
LockSlot(r) ==
  /\ req[r].at = "lock" /\ \A q \in locked : req[q].slot # req[r].slot
  /\ locked' = locked \cup {r}
  /\ req' = [req EXCEPT ![r].at = IF slots[req[r].slot] = "pending" THEN "redeem" ELSE "reassert"]
  /\ UNCHANGED <<grant, slotOf, slots, ending, sent, audited>>

ProxyId == {x[3] : x \in {y \in signer : y[1] = "proxy"}}

\* The broker burns the capability under its lock, then opens the value.
RedeemSlot(r) ==
  /\ req[r].at = "redeem"
  /\ IF \E id \in ProxyId : Redeemable(Cap, id) # {}
     THEN /\ Burn(Cap)
          /\ req' = [req EXCEPT ![r].at = "fetch"] /\ UNCHANGED slots
     ELSE /\ slots' = [slots EXCEPT ![req[r].slot] = "failed"]
          /\ req' = [req EXCEPT ![r].at = "reassert"] /\ UNCHANGED caps
  /\ UNCHANGED <<grant, slotOf, locked, ending, sent, audited>>

FetchSlot(r) ==
  /\ req[r].at = "fetch"
  /\ slots' = [slots EXCEPT ![req[r].slot] =
       IF \A n \in Cap.declared : \E s \in row[n] : UnwrapDek(s) THEN "held" ELSE "failed"]
  /\ req' = [req EXCEPT ![r].at = "reassert"]
  /\ UNCHANGED <<grant, slotOf, locked, ending, sent, audited>>

StillAuthorisedOnce == TRUE

StillAuthorised == \E id \in ProxyId : Asserted(Cap, id) # {}

\* reassert, on every use, and the answer.
AnswerSlot(r) ==
  LET s == req[r].slot
      ok == slots[s] = "held" /\ StillAuthorised /\ CredentialOf[req[r].up] \subseteq Cap.declared
  IN  /\ req[r].at = "reassert"
      /\ locked' = locked \ {r}
      /\ slots' = IF slots[s] = "held" /\ ~StillAuthorised THEN [slots EXCEPT ![s] = "invalidated"] ELSE slots
      /\ IF ok THEN req' = [req EXCEPT ![r].at = "send", ![r].cred = CredentialOf[req[r].up]] /\ UNCHANGED audited
         ELSE Refuses(r)
      /\ UNCHANGED <<grant, slotOf, ending, sent>>

-----------------------------------------------------------------------------
Send(r) ==
  /\ req[r].at = "send"
  /\ sent' = sent \cup {[up |-> req[r].up, cred |-> req[r].cred, late |-> req[r].late /\ req[r].cred # {}]}
  /\ req' = [req EXCEPT ![r].at = "answer"]
  /\ UNCHANGED <<grant, slotOf, slots, locked, ending, audited>>

NextHopAsIs(r, up) == [req[r] EXCEPT !.at = "send", !.up = up, !.hops = @ + 1]

\* The next hop is a new request to the allowlist, the grant and the credentials.
NextHop(r, up) == [req[r] EXCEPT !.at = "inject", !.up = up, !.cred = {}, !.hops = @ + 1]

\* forward's loop on a redirect.
Redirected(r, up) ==
  /\ req[r].at = "answer"
  /\ IF req[r].hops >= MaxRedirects \/ up \notin Allowed \/ up \notin Granted THEN Refuses(r)
     ELSE req' = [req EXCEPT ![r] = NextHop(r, up)] /\ UNCHANGED audited
  /\ UNCHANGED <<grant, slotOf, slots, locked, ending, sent>>

\* An answer, or no answer: the body is streamed and the record of it written when the
\* stream is dropped.
Answered(r) == req[r].at = "answer" /\ Refuses(r) /\ UNCHANGED <<grant, slotOf, slots, locked, ending, sent>>

\* The client hangs up; the handler is dropped where it waits for the upstream.
HangsUp(r) ==
  /\ req[r].at = "answer"
  /\ req' = [req EXCEPT ![r] = [Returned EXCEPT !.gone = TRUE]]
  /\ UNCHANGED <<grant, slotOf, slots, locked, ending, sent, audited>>

-----------------------------------------------------------------------------
\* authorise_job and deny_job; a second call replaces the slot.
PutSlot(state) ==
  /\ ending = "no" /\ Len(slots) < MaxSlots
  /\ slots' = Append(slots, state) /\ slotOf' = {Len(slots) + 1}
  /\ UNCHANGED <<grant, locked, req, ending, sent, audited>>

\* release_job: the bearer, then what is held for it.
ReleaseGrants ==
  /\ ending = "no" /\ ending' = "grants" /\ grant' = {}
  /\ UNCHANGED <<slotOf, slots, locked, req, sent, audited>>

ReleaseSlot ==
  /\ ending = "grants" /\ ending' = "ended" /\ slotOf' = {}
  /\ UNCHANGED <<grant, slots, locked, req, sent, audited>>

\* revoke, of the grant alone, and sweep, of an expired one.
RevokeGrant ==
  /\ \E g \in grant : ~g.revoked
  /\ grant' = {[g EXCEPT !.revoked = TRUE] : g \in grant}
  /\ UNCHANGED <<slotOf, slots, locked, req, ending, sent, audited>>

SweepGrants ==
  /\ \E g \in grant : now >= g.expires
  /\ grant' = {} /\ UNCHANGED <<slotOf, slots, locked, req, ending, sent, audited>>

-----------------------------------------------------------------------------
\* The job as it was placed: a grant, a capability, no slot yet.
ProxyInit ==
  /\ grant = {[expires |-> GrantLife, revoked |-> FALSE]}
  /\ slotOf = {} /\ slots = <<>> /\ locked = {} /\ ending = "no" /\ sent = {}
  /\ req = [r \in Requests |-> Waiting] /\ audited = [r \in Requests |-> 0]

Serves(r) ==
  \/ \E up \in Upstreams, method \in {"GET", "PUT"}, token \in BOOLEAN : Handle(r, up, method, token)
  \/ Inject(r) \/ LockSlot(r) \/ FetchSlot(r) \/ AnswerSlot(r) \/ Send(r)
  \/ \E up \in Upstreams : Redirected(r, up)
  \/ Answered(r) \/ HangsUp(r)

Manages == PutSlot("pending") \/ PutSlot("noauth") \/ ReleaseGrants \/ ReleaseSlot \/ RevokeGrant \/ SweepGrants

Operates ==
  \/ \E t \in Tasks : Breaks(t)
  \/ Revoke(Cap) \/ RevokeJob(Cap.job) \/ Withdraw("proxy", Cap.holder) \/ Tick

ProxyNext ==
  \/ (Manages \/ \E r \in Requests : Serves(r)) /\ UNCHANGED brokerVars
  \/ /\ \E r \in Requests : RedeemSlot(r)
     /\ UNCHANGED <<svc, keys, made, row, signer, task, now, calls, epoch, minted, cut, opened, told>>
  \/ Operates /\ UNCHANGED proxyVars

ProxySpec(services, before, calls0) ==
  BrokerInit(services, before, calls0) /\ ProxyInit /\ [][ProxyNext]_<<brokerVars, proxyVars>>

-----------------------------------------------------------------------------
\* A hop carries the credential of the upstream it goes to or none, and goes only where
\* the job's grant reaches; and a use of the credential that began after a revocation of
\* it, or the end of the job, had returned sends nothing (inject on every hop, reassert
\* on every use).
CredentialStaysHome ==
  \A s \in sent : s.up \in Granted /\ s.cred \in {{}, CredentialOf[s.up]} /\ ~s.late

\* A request that was answered left one audit record, and one that was not left none;
\* a client that hangs up on a slow upstream leaves none either.
AuditedOnce ==
  \A r \in Requests : audited[r] = IF req[r].at = "done" /\ ~req[r].gone THEN 1 ELSE 0

\* A job is let through no more often than its burst and its rate allow for the time
\* since it first asked, whatever the clock does (TokenBucket).
RateIsKept(m) ==
  \A t \in m.first : m.taken <= Burst + PerSecond * (IF m.latest > t THEN m.latest - t ELSE 0)
=============================================================================
