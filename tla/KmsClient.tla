----------------------------- MODULE KmsClient -----------------------------
(***************************************************************************)
(* The client of the key service (hull-ci-secrets/src/infisical.rs), for   *)
(* one tenant: its calls are sequences of requests, each of which is lost, *)
(* refused or answered, and the id of the tenant's key is cached between   *)
(* them.  KmsCallers on two replicas share the service and not the cache.     *)
(* The service is external: one key per name, with a fresh id and version  *)
(* one when it is created.                                                 *)
(***************************************************************************)
EXTENDS Integers, FiniteSets

CONSTANTS KmsCallers,      \* threads
          ReplicaOf,    \* the process a thread runs in
          MaxKmsCalls,  \* bound: calls
          MaxKmsFaults  \* bound: requests that fail on the way there or back

VARIABLES
  kmsKey,   \* the service: the tenant's key, [id, ver], if there is one
  kmsIds,   \* ids given out so far
  keyIds,   \* the replicas' key_ids
  kmsCall,  \* what each caller is doing
  kmsDone,  \* history: how the provisions and shreds ended
  blobs,    \* history: what was wrapped
  kmsCalls, kmsFaults

kmsVars == <<kmsKey, kmsIds, keyIds, kmsCall, kmsDone, blobs, kmsCalls, kmsFaults>>

\* want: the version seal asked for; began: the key when the call began; met: what
\* happened to the key since the call's last lookup that mattered.
KmsResting == [op |-> "none", at |-> "none", got |-> {}, want |-> 0, cached |-> FALSE, began |-> {}, met |-> {}]

CurrentId == {k.id : k \in kmsKey}
NamedIds(c) == {k.id : k \in kmsCall[c].got}

KmsGoesOn(c, rec) == kmsCall' = [kmsCall EXCEPT ![c] = rec] /\ UNCHANGED kmsDone

KmsReturns(c, ok) ==
  /\ kmsCall' = [kmsCall EXCEPT ![c] = KmsResting]
  /\ kmsDone' = IF kmsCall[c].op \in {"provision", "shred"}
                THEN kmsDone \cup {[op |-> kmsCall[c].op, ok |-> ok, met |-> kmsCall[c].met, cached |-> kmsCall[c].cached,
                                    left |-> kmsCall[c].began \cap CurrentId # {}]}
                ELSE kmsDone

-----------------------------------------------------------------------------
\* A call begins: with a lookup, or with key_id, which asks the cache first.
CallsKms(c, op) ==
  /\ kmsCall[c].op = "none" /\ kmsCalls < MaxKmsCalls /\ kmsCalls' = kmsCalls + 1
  /\ LET fresh == [KmsResting EXCEPT !.op = op, !.began = CurrentId]
         cached == keyIds[ReplicaOf[c]]
     IN  KmsGoesOn(c, IF op \in {"rotate", "shred"} /\ cached # {}
                      THEN [fresh EXCEPT !.at = "use", !.got = {[id |-> i, ver |-> 0] : i \in cached}, !.cached = TRUE]
                      ELSE [fresh EXCEPT !.at = "lookup"])
  /\ UNCHANGED <<kmsKey, kmsIds, keyIds, blobs, kmsFaults>>

\* The request of lookup_key.  A key that is not there ends the call, unless the call
\* is to make one.
LookupKey(c) ==
  /\ kmsCall[c].at \in {"lookup", "reread"}
  /\ IF kmsKey # {}
     THEN KmsGoesOn(c, [kmsCall[c] EXCEPT !.at = "found", !.got = kmsKey, !.met = IF kmsCall[c].op = "wrap" THEN {} ELSE @])
     ELSE IF kmsCall[c].op = "provision" /\ kmsCall[c].at = "lookup"
     THEN KmsGoesOn(c, [kmsCall[c] EXCEPT !.at = "use"])
     ELSE KmsReturns(c, FALSE)
  /\ UNCHANGED <<kmsKey, kmsIds, keyIds, blobs, kmsCalls, kmsFaults>>

\* Mutant: wrap_dek takes any version.
WrapsVersionAny(c) == TRUE

\* wrap_dek refuses a version that is not the current one.
WrapsVersion(c) == \A k \in kmsCall[c].got : k.ver = kmsCall[c].want

\* Its answer fills the cache, and the call goes on.
FoundKey(c) ==
  /\ kmsCall[c].at = "found"
  /\ keyIds' = [keyIds EXCEPT ![ReplicaOf[c]] = NamedIds(c)]
  /\ CASE kmsCall[c].op = "seal" ->
            \E k \in kmsCall[c].got : KmsGoesOn(c, [kmsCall[c] EXCEPT !.op = "wrap", !.at = "lookup", !.want = k.ver])
       [] kmsCall[c].op = "provision" -> KmsReturns(c, TRUE)
       [] kmsCall[c].op = "wrap" /\ ~WrapsVersion(c) -> KmsReturns(c, FALSE)
       [] OTHER -> KmsGoesOn(c, [kmsCall[c] EXCEPT !.at = "use"])
  /\ UNCHANGED <<kmsKey, kmsIds, blobs, kmsCalls, kmsFaults>>

-----------------------------------------------------------------------------
\* What the service does with a request to create, rotate or delete.
ServedKey(c) ==
  CASE kmsCall[c].op = "provision" -> IF kmsKey = {} THEN {[id |-> kmsIds + 1, ver |-> 1]} ELSE kmsKey
    [] kmsCall[c].op = "rotate" -> {IF k.id \in NamedIds(c) THEN [k EXCEPT !.ver = @ + 1] ELSE k : k \in kmsKey}
    [] kmsCall[c].op = "shred" -> {k \in kmsKey : k.id \notin NamedIds(c)}
    [] OTHER -> kmsKey

Becomes(key) == kmsKey' = key /\ kmsIds' = IF kmsKey = {} /\ key # {} THEN kmsIds + 1 ELSE kmsIds

\* The calls under way, told of what became of the key.
KmsTold(key) ==
  [d \in KmsCallers |-> IF kmsCall[d].op = "none" THEN KmsResting
                     ELSE [kmsCall[d] EXCEPT !.met = @ \cup (IF key = kmsKey THEN {} ELSE IF key = {} THEN {"deleted"} ELSE {"rotated"})]]

\* wrap_dek's request: the service encrypts under the version it has by then.
Encrypts(c) ==
  /\ kmsCall[c].at = "use" /\ kmsCall[c].op = "wrap"
  /\ blobs' = blobs \cup {[says |-> kmsCall[c].want, under |-> k.ver, met |-> kmsCall[c].met] : k \in {x \in kmsKey : x.id \in NamedIds(c)}}
  /\ KmsReturns(c, TRUE)
  /\ UNCHANGED <<kmsKey, kmsIds, keyIds, kmsCalls, kmsFaults>>

\* Mutant: a name that is taken is an error.
ConflictFails(c) == KmsReturns(c, FALSE)

\* The name is taken: a provision that raced this one made the key.
Conflict(c) == KmsGoesOn(c, [kmsCall[c] EXCEPT !.at = "reread"])

\* provision_tenant's request.
Creates(c) ==
  /\ kmsCall[c].at = "use" /\ kmsCall[c].op = "provision"
  /\ Becomes(ServedKey(c))
  /\ IF kmsKey # {} THEN Conflict(c) ELSE KmsGoesOn(c, [kmsCall[c] EXCEPT !.at = "found", !.got = kmsKey'])
  /\ UNCHANGED <<keyIds, blobs, kmsCalls, kmsFaults>>

\* rotate's request; a key that is gone is an error.
RotatesKey(c) ==
  /\ kmsCall[c].at = "use" /\ kmsCall[c].op = "rotate"
  /\ Becomes(ServedKey(c))
  /\ kmsCall' = [KmsTold(ServedKey(c)) EXCEPT ![c] = KmsResting]
  /\ UNCHANGED <<keyIds, kmsDone, blobs, kmsCalls, kmsFaults>>

\* shred's request; a key that is gone already is as good as deleted.
Deletes(c) ==
  /\ kmsCall[c].at = "use" /\ kmsCall[c].op = "shred"
  /\ Becomes(ServedKey(c))
  /\ kmsCall' = [KmsTold(ServedKey(c)) EXCEPT ![c].at = "deleted"]
  /\ UNCHANGED <<keyIds, kmsDone, blobs, kmsCalls, kmsFaults>>

\* The cached id goes, however the request went.
EvictsId(c) ==
  /\ kmsCall[c].at \in {"deleted", "lost"}
  /\ keyIds' = [keyIds EXCEPT ![ReplicaOf[c]] = {}]
  /\ KmsReturns(c, kmsCall[c].at = "deleted")
  /\ UNCHANGED <<kmsKey, kmsIds, blobs, kmsCalls, kmsFaults>>

\* A request is lost on its way, or its answer is: the call fails either way.
LosesRequest(c) ==
  /\ kmsFaults < MaxKmsFaults /\ kmsFaults' = kmsFaults + 1
  /\ kmsCall[c].at \in {"lookup", "reread", "use"}
  /\ \E key \in {kmsKey} \cup (IF kmsCall[c].at = "use" THEN {ServedKey(c)} ELSE {}) :
       /\ Becomes(key)
       /\ kmsCall' = [KmsTold(key) EXCEPT ![c] = IF kmsCall[c].op = "shred" /\ kmsCall[c].at = "use" THEN [@ EXCEPT !.at = "lost"] ELSE KmsResting]
  /\ UNCHANGED <<keyIds, kmsDone, blobs, kmsCalls>>

-----------------------------------------------------------------------------
KmsInit ==
  /\ kmsKey = {[id |-> 1, ver |-> 1]} /\ kmsIds = 1 /\ keyIds = [r \in {ReplicaOf[c] : c \in KmsCallers} |-> {}]
  /\ kmsCall = [c \in KmsCallers |-> KmsResting] /\ kmsDone = {} /\ blobs = {} /\ kmsCalls = 0 /\ kmsFaults = 0

KmsNext ==
  \E c \in KmsCallers :
    \/ \E op \in {"seal", "provision", "rotate", "shred"} : CallsKms(c, op)
    \/ LookupKey(c) \/ FoundKey(c) \/ Encrypts(c) \/ Creates(c) \/ RotatesKey(c) \/ Deletes(c) \/ EvictsId(c) \/ LosesRequest(c)

KmsSpec == KmsInit /\ [][KmsNext]_kmsVars

-----------------------------------------------------------------------------
\* Whatever races it and whichever request is lost: a provision fails for want of a key
\* only if a shred took the key away meanwhile; a shred that succeeds by a key it looked
\* up leaves no key that was there when it began; and a wrapped key carries the version
\* it was wrapped under, unless a rotation came between the lookup and the request.
KmsIsHonest ==
  /\ \A d \in kmsDone : d.op = "provision" /\ ~d.ok => "deleted" \in d.met
  /\ \A d \in kmsDone : d.op = "shred" /\ d.ok /\ ~d.cached => ~d.left
  /\ \A b \in blobs : b.says = b.under \/ "rotated" \in b.met

\* What shred's answer says: the keys that were there are gone.
ShredIsDone == \A d \in kmsDone : d.op = "shred" /\ d.ok => ~d.left
=============================================================================
