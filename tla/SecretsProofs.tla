--------------------------- MODULE SecretsProofs ---------------------------
(***************************************************************************)
(* Proofs about modules Secrets and PackageProxy, for any secrets,         *)
(* capabilities, signing keys and callers, on either key service.          *)
(*                                                                         *)
(* A step of a caller is calm when it leaves the registries of             *)
(* capabilities alone and begins no mint, redemption or revocation         *)
(* (Calm): those actions cannot disturb an invariant about capabilities,   *)
(* and the argument is about the other eight.  A capability is Known once  *)
(* its record is in a registry, and keeps being so; only then can it be    *)
(* redeemed, told or revoked (CapInv, RedeemInv, ToldInv, CutInv), and a   *)
(* record that some redemption burnt is burnt for all (Spent).             *)
(*                                                                         *)
(* For sealed values the step to look at is the shred: every other one     *)
(* leaves the keys alone or adds to them (Grows), and then what is bound   *)
(* to a key of its epoch stays so (Bound) and what can be opened can still *)
(* be (Readable).  Each caller's hand is sound: what it holds is bound,    *)
(* what it has unwrapped may be wrapped again (Movable), what it is about  *)
(* to store can be read.                                                   *)
(*                                                                         *)
(* The package proxy is one caller more.  ProxyInv says what each of its   *)
(* requests holds: a credential in hand is of its own upstream and was     *)
(* redeemed once, and a request that was late for a revocation finds the   *)
(* capability cut, so that what it asks again is refused.  MeterInv is the *)
(* rate limit: what was taken fits what was full and what was refilled.    *)
(***************************************************************************)
EXTENDS PackageProxy, TLAPS

BrokerSpec(services, before, calls0) == BrokerInit(services, before, calls0) /\ [][BrokerNext]_brokerVars

-----------------------------------------------------------------------------
\* Types.  What a caller has in hand fits what it is doing.
Key == [ver : Nat, kek : Nat]
KeyList == Seq(Key)
KeyRing == [known : BOOLEAN, vs : KeyList, next : Nat]
Sealed == [name : Names, ver : Nat, kek : Nat, born : Nat, raced : BOOLEAN]
CapRecord == [expires : Nat, consumed : BOOLEAN, revoked : BOOLEAN]
Ops == {"idle", "put", "mint", "redeem", "rotate", "revoke", "shred"}
Places ==
  {"idle", "seal", "store", "names", "insert", "next", "open", "list", "unwrap", "rewrap", "proxies", "keys"}
CallRecord ==
  [op : Ops, at : Places, cap : Caps \cup {"-"}, ver : Nat, todo : SUBSET (Names \cup Sealed \cup Caps),
   sealed : SUBSET Sealed, ours : BOOLEAN, late : BOOLEAN]
Fits(a) ==
  /\ a.op = "idle" => a.at = "idle"
  /\ a.op = "put" => a.at \in {"seal", "store"}
  /\ a.op = "mint" => a.at \in {"names", "insert"} /\ a.cap \in Caps
  /\ a.op = "redeem" => a.at \in {"next", "open"} /\ a.cap \in Caps /\ a.todo \subseteq Names
  /\ a.op = "rotate" => a.at \in {"list", "next", "unwrap", "rewrap", "store"} /\ a.todo \subseteq Sealed
  /\ a.op \in {"revoke", "shred"} => a.at \in {"proxies", "keys"} /\ a.todo \subseteq Caps
Call == {a \in CallRecord : Fits(a)}

KeyTypes == keys \in KeyRing /\ made \in Nat
RowTypes == row \in [Names -> SUBSET Sealed] /\ epoch \in Nat
TaskTypes == task \in [Tasks -> Call]
CapTypes ==
  /\ caps \in [Caps -> SUBSET CapRecord] /\ minted \subseteq Caps /\ cut \subseteq Caps
  /\ told \in [Caps -> [times : Nat, late : BOOLEAN]] /\ now \in Nat
Types == KeyTypes /\ RowTypes /\ TaskTypes /\ CapTypes

-----------------------------------------------------------------------------
\* What is true of a capability.
Minting(t, c) == task[t].op = "mint" /\ task[t].cap = c
Redeeming(t, c) == task[t].op = "redeem" /\ task[t].cap = c
Known(c) == c \in minted /\ \A t \in Tasks : ~Minting(t, c)
Spent(c) == \A r \in caps[c] : r.consumed
Revoked(c) == \A r \in caps[c] : r.revoked

\* One mint per capability, and nothing comes of a capability before its record does.
MintInv ==
  /\ \A t \in Tasks, c \in Caps : Minting(t, c) => c \in minted /\ ~c.outsider
  /\ \A t, u \in Tasks, c \in Caps : Minting(t, c) /\ Minting(u, c) => t = u
CapInv == \A c \in Caps : caps[c] # {} => Known(c) /\ ~c.outsider

\* One redemption per capability: it burnt the record, and no revocation had returned.
RedeemInv ==
  /\ \A t \in Tasks, c \in Caps : Redeeming(t, c) =>
       Known(c) /\ ~c.outsider /\ Spent(c) /\ told[c].times = 0 /\ ~task[t].late
  /\ \A t, u \in Tasks, c \in Caps : Redeeming(t, c) /\ Redeeming(u, c) => t = u
ToldInv ==
  \A c \in Caps : ~told[c].late /\ (told[c].times # 0 => told[c].times = 1 /\ Known(c) /\ ~c.outsider /\ Spent(c))

\* What a finished revocation saw is revoked for good; of what a revocation under way
\* has seen the node family is.
CutInv == \A c \in cut : Known(c) /\ Revoked(c)
SweepInv ==
  \A t \in Tasks : task[t].at = "proxies" =>
    \A c \in task[t].todo : Known(c) /\ (c.family # "proxy" => Revoked(c))

SpendInv == MintInv /\ CapInv /\ RedeemInv /\ ToldInv /\ CutInv /\ SweepInv

\* A caller's step that begins no mint or redemption (Mild), and no revocation (Calm).
Mild(a, b) == b.op \in {"mint", "redeem"} => b.op = a.op /\ b.cap = a.cap /\ b.late = a.late
Calm(a, b) == Mild(a, b) /\ (b.at = "proxies" => a.at = "proxies" /\ b.todo = a.todo)

-----------------------------------------------------------------------------
LEMMA IdleFits == Idle \in Call
PROOF
  <1>1. Idle \in CallRecord
    BY DEF Idle, CallRecord, Ops, Places
  <1>2. Idle.op = "idle" /\ Idle.at = "idle"
    BY DEF Idle
  <1>3. Fits(Idle)
    BY <1>2 DEF Fits
  <1> QED
    BY <1>1, <1>3 DEF Call

LEMMA IdleIsCalm == ASSUME NEW a PROVE Calm(a, Idle)
BY DEF Calm, Mild, Idle

LEMMA GoesEffect ==
  ASSUME TaskTypes, NEW t \in Tasks, NEW b \in Call, Goes(t, b)
  PROVE  TaskTypes' /\ task'[t] = b /\ \A u \in Tasks : u # t => task'[u] = task[u]
BY DEF TaskTypes, Goes

LEMMA EndsEffect ==
  ASSUME TaskTypes, NEW t \in Tasks, Ends(t)
  PROVE  TaskTypes' /\ task'[t] = Idle /\ \A u \in Tasks : u # t => task'[u] = task[u]
BY IdleFits DEF TaskTypes, Ends

\* A tenant that has keys has a current version among them.
LEMMA CurrentIsVersion ==
  ASSUME KeyTypes
  PROVE  CurrentVersion \in Nat /\ (CurrentVersion # 0 => \E k \in Versions : k.ver = CurrentVersion)
PROOF
  <1>1. keys.vs \in Seq(Key)
    BY DEF KeyTypes, KeyRing, KeyList
  <1>2. CASE keys.vs = <<>>
    BY <1>2 DEF CurrentVersion
  <1>3. CASE keys.vs # <<>>
    <2>1. Len(keys.vs) \in DOMAIN keys.vs /\ keys.vs[Len(keys.vs)] \in Key
      BY <1>1, <1>3
    <2>2. CurrentVersion = keys.vs[Len(keys.vs)].ver
      BY <1>3 DEF CurrentVersion
    <2> QED
      BY <2>1, <2>2 DEF Versions, Key
  <1> QED
    BY <1>2, <1>3

LEMMA VersionTypes ==
  ASSUME KeyTypes
  PROVE  \A k \in Versions : k \in Key
PROOF
  <1>1. keys.vs \in Seq(Key)
    BY DEF KeyTypes, KeyRing, KeyList
  <1> QED
    BY <1>1 DEF Versions

-----------------------------------------------------------------------------
\* The calm steps of a caller: what it has in hand afterwards.
LEMMA PutSecretCalm ==
  ASSUME KeyTypes, RowTypes, TaskTypes, NEW t \in Tasks, NEW n \in Names, PutSecret(t, n)
  PROVE  \E b \in Call : Goes(t, b) /\ Calm(task[t], b)
PROOF
  <1> DEFINE s == [name |-> n, ver |-> 0, kek |-> 0, born |-> epoch, raced |-> FALSE]
             b == [Idle EXCEPT !.op = "put", !.at = "seal", !.ver = CurrentVersion, !.sealed = {s}]
  <1>1. s \in Sealed
    BY DEF Sealed, RowTypes
  <1>2. b \in CallRecord
    BY <1>1, CurrentIsVersion DEF Idle, CallRecord, Ops, Places
  <1>3. b.op = "put" /\ b.at = "seal"
    BY DEF Idle
  <1>4. Goes(t, b)
    BY DEF PutSecret
  <1> HIDE DEF b
  <1>5. b \in Call /\ Calm(task[t], b)
    BY <1>2, <1>3 DEF Call, Fits, Calm, Mild
  <1> QED
    BY <1>4, <1>5

LEMMA WrapCalm ==
  ASSUME KeyTypes, RowTypes, TaskTypes, NEW t \in Tasks, Wrap(t)
  PROVE  \E b \in Call : Goes(t, b) /\ Calm(task[t], b)
PROOF
  <1>1. CASE Ends(t)
    BY <1>1, IdleFits, IdleIsCalm DEF Ends, Goes
  <1>2. CASE ~Ends(t)
    <2> DEFINE z(s, k) == [s EXCEPT !.ver = task[t].ver, !.kek = k, !.born = IF task[t].op = "put" THEN epoch ELSE @]
               b(s, k) == [task[t] EXCEPT !.at = "store", !.sealed = {z(s, k)}]
    <2>1. PICK k \in WrapDek(task[t].ver), s \in task[t].sealed : Goes(t, b(s, k))
      BY <1>2 DEF Wrap
    <2>2. task[t] \in CallRecord /\ Fits(task[t]) /\ task[t].at \in {"seal", "rewrap"}
      BY DEF TaskTypes, Call, Wrap
    <2>3. s \in Sealed /\ task[t].ver \in Nat
      BY <2>2 DEF CallRecord
    <2>4. k \in Nat
      BY VersionTypes DEF WrapDek, Key
    <2>5. z(s, k) \in Sealed
      BY <2>3, <2>4 DEF Sealed, RowTypes
    <2> HIDE DEF z
    <2>6. b(s, k) \in CallRecord
      BY <2>2, <2>5 DEF CallRecord, Places
    <2>7. /\ b(s, k).op = task[t].op /\ b(s, k).at = "store" /\ b(s, k).cap = task[t].cap
          /\ b(s, k).late = task[t].late /\ b(s, k).todo = task[t].todo
      BY <2>2 DEF CallRecord
    <2> HIDE DEF b
    <2>8. task[t].op \in {"put", "rotate"}
      BY <2>2 DEF Fits, CallRecord, Ops
    <2>9. b(s, k) \in Call /\ Calm(task[t], b(s, k))
      BY <2>2, <2>6, <2>7, <2>8 DEF Call, Fits, Calm, Mild
    <2> QED
      BY <2>1, <2>9
  <1> QED
    BY <1>1, <1>2

LEMMA StorePutCalm ==
  ASSUME TaskTypes, NEW t \in Tasks, StorePut(t)
  PROVE  \E b \in Call : Goes(t, b) /\ Calm(task[t], b)
PROOF
  <1>1. CASE Ends(t)
    BY <1>1, IdleFits, IdleIsCalm DEF Ends, Goes
  <1>2. CASE ~Ends(t)
    <2>1. task[t] \in CallRecord /\ Fits(task[t])
      BY DEF TaskTypes, Call
    <2>2. task[t].at = "store" /\ task[t].op = "rotate"
      BY <1>2, <2>1 DEF StorePut, Fits, CallRecord, Ops
    <2> DEFINE b == [task[t] EXCEPT !.at = "next", !.sealed = {}]
    <2>4. Goes(t, b)
      BY <1>2 DEF StorePut
    <2>5. b \in CallRecord
      BY <2>1, <2>2 DEF CallRecord, Places
    <2>6. /\ b.op = task[t].op /\ b.cap = task[t].cap /\ b.late = task[t].late
          /\ b.at = "next" /\ b.todo = task[t].todo
      BY <2>1 DEF CallRecord
    <2> HIDE DEF b
    <2>7. b \in Call /\ Calm(task[t], b)
      BY <2>1, <2>2, <2>5, <2>6 DEF Call, Fits, Calm, Mild
    <2> QED
      BY <2>4, <2>7
  <1> QED
    BY <1>1, <1>2

LEMMA MintNamesCalm ==
  ASSUME TaskTypes, NEW t \in Tasks, MintNames(t)
  PROVE  \E b \in Call : Goes(t, b) /\ Calm(task[t], b)
PROOF
  <1>1. CASE Ends(t)
    BY <1>1, IdleFits, IdleIsCalm DEF Ends, Goes
  <1>2. CASE ~Ends(t)
    <2>1. task[t] \in CallRecord /\ Fits(task[t])
      BY DEF TaskTypes, Call
    <2>2. task[t].at = "names" /\ task[t].op = "mint"
      BY <1>2, <2>1 DEF MintNames, Fits, CallRecord, Ops
    <2> DEFINE b == [task[t] EXCEPT !.at = "insert"]
    <2>4. Goes(t, b)
      BY <1>2 DEF MintNames
    <2>5. b \in CallRecord
      BY <2>1, <2>2 DEF CallRecord, Places
    <2>6. /\ b.op = task[t].op /\ b.cap = task[t].cap /\ b.late = task[t].late
          /\ b.at = "insert" /\ b.todo = task[t].todo
      BY <2>1 DEF CallRecord
    <2> HIDE DEF b
    <2>7. b \in Call /\ Calm(task[t], b)
      BY <2>1, <2>2, <2>5, <2>6 DEF Call, Fits, Calm, Mild
    <2> QED
      BY <2>4, <2>7
  <1> QED
    BY <1>1, <1>2

LEMMA StoreGetCalm ==
  ASSUME RowTypes, TaskTypes, NEW t \in Tasks, StoreGet(t)
  PROVE  \E b \in Call : Goes(t, b) /\ Calm(task[t], b)
PROOF
  <1>1. CASE Ends(t)
    BY <1>1, IdleFits, IdleIsCalm DEF Ends, Goes
  <1>2. CASE ~Ends(t)
    <2>1. task[t] \in CallRecord /\ Fits(task[t])
      BY DEF TaskTypes, Call
    <2>2. task[t].op = "redeem" /\ task[t].at = "next" /\ task[t].todo \subseteq Names
      BY <1>2, <2>1 DEF StoreGet, Fits, CallRecord, Ops
    <2>3. PICK n \in task[t].todo : Goes(t, [task[t] EXCEPT !.at = "open", !.todo = @ \ {n}, !.sealed = row[n]])
      BY <1>2 DEF StoreGet
    <2> DEFINE b == [task[t] EXCEPT !.at = "open", !.todo = @ \ {n}, !.sealed = row[n]]
    <2>4. Goes(t, b)
      BY <2>3
    <2>5. b \in CallRecord
      BY <2>1, <2>2, <2>3 DEF CallRecord, Places, RowTypes
    <2>6. /\ b.op = task[t].op /\ b.cap = task[t].cap /\ b.late = task[t].late
          /\ b.at = "open" /\ b.todo = task[t].todo \ {n}
      BY <2>1, <2>3 DEF CallRecord
    <2> HIDE DEF b
    <2>7. b \in Call /\ Calm(task[t], b)
      BY <2>1, <2>2, <2>5, <2>6, <2>3 DEF Call, Fits, Calm, Mild, RowTypes
    <2> QED
      BY <2>4, <2>7
  <1> QED
    BY <1>1, <1>2

LEMMA OpenSealedCalm ==
  ASSUME TaskTypes, NEW t \in Tasks, OpenSealed(t)
  PROVE  \E b \in Call : Goes(t, b) /\ Calm(task[t], b)
PROOF
  <1>1. CASE Ends(t)
    BY <1>1, IdleFits, IdleIsCalm DEF Ends, Goes
  <1>2. CASE ~Ends(t)
    <2>1. task[t] \in CallRecord /\ Fits(task[t])
      BY DEF TaskTypes, Call
    <2>2. task[t].op = "redeem" /\ task[t].at = "open"
      BY <1>2, <2>1 DEF OpenSealed, Fits, CallRecord, Ops
    <2> DEFINE b == [task[t] EXCEPT !.at = "next", !.sealed = {}]
    <2>4. Goes(t, b)
      BY <1>2 DEF OpenSealed
    <2>5. b \in CallRecord
      BY <2>1, <2>2 DEF CallRecord, Places
    <2>6. /\ b.op = task[t].op /\ b.cap = task[t].cap /\ b.late = task[t].late
          /\ b.at = "next" /\ b.todo = task[t].todo
      BY <2>1 DEF CallRecord
    <2> HIDE DEF b
    <2>7. b \in Call /\ Calm(task[t], b)
      BY <2>1, <2>2, <2>5, <2>6 DEF Call, Fits, Calm, Mild
    <2> QED
      BY <2>4, <2>7
  <1> QED
    BY <1>1, <1>2

LEMMA StoreListCalm ==
  ASSUME RowTypes, TaskTypes, NEW t \in Tasks, StoreList(t)
  PROVE  \E b \in Call : Goes(t, b) /\ Calm(task[t], b)
PROOF
  <1>1. CASE Ends(t)
    BY <1>1, IdleFits, IdleIsCalm DEF Ends, Goes
  <1>2. CASE ~Ends(t)
    <2>1. task[t] \in CallRecord /\ Fits(task[t])
      BY DEF TaskTypes, Call
    <2>2. task[t].op = "rotate" /\ task[t].at = "list"
      BY <1>2, <2>1 DEF StoreList, Fits, CallRecord, Ops
    <2>3. PICK all \in SUBSET Sealed : Goes(t, [task[t] EXCEPT !.at = "next", !.todo = all])
      BY <1>2 DEF StoreList, RowTypes
    <2> DEFINE b == [task[t] EXCEPT !.at = "next", !.todo = all]
    <2>4. Goes(t, b)
      BY <2>3
    <2>5. b \in CallRecord
      BY <2>1, <2>2, <2>3 DEF CallRecord, Places
    <2>6. b.op = task[t].op /\ b.cap = task[t].cap /\ b.late = task[t].late /\ b.at = "next" /\ b.todo = all
      BY <2>1, <2>3 DEF CallRecord
    <2> HIDE DEF b
    <2>7. b \in Call /\ Calm(task[t], b)
      BY <2>1, <2>2, <2>5, <2>6, <2>3 DEF Call, Fits, Calm, Mild
    <2> QED
      BY <2>4, <2>7
  <1> QED
    BY <1>1, <1>2

LEMMA RewrapNextCalm ==
  ASSUME KeyTypes, TaskTypes, NEW t \in Tasks, RewrapNext(t)
  PROVE  \E b \in Call : Goes(t, b) /\ Calm(task[t], b)
PROOF
  <1>1. CASE Ends(t)
    BY <1>1, IdleFits, IdleIsCalm DEF Ends, Goes
  <1>2. CASE ~Ends(t)
    <2>1. task[t] \in CallRecord /\ Fits(task[t])
      BY DEF TaskTypes, Call
    <2>2. task[t].op = "rotate" /\ task[t].at = "next" /\ task[t].todo \subseteq Sealed
      BY <1>2, <2>1 DEF RewrapNext, Fits, CallRecord, Ops
    <2>3. PICK s \in task[t].todo :
            Goes(t, [task[t] EXCEPT !.todo = @ \ {s}, !.ver = CurrentVersion, !.sealed = {s},
                                    !.at = IF s.ver = CurrentVersion THEN "next" ELSE "unwrap"])
      BY <1>2 DEF RewrapNext
    <2> DEFINE b == [task[t] EXCEPT !.todo = @ \ {s}, !.ver = CurrentVersion, !.sealed = {s},
                                        !.at = IF s.ver = CurrentVersion THEN "next" ELSE "unwrap"]
    <2>4. Goes(t, b)
      BY <2>3
    <2>5. b \in CallRecord
      BY <2>1, <2>2, <2>3, CurrentIsVersion DEF CallRecord, Places
    <2>6. /\ b.op = task[t].op /\ b.cap = task[t].cap /\ b.late = task[t].late
          /\ b.at \in {"next", "unwrap"} /\ b.todo = task[t].todo \ {s}
      BY <2>1, <2>3 DEF CallRecord
    <2> HIDE DEF b
    <2>7. b \in Call /\ Calm(task[t], b)
      BY <2>1, <2>2, <2>5, <2>6, <2>3, CurrentIsVersion DEF Call, Fits, Calm, Mild
    <2> QED
      BY <2>4, <2>7
  <1> QED
    BY <1>1, <1>2

LEMMA RewrapUnwrapCalm ==
  ASSUME TaskTypes, NEW t \in Tasks, RewrapUnwrap(t)
  PROVE  \E b \in Call : Goes(t, b) /\ Calm(task[t], b)
PROOF
  <1>1. CASE Ends(t)
    BY <1>1, IdleFits, IdleIsCalm DEF Ends, Goes
  <1>2. CASE ~Ends(t)
    <2>1. task[t] \in CallRecord /\ Fits(task[t])
      BY DEF TaskTypes, Call
    <2>2. task[t].op = "rotate" /\ task[t].at = "unwrap"
      BY <1>2, <2>1 DEF RewrapUnwrap, Fits, CallRecord, Ops
    <2> DEFINE b == [task[t] EXCEPT !.at = "rewrap"]
    <2>4. Goes(t, b)
      BY <1>2 DEF RewrapUnwrap
    <2>5. b \in CallRecord
      BY <2>1, <2>2 DEF CallRecord, Places
    <2>6. /\ b.op = task[t].op /\ b.cap = task[t].cap /\ b.late = task[t].late
          /\ b.at = "rewrap" /\ b.todo = task[t].todo
      BY <2>1 DEF CallRecord
    <2> HIDE DEF b
    <2>7. b \in Call /\ Calm(task[t], b)
      BY <2>1, <2>2, <2>5, <2>6 DEF Call, Fits, Calm, Mild
    <2> QED
      BY <2>4, <2>7
  <1> QED
    BY <1>1, <1>2

LEMMA RotateTenantCalm ==
  ASSUME TaskTypes, NEW t \in Tasks, RotateTenant(t)
  PROVE  \E b \in Call : Goes(t, b) /\ Calm(task[t], b)
PROOF
  <1> DEFINE b == [Idle EXCEPT !.op = "rotate", !.at = "list"]
  <1>1. Goes(t, b)
    BY DEF RotateTenant
  <1>2. b \in CallRecord /\ b.op = "rotate" /\ b.at = "list" /\ b.todo = {}
    BY DEF Idle, CallRecord, Ops, Places
  <1> HIDE DEF b
  <1>3. b \in Call /\ Calm(task[t], b)
    BY <1>2 DEF Call, Fits, Calm, Mild
  <1> QED
    BY <1>1, <1>3

LEMMA ShredCalm ==
  ASSUME TaskTypes, NEW t \in Tasks, Shred(t)
  PROVE  TaskTypes' /\ \A u \in Tasks : Calm(task[u], task'[u])
PROOF
  <1>1. CASE Ends(t)
    BY <1>1, EndsEffect, IdleIsCalm DEF Calm, Mild
  <1>2. CASE ~Ends(t)
    <2> DEFINE b(u) == [task[u] EXCEPT !.sealed = {[s EXCEPT !.raced = TRUE] : s \in @}]
    <2>1. task' = [u \in Tasks |->
                     IF u = t THEN Idle ELSE IF task[u].op = "rotate" THEN b(u) ELSE task[u]]
      BY <1>2 DEF Shred
    <2>2. ASSUME NEW u \in Tasks PROVE b(u) \in Call /\ Calm(task[u], b(u))
      <3>1. task[u] \in CallRecord /\ Fits(task[u])
        BY DEF TaskTypes, Call
      <3>2. {[s EXCEPT !.raced = TRUE] : s \in task[u].sealed} \subseteq Sealed
        <4>1. task[u].sealed \subseteq Sealed
          BY <3>1 DEF CallRecord
        <4>2. \A s \in Sealed : [s EXCEPT !.raced = TRUE] \in Sealed
          BY DEF Sealed
        <4> QED
          BY <4>1, <4>2
      <3>3. b(u) \in CallRecord
        BY <3>1, <3>2 DEF CallRecord
      <3>4. /\ b(u).op = task[u].op /\ b(u).cap = task[u].cap /\ b(u).late = task[u].late
            /\ b(u).at = task[u].at /\ b(u).todo = task[u].todo
        BY <3>1 DEF CallRecord
      <3> HIDE DEF b
      <3> QED
        BY <3>1, <3>3, <3>4 DEF Call, Fits, Calm, Mild
    <2> HIDE DEF b
    <2>3. ASSUME NEW u \in Tasks PROVE task'[u] \in Call /\ Calm(task[u], task'[u])
      BY <2>1, <2>2, IdleFits, IdleIsCalm DEF TaskTypes, Calm, Mild
    <2> QED
      BY <2>1, <2>3 DEF TaskTypes
  <1> QED
    BY <1>1, <1>2

\* The actions that mean nothing to capabilities, as one kind of step.
CalmStep == UNCHANGED <<caps, minted, cut, told>> /\ TaskTypes' /\ \A u \in Tasks : Calm(task[u], task'[u])

LEMMA GoesCalmly ==
  ASSUME TaskTypes, NEW t \in Tasks, \E b \in Call : Goes(t, b) /\ Calm(task[t], b)
  PROVE  TaskTypes' /\ \A u \in Tasks : Calm(task[u], task'[u])
PROOF
  <1>1. PICK b \in Call : Goes(t, b) /\ Calm(task[t], b)
    OBVIOUS
  <1>2. TaskTypes' /\ task'[t] = b /\ \A u \in Tasks : u # t => task'[u] = task[u]
    BY <1>1, GoesEffect
  <1> QED
    BY <1>1, <1>2 DEF Calm, Mild

\* The steps that a capability notices.
CapStep(t) ==
  \/ \E c \in Caps : Mint(t, c)
  \/ MintInsert(t)
  \/ \E c, d \in Caps, k \in Signers, at \in 0..now, asked \in SUBSET Names : Redeem(t, c, k, at, asked, d.job)
  \/ Deliver(t) \/ RevokeTenant(t, "revoke") \/ RevokeTenant(t, "shred") \/ RevokeProxies(t)

LEMMA StepCases ==
  ASSUME Types, [BrokerNext]_brokerVars
  PROVE  \/ CalmStep
         \/ \E c \in Caps : Revoke(c) \/ RevokeJob(c.job)
         \/ \E t \in Tasks : CapStep(t)
PROOF
  <1> USE DEF Types
  <1>0. ASSUME UNCHANGED brokerVars PROVE CalmStep
    BY <1>0 DEF brokerVars, CalmStep, TaskTypes, Calm, Mild
  <1>1. ASSUME Provision \/ Tick PROVE CalmStep
    BY <1>1 DEF Provision, Tick, CalmStep, TaskTypes, Calm, Mild
  <1>2. ASSUME NEW n \in Names, DeleteSecret(n) PROVE CalmStep
    BY <1>2 DEF DeleteSecret, CalmStep, TaskTypes, Calm, Mild
  <1>3. ASSUME NEW c \in Caps, Withdraw(c.family, c.holder) PROVE CalmStep
    BY <1>3 DEF Withdraw, CalmStep, TaskTypes, Calm, Mild
  <1>16. ASSUME NEW c \in Caps, NEW k \in Signers, Enrol(c.family, k, c.holder) PROVE CalmStep
    BY <1>16 DEF Enrol, CalmStep, TaskTypes, Calm, Mild
  <1>4. ASSUME NEW t \in Tasks, NEW n \in Names, PutSecret(t, n) PROVE CalmStep
    BY <1>4, PutSecretCalm, GoesCalmly DEF PutSecret, CalmStep
  <1>5. ASSUME NEW t \in Tasks, Wrap(t) PROVE CalmStep
    BY <1>5, WrapCalm, GoesCalmly DEF Wrap, CalmStep
  <1>6. ASSUME NEW t \in Tasks, StorePut(t) PROVE CalmStep
    BY <1>6, StorePutCalm, GoesCalmly DEF StorePut, CalmStep
  <1>7. ASSUME NEW t \in Tasks, MintNames(t) PROVE CalmStep
    BY <1>7, MintNamesCalm, GoesCalmly DEF MintNames, CalmStep
  <1>8. ASSUME NEW t \in Tasks, StoreGet(t) PROVE CalmStep
    BY <1>8, StoreGetCalm, GoesCalmly DEF StoreGet, CalmStep
  <1>9. ASSUME NEW t \in Tasks, OpenSealed(t) PROVE CalmStep
    BY <1>9, OpenSealedCalm, GoesCalmly DEF OpenSealed, CalmStep
  <1>10. ASSUME NEW t \in Tasks, RotateTenant(t) PROVE CalmStep
    BY <1>10, RotateTenantCalm, GoesCalmly DEF RotateTenant, CalmStep
  <1>11. ASSUME NEW t \in Tasks, StoreList(t) PROVE CalmStep
    BY <1>11, StoreListCalm, GoesCalmly DEF StoreList, CalmStep
  <1>12. ASSUME NEW t \in Tasks, RewrapNext(t) PROVE CalmStep
    BY <1>12, RewrapNextCalm, GoesCalmly DEF RewrapNext, CalmStep
  <1>13. ASSUME NEW t \in Tasks, RewrapUnwrap(t) PROVE CalmStep
    BY <1>13, RewrapUnwrapCalm, GoesCalmly DEF RewrapUnwrap, CalmStep
  <1>14. ASSUME NEW t \in Tasks, Shred(t) PROVE CalmStep
    BY <1>14, ShredCalm DEF Shred, CalmStep
  <1>15. ASSUME NEW t \in Tasks, KeyServiceFails(t) PROVE CalmStep
    BY <1>15, EndsEffect, IdleIsCalm DEF KeyServiceFails, CalmStep, Calm, Mild
  <1> QED
    BY <1>0, <1>1, <1>2, <1>3, <1>4, <1>5, <1>6, <1>7, <1>8, <1>9, <1>10, <1>11, <1>12, <1>13, <1>14,
       <1>15, <1>16 DEF BrokerNext, Redeems, Rotates, Breaks, CapStep

-----------------------------------------------------------------------------
\* A record in a registry is only ever worn down: burnt, revoked or dropped.
Worn(c) ==
  \A r \in caps'[c] : \E q \in caps[c] : (q.consumed => r.consumed) /\ (q.revoked => r.revoked)

LEMMA RevokeInFacts ==
  ASSUME NEW f, NEW c, NEW r \in CapRecord
  PROVE  /\ RevokeIn(f, c, r) \in CapRecord
         /\ r.consumed => RevokeIn(f, c, r).consumed
         /\ r.revoked \/ c.family = f => RevokeIn(f, c, r).revoked
BY DEF RevokeIn, CapRecord

LEMMA BurntFacts ==
  ASSUME NEW r \in CapRecord
  PROVE  /\ [r EXCEPT !.consumed = TRUE] \in CapRecord
         /\ [r EXCEPT !.consumed = TRUE].consumed
         /\ r.revoked => [r EXCEPT !.consumed = TRUE].revoked
BY DEF CapRecord

LEMMA RevokeWears ==
  ASSUME CapTypes, NEW c \in Caps, Revoke(c)
  PROVE  CapTypes' /\ Revoked(c)' /\ \A d \in Caps : Worn(d)
PROOF
  <1>1. caps' = [caps EXCEPT ![c] = {RevokeIn(c.family, c, r) : r \in @}]
    BY DEF Revoke
  <1>2. caps[c] \subseteq CapRecord
    BY DEF CapTypes
  <1>3. caps'[c] = {RevokeIn(c.family, c, r) : r \in caps[c]} /\ \A d \in Caps : d # c => caps'[d] = caps[d]
    BY <1>1 DEF CapTypes
  <1>4. caps'[c] \subseteq CapRecord /\ Worn(c) /\ Revoked(c)'
    BY <1>2, <1>3, RevokeInFacts DEF Worn, Revoked
  <1>5. caps' \in [Caps -> SUBSET CapRecord]
    BY <1>1, <1>3, <1>4 DEF CapTypes
  <1> QED
    BY <1>3, <1>4, <1>5 DEF Worn, Revoke, CapTypes

LEMMA RevokeJobWears ==
  ASSUME CapTypes, NEW job, RevokeJob(job)
  PROVE  /\ CapTypes' /\ \A d \in Caps : Worn(d)
         /\ \A d \in Caps : d.job = job /\ d.family = "proxy" => Revoked(d)'
PROOF
  <1>1. caps' = [c \in Caps |-> IF c.job = job THEN {RevokeIn("proxy", c, r) : r \in caps[c]} ELSE caps[c]]
    BY DEF RevokeJob
  <1>2. ASSUME NEW d \in Caps
        PROVE  caps'[d] \subseteq CapRecord /\ Worn(d) /\ (d.job = job /\ d.family = "proxy" => Revoked(d)')
    <2>1. caps[d] \subseteq CapRecord
      BY DEF CapTypes
    <2>2. CASE d.job = job
      BY <1>1, <2>1, <2>2, RevokeInFacts DEF Worn, Revoked
    <2>3. CASE d.job # job
      BY <1>1, <2>1, <2>3 DEF Worn
    <2> QED
      BY <2>2, <2>3
  <1>3. caps' \in [Caps -> SUBSET CapRecord]
    BY <1>1, <1>2
  <1> QED
    BY <1>2, <1>3 DEF RevokeJob, CapTypes

\* One family of a tenant's capabilities at a time.
Cuts(f) == caps' = [c \in Caps |-> {RevokeIn(f, c, r) : r \in caps[c]}]

LEMMA FamilyWears ==
  ASSUME caps \in [Caps -> SUBSET CapRecord], NEW f, Cuts(f)
  PROVE  /\ caps' \in [Caps -> SUBSET CapRecord] /\ \A d \in Caps : Worn(d)
         /\ \A d \in Caps : d.family = f => Revoked(d)'
PROOF
  <1>1. ASSUME NEW d \in Caps
        PROVE  caps'[d] \subseteq CapRecord /\ Worn(d) /\ (d.family = f => Revoked(d)')
    <2>1. caps[d] \subseteq CapRecord /\ caps'[d] = {RevokeIn(f, d, r) : r \in caps[d]}
      BY DEF Cuts
    <2> QED
      BY <2>1, RevokeInFacts DEF Worn, Revoked
  <1> QED
    BY <1>1 DEF Cuts

LEMMA BurnWears ==
  ASSUME CapTypes, NEW c \in Caps, Burn(c)
  PROVE  caps' \in [Caps -> SUBSET CapRecord] /\ Spent(c)' /\ \A d \in Caps : Worn(d)
PROOF
  <1>1. caps' = [caps EXCEPT ![c] = {[r EXCEPT !.consumed = TRUE] : r \in @}]
    BY DEF Burn
  <1>2. caps[c] \subseteq CapRecord
    BY DEF CapTypes
  <1>3. caps'[c] = {[r EXCEPT !.consumed = TRUE] : r \in caps[c]} /\ \A d \in Caps : d # c => caps'[d] = caps[d]
    BY <1>1 DEF CapTypes
  <1>4. ASSUME NEW r \in caps'[c] PROVE \E q \in caps[c] : q \in CapRecord /\ r = [q EXCEPT !.consumed = TRUE]
    BY <1>2, <1>3
  <1>5. caps'[c] \subseteq CapRecord /\ Worn(c) /\ Spent(c)'
    <2>1. ASSUME NEW r \in caps'[c]
          PROVE  r \in CapRecord /\ r.consumed /\ \E q \in caps[c] : q.revoked => r.revoked
      <3>1. PICK q \in caps[c] : q \in CapRecord /\ r = [q EXCEPT !.consumed = TRUE]
        BY <1>4
      <3> QED
        BY <3>1, BurntFacts
    <2> QED
      BY <2>1 DEF Worn, Spent
  <1>6. caps' \in [Caps -> SUBSET CapRecord]
    BY <1>1, <1>3, <1>5 DEF CapTypes
  <1> QED
    BY <1>3, <1>5, <1>6 DEF Worn

-----------------------------------------------------------------------------
\* What a caller has in hand after the steps that a capability notices.
Others(t) == \A u \in Tasks : u # t => task'[u] = task[u]

LEMMA MintEffect ==
  ASSUME TaskTypes, NEW t \in Tasks, NEW c \in Caps, Mint(t, c)
  PROVE  /\ TaskTypes' /\ Others(t)
         /\ task'[t].op = "mint" /\ task'[t].cap = c /\ task'[t].at = "names"
PROOF
  <1> DEFINE b == [Idle EXCEPT !.op = "mint", !.at = "names", !.cap = c]
  <1>1. Goes(t, b)
    BY DEF Mint
  <1>2. b \in CallRecord /\ b.op = "mint" /\ b.cap = c /\ b.at = "names"
    BY DEF Idle, CallRecord, Ops, Places
  <1> HIDE DEF b
  <1>3. b \in Call
    BY <1>2 DEF Call, Fits
  <1> QED
    BY <1>1, <1>2, <1>3, GoesEffect DEF Others

LEMMA RedeemEffect ==
  ASSUME TaskTypes, CapTypes, NEW t \in Tasks, NEW c \in Caps, NEW k, NEW at, NEW asked, NEW job,
         Redeem(t, c, k, at, asked, job)
  PROVE  /\ TaskTypes' /\ Others(t)
         /\ \/ task'[t] = task[t]
            \/ /\ task'[t].op = "redeem" /\ task'[t].cap = c /\ task'[t].at = "next"
               /\ task'[t].late = (c \in cut)
PROOF
  <1>1. CASE UNCHANGED task
    BY <1>1 DEF TaskTypes, Others
  <1>2. CASE task' # task
    <2> DEFINE w == IF c.family = "proxy" \/ asked = {} THEN c.declared ELSE asked
               o == job = c.job
               l == c \in cut
               b == [Idle EXCEPT !.op = "redeem", !.at = "next", !.cap = c, !.todo = w, !.ours = o, !.late = l]
    <2>1. Goes(t, b) /\ w \subseteq c.declared
      BY <1>2 DEF Redeem
    <2>2. w \subseteq Names /\ o \in BOOLEAN /\ l \in BOOLEAN
      BY <2>1, BrokerAssumption
    <2> HIDE DEF w, o, l
    <2>3. b \in CallRecord
      BY <2>2 DEF Idle, CallRecord, Ops, Places
    <2>4. b.op = "redeem" /\ b.cap = c /\ b.at = "next" /\ b.late = l /\ b.todo = w
      BY DEF Idle
    <2> HIDE DEF b
    <2>5. b \in Call
      BY <2>2, <2>3, <2>4 DEF Call, Fits
    <2> QED
      BY <2>1, <2>4, <2>5, GoesEffect DEF Others, l
  <1> QED
    BY <1>1, <1>2

LEMMA RevokeTenantEffect ==
  ASSUME TaskTypes, NEW t \in Tasks, NEW o \in {"revoke", "shred"}, RevokeTenant(t, o)
  PROVE  /\ TaskTypes' /\ Others(t)
         /\ task'[t].op = o /\ task'[t].todo = {c \in Caps : caps[c] # {}}
PROOF
  <1> DEFINE z == {c \in Caps : caps[c] # {}}
             b == [Idle EXCEPT !.op = o, !.at = "proxies", !.todo = z]
  <1>1. Goes(t, b)
    BY DEF RevokeTenant
  <1>2. z \subseteq Caps
    OBVIOUS
  <1> HIDE DEF z
  <1>3. b \in CallRecord
    BY <1>2 DEF Idle, CallRecord, Ops, Places
  <1>4. b.op = o /\ b.at = "proxies" /\ b.todo = z
    BY DEF Idle
  <1> HIDE DEF b
  <1>5. b \in Call
    BY <1>2, <1>3, <1>4 DEF Call, Fits
  <1> QED
    BY <1>1, <1>4, <1>5, GoesEffect DEF Others, z

LEMMA RevokeProxiesEffect ==
  ASSUME TaskTypes, NEW t \in Tasks, RevokeProxies(t)
  PROVE  TaskTypes' /\ \A u \in Tasks : Calm(task[u], task'[u])
PROOF
  <1>1. CASE Ends(t)
    BY <1>1, EndsEffect, IdleIsCalm DEF Calm, Mild
  <1>2. CASE ~Ends(t)
    <2> DEFINE b == [task[t] EXCEPT !.at = "keys", !.todo = {}]
    <2>1. Goes(t, b) /\ task[t].op = "shred"
      BY <1>2 DEF RevokeProxies
    <2>2. task[t] \in CallRecord
      BY DEF TaskTypes, Call
    <2>3. b \in CallRecord
      BY <2>2 DEF CallRecord, Places
    <2>4. b.op = "shred" /\ b.at = "keys" /\ b.todo = {}
      BY <2>1, <2>2 DEF CallRecord
    <2> HIDE DEF b
    <2>5. b \in Call /\ Calm(task[t], b)
      BY <2>3, <2>4 DEF Call, Fits, Calm, Mild
    <2> QED
      BY <2>1, <2>5, GoesCalmly
  <1> QED
    BY <1>1, <1>2

\* What a mint puts into the registry, and what it sweeps out of it.
LEMMA InsertEffect ==
  ASSUME TaskTypes, CapTypes, NEW t \in Tasks, MintInsert(t)
  PROVE  /\ CapTypes' /\ TaskTypes' /\ Others(t) /\ task'[t] = Idle
         /\ task[t].op = "mint" /\ task[t].cap \in Caps
         /\ \A d \in Caps : d # task[t].cap => Worn(d)
PROOF
  <1>1. task[t] \in CallRecord /\ Fits(task[t]) /\ task[t].at = "insert"
    BY DEF TaskTypes, Call, MintInsert
  <1>2. task[t].op = "mint" /\ task[t].cap \in Caps
    BY <1>1 DEF Fits, CallRecord, Ops
  <1> DEFINE c == task[t].cap
             new == [expires |-> now + Ttl, consumed |-> FALSE, revoked |-> FALSE]
  <1>3. caps' = [d \in Caps |->
           IF d = c THEN {new} ELSE IF d.family = c.family THEN {r \in caps[d] : r.expires > now} ELSE caps[d]]
    BY DEF MintInsert
  <1>4. new \in CapRecord
    BY BrokerAssumption DEF CapRecord, CapTypes
  <1> HIDE DEF c, new
  <1>5. ASSUME NEW d \in Caps PROVE caps'[d] \subseteq CapRecord /\ (d # c => caps'[d] \subseteq caps[d])
    BY <1>3, <1>4 DEF CapTypes
  <1>6. caps' \in [Caps -> SUBSET CapRecord]
    BY <1>3, <1>5
  <1>7. UNCHANGED <<minted, cut, told, now>> /\ Ends(t)
    BY DEF MintInsert
  <1> QED
    BY <1>2, <1>5, <1>6, <1>7, EndsEffect DEF CapTypes, Others, Worn, c

-----------------------------------------------------------------------------
LEMMA ProvisionTypes ==
  ASSUME KeyTypes, ProvisionTenant
  PROVE  KeyTypes'
PROOF
  <1> DEFINE ver == IF svc = "dev" THEN keys.next ELSE 1
             k == [ver |-> ver, kek |-> made']
  <1>1. made' = made + 1 /\ keys' = [known |-> TRUE, vs |-> <<k>>, next |-> ver + 1]
    BY DEF ProvisionTenant
  <1>2. ver \in Nat /\ made' \in Nat
    BY <1>1 DEF KeyTypes, KeyRing
  <1> HIDE DEF ver
  <1>3. k \in Key
    BY <1>2 DEF Key
  <1> HIDE DEF k
  <1>4. <<k>> \in KeyList
    BY <1>3 DEF KeyList
  <1> QED
    BY <1>1, <1>2, <1>4 DEF KeyTypes, KeyRing

LEMMA RotateTypes ==
  ASSUME KeyTypes, RotateKeys
  PROVE  KeyTypes'
PROOF
  <1> DEFINE kek == IF svc = "dev" THEN made' ELSE keys.vs[1].kek
             k == [ver |-> keys.next, kek |-> kek]
             vs == Append(keys.vs, k)
  <1>1. made' = made + 1 /\ keys' = [keys EXCEPT !.vs = vs, !.next = @ + 1]
    BY DEF RotateKeys
  <1>2. keys.vs \in KeyList /\ keys.next \in Nat /\ keys.known \in BOOLEAN /\ made' \in Nat
    BY <1>1 DEF KeyTypes, KeyRing
  <1>3. kek \in Nat
    <2>1. CASE svc = "dev"
      BY <1>2, <2>1
    <2>2. CASE svc # "dev"
      <3>1. keys.vs # <<>>
        BY <2>2 DEF RotateKeys
      <3>2. keys.vs[1] \in Key
        BY <1>2, <3>1 DEF KeyList
      <3> QED
        BY <2>2, <3>2 DEF Key
    <2> QED
      BY <2>1, <2>2
  <1> HIDE DEF kek
  <1>4. k \in Key
    BY <1>2, <1>3 DEF Key
  <1> HIDE DEF k
  <1>5. vs \in KeyList
    BY <1>2, <1>4 DEF KeyList
  <1> HIDE DEF vs
  <1>6. keys' = [known |-> keys.known, vs |-> vs, next |-> keys.next + 1]
    BY <1>1 DEF KeyTypes, KeyRing
  <1>7. keys' \in KeyRing
    BY <1>2, <1>5, <1>6 DEF KeyRing
  <1> QED
    BY <1>2, <1>7 DEF KeyTypes

LEMMA KeyTypesStep ==
  ASSUME KeyTypes, [BrokerNext]_brokerVars
  PROVE  KeyTypes'
PROOF
  <1>1. ASSUME ProvisionTenant PROVE KeyTypes'
    BY <1>1, ProvisionTypes
  <1>2. ASSUME RotateKeys PROVE KeyTypes'
    BY <1>2, RotateTypes
  <1>3. ASSUME UNCHANGED <<keys, made>> PROVE KeyTypes'
    BY <1>3 DEF KeyTypes
  <1>4. ASSUME ShredKeys, UNCHANGED made PROVE KeyTypes'
    <2>1. <<>> \in KeyList
      BY DEF KeyList
    <2> QED
      BY <1>4, <2>1 DEF ShredKeys, KeyTypes, KeyRing
  <1>5. ASSUME NEW t \in Tasks, Shred(t) PROVE KeyTypes'
    BY <1>3, <1>4, <1>5 DEF Shred
  <1>6. ASSUME NEW c \in Caps, Revoke(c) \/ RevokeJob(c.job) \/ Withdraw(c.family, c.holder)
        PROVE  UNCHANGED <<keys, made>>
    BY <1>6 DEF Revoke, RevokeJob, Withdraw
  <1>7. ASSUME NEW c \in Caps, NEW k \in Signers, Enrol(c.family, k, c.holder) PROVE UNCHANGED <<keys, made>>
    BY <1>7 DEF Enrol
  <1>8. ASSUME NEW t \in Tasks, NEW n \in Names, PutSecret(t, n) \/ DeleteSecret(n) PROVE UNCHANGED <<keys, made>>
    BY <1>8 DEF PutSecret, DeleteSecret
  <1>9. ASSUME NEW t \in Tasks, CapStep(t) PROVE UNCHANGED <<keys, made>>
    BY <1>9 DEF CapStep, Mint, MintInsert, Redeem, Deliver, RevokeTenant, RevokeProxies
  <1>10. ASSUME NEW t \in Tasks, Wrap(t) \/ StorePut(t) \/ MintNames(t) \/ StoreGet(t) \/ OpenSealed(t) \/
               StoreList(t) \/ RewrapNext(t) \/ RewrapUnwrap(t) \/ KeyServiceFails(t)
         PROVE  UNCHANGED <<keys, made>>
    BY <1>10 DEF Wrap, StorePut, MintNames, StoreGet, OpenSealed, StoreList, RewrapNext, RewrapUnwrap,
       KeyServiceFails
  <1>11. ASSUME NEW n \in Names, DeleteSecret(n) PROVE UNCHANGED <<keys, made>>
    BY <1>11 DEF DeleteSecret
  <1> QED
    BY <1>1, <1>2, <1>3, <1>5, <1>6, <1>7, <1>8, <1>9, <1>10, <1>11 DEF BrokerNext, brokerVars, Redeems, Rotates,
       Breaks, CapStep, Provision, Tick, RotateTenant

LEMMA StorePutTypes ==
  ASSUME RowTypes, TaskTypes, NEW t \in Tasks, StorePut(t)
  PROVE  RowTypes'
PROOF
  <1>1. PICK s \in task[t].sealed : row' = [row EXCEPT ![s.name] = {s}]
    BY DEF StorePut
  <1>2. s \in Sealed
    BY DEF TaskTypes, Call, CallRecord
  <1> QED
    BY <1>1, <1>2 DEF StorePut, RowTypes

LEMMA RowTypesStep ==
  ASSUME RowTypes, TaskTypes, [BrokerNext]_brokerVars
  PROVE  RowTypes'
PROOF
  <1>1. ASSUME UNCHANGED <<row, epoch>> PROVE RowTypes'
    BY <1>1 DEF RowTypes
  <1>2. ASSUME NEW n \in Names, DeleteSecret(n) PROVE RowTypes'
    BY <1>2 DEF DeleteSecret, RowTypes
  <1>3. ASSUME NEW t \in Tasks, Shred(t) PROVE RowTypes'
    BY <1>3 DEF Shred, RowTypes
  <1>4. ASSUME NEW t \in Tasks, StorePut(t) PROVE RowTypes'
    BY <1>4, StorePutTypes
  <1>5. ASSUME NEW c \in Caps, Revoke(c) \/ RevokeJob(c.job) \/ Withdraw(c.family, c.holder)
        PROVE  UNCHANGED <<row, epoch>>
    BY <1>5 DEF Revoke, RevokeJob, Withdraw
  <1>6. ASSUME NEW c \in Caps, NEW k \in Signers, Enrol(c.family, k, c.holder) PROVE UNCHANGED <<row, epoch>>
    BY <1>6 DEF Enrol
  <1>7. ASSUME NEW t \in Tasks, NEW n \in Names, PutSecret(t, n) PROVE UNCHANGED <<row, epoch>>
    BY <1>7 DEF PutSecret
  <1>8. ASSUME NEW t \in Tasks, CapStep(t) PROVE UNCHANGED <<row, epoch>>
    BY <1>8 DEF CapStep, Mint, MintInsert, Redeem, Deliver, RevokeTenant, RevokeProxies
  <1>9. ASSUME NEW t \in Tasks, Wrap(t) \/ RotateTenant(t) \/ MintNames(t) \/ StoreGet(t) \/ OpenSealed(t) \/
               StoreList(t) \/ RewrapNext(t) \/ RewrapUnwrap(t) \/ KeyServiceFails(t)
        PROVE  UNCHANGED <<row, epoch>>
    BY <1>9 DEF Wrap, RotateTenant, MintNames, StoreGet, OpenSealed, StoreList, RewrapNext, RewrapUnwrap,
       KeyServiceFails
  <1> QED
    BY <1>1, <1>2, <1>3, <1>4, <1>5, <1>6, <1>7, <1>8, <1>9 DEF BrokerNext, brokerVars, Redeems, Rotates,
       Breaks, CapStep, Provision, Tick

LEMMA DeliverEffect ==
  ASSUME TaskTypes, CapTypes, NEW t \in Tasks, Deliver(t)
  PROVE  /\ CapTypes' /\ TaskTypes' /\ Others(t) /\ task'[t] = Idle
         /\ task[t].op = "redeem" /\ task[t].cap \in Caps
         /\ \A d \in Caps : d # task[t].cap => told'[d] = told[d]
         /\ \/ told'[task[t].cap] = told[task[t].cap]
            \/ /\ told'[task[t].cap].times = told[task[t].cap].times + 1
               /\ told'[task[t].cap].late = (told[task[t].cap].late \/ task[t].late)
PROOF
  <1>1. task[t] \in CallRecord /\ Fits(task[t]) /\ task[t].op = "redeem"
    BY DEF TaskTypes, Call, Deliver
  <1>2. task[t].cap \in Caps /\ task[t].late \in BOOLEAN
    BY <1>1 DEF Fits, CallRecord
  <1> DEFINE c == task[t].cap
             n == told[c].times + 1
             l == told[c].late \/ task[t].late
  <1>3. told' = told \/ told' = [told EXCEPT ![c] = [times |-> n, late |-> l]]
    BY DEF Deliver
  <1>4. n \in Nat /\ l \in BOOLEAN
    BY <1>2 DEF CapTypes
  <1>5. told \in [Caps -> [times : Nat, late : BOOLEAN]] /\ c \in Caps
    BY <1>2 DEF CapTypes
  <1>6. UNCHANGED <<caps, minted, cut, now>> /\ Ends(t)
    BY DEF Deliver
  <1> HIDE DEF c, n, l
  <1>7. /\ told' \in [Caps -> [times : Nat, late : BOOLEAN]]
        /\ \A d \in Caps : d # c => told'[d] = told[d]
        /\ told'[c] = told[c] \/ (told'[c].times = n /\ told'[c].late = l)
    BY <1>3, <1>4, <1>5
  <1> QED
    BY <1>1, <1>2, <1>6, <1>7, EndsEffect DEF CapTypes, Others, c, n, l

LEMMA CapTypesStep ==
  ASSUME TaskTypes, CapTypes, [BrokerNext]_brokerVars
  PROVE  CapTypes'
PROOF
  <1>1. ASSUME UNCHANGED <<caps, minted, cut, told, now>> PROVE CapTypes'
    BY <1>1 DEF CapTypes
  <1>2. ASSUME Tick PROVE CapTypes'
    BY <1>2 DEF Tick, CapTypes
  <1>3. ASSUME NEW c \in Caps, Revoke(c) PROVE CapTypes'
    BY <1>3, RevokeWears
  <1>4. ASSUME NEW c \in Caps, RevokeJob(c.job) PROVE CapTypes'
    BY <1>4, RevokeJobWears
  <1>5. ASSUME NEW t \in Tasks, NEW c \in Caps, Mint(t, c) PROVE CapTypes'
    BY <1>5 DEF Mint, CapTypes
  <1>6. ASSUME NEW t \in Tasks, MintInsert(t) PROVE CapTypes'
    BY <1>6, InsertEffect
  <1>7. ASSUME NEW t \in Tasks, Deliver(t) PROVE CapTypes'
    BY <1>7, DeliverEffect
  <1>8. ASSUME NEW t \in Tasks, NEW c \in Caps, NEW k, NEW at, NEW asked, NEW job, Redeem(t, c, k, at, asked, job)
        PROVE  CapTypes'
    <2>1. Burn(c) /\ UNCHANGED <<minted, cut, told, now>>
      BY <1>8 DEF Redeem
    <2> QED
      BY <2>1, BurnWears DEF CapTypes
  <1>9. ASSUME NEW t \in Tasks, NEW o \in {"revoke", "shred"}, RevokeTenant(t, o) PROVE CapTypes'
    <2>1. /\ UNCHANGED <<minted, cut, told, now>>
          /\ Cuts("node")
      BY <1>9 DEF RevokeTenant, Cuts
    <2> QED
      BY <2>1, FamilyWears DEF CapTypes
  <1>10. ASSUME NEW t \in Tasks, RevokeProxies(t) PROVE CapTypes'
    <2>1. /\ UNCHANGED <<minted, told, now>> /\ cut' = cut \cup task[t].todo
          /\ Cuts("proxy")
      BY <1>10 DEF RevokeProxies, Cuts
    <2>2. task[t] \in CallRecord /\ Fits(task[t]) /\ task[t].at = "proxies"
      BY <1>10 DEF TaskTypes, Call, RevokeProxies
    <2>3. task[t].todo \subseteq Caps
      BY <2>2 DEF Fits, CallRecord, Ops
    <2> QED
      BY <2>1, <2>3, FamilyWears DEF CapTypes
  <1>11. ASSUME NEW c \in Caps, Withdraw(c.family, c.holder) PROVE UNCHANGED <<caps, minted, cut, told, now>>
    BY <1>11 DEF Withdraw
  <1>12. ASSUME NEW c \in Caps, NEW k \in Signers, Enrol(c.family, k, c.holder)
         PROVE  UNCHANGED <<caps, minted, cut, told, now>>
    BY <1>12 DEF Enrol
  <1>13. ASSUME NEW n \in Names, DeleteSecret(n) PROVE UNCHANGED <<caps, minted, cut, told, now>>
    BY <1>13 DEF DeleteSecret
  <1>14. ASSUME NEW t \in Tasks, NEW n \in Names, PutSecret(t, n) PROVE UNCHANGED <<caps, minted, cut, told, now>>
    BY <1>14 DEF PutSecret
  <1>15. ASSUME NEW t \in Tasks, Wrap(t) \/ StorePut(t) \/ RotateTenant(t) \/ MintNames(t) \/ StoreGet(t) \/
               OpenSealed(t) \/ StoreList(t) \/ RewrapNext(t) \/ RewrapUnwrap(t) \/ Shred(t) \/ KeyServiceFails(t)
         PROVE  UNCHANGED <<caps, minted, cut, told, now>>
    BY <1>15 DEF Wrap, StorePut, RotateTenant, MintNames, StoreGet, OpenSealed, StoreList, RewrapNext,
       RewrapUnwrap, Shred, KeyServiceFails
  <1>16. ASSUME Provision PROVE UNCHANGED <<caps, minted, cut, told, now>>
    BY <1>16 DEF Provision
  <1> QED
    BY <1>1, <1>2, <1>3, <1>4, <1>5, <1>6, <1>7, <1>8, <1>9, <1>10, <1>11, <1>12, <1>13, <1>14, <1>15, <1>16
    DEF BrokerNext, brokerVars, Redeems, Rotates, Breaks

LEMMA TypesStep == Types /\ [BrokerNext]_brokerVars => Types'
PROOF
  <1> SUFFICES ASSUME Types, [BrokerNext]_brokerVars PROVE Types'
    OBVIOUS
  <1>1. KeyTypes' /\ RowTypes' /\ CapTypes'
    BY KeyTypesStep, RowTypesStep, CapTypesStep DEF Types
  <1>2. ASSUME CalmStep PROVE TaskTypes'
    BY <1>2 DEF CalmStep
  <1>3. ASSUME NEW c \in Caps, Revoke(c) \/ RevokeJob(c.job) PROVE TaskTypes'
    BY <1>3 DEF Revoke, RevokeJob, Types, TaskTypes
  <1>4. ASSUME NEW t \in Tasks, CapStep(t) PROVE TaskTypes'
    BY <1>4, MintEffect, InsertEffect, RedeemEffect, DeliverEffect, RevokeTenantEffect, RevokeProxiesEffect
    DEF Types, CapStep
  <1> QED
    BY <1>1, <1>2, <1>3, <1>4, StepCases DEF Types

-----------------------------------------------------------------------------
\* What wearing down the records, and mild steps of the callers, cannot disturb.
MildStep == UNCHANGED minted /\ \A u \in Tasks : Mild(task[u], task'[u])
WearStep == \A c \in Caps : Worn(c)

LEMMA WornFacts ==
  ASSUME NEW c, Worn(c)
  PROVE  /\ caps'[c] # {} => caps[c] # {}
         /\ Spent(c) => Spent(c)'
         /\ Revoked(c) => Revoked(c)'
BY DEF Worn, Spent, Revoked

LEMMA MildFacts ==
  ASSUME MildStep, NEW u \in Tasks, NEW c
  PROVE  /\ Minting(u, c)' => Minting(u, c)
         /\ Redeeming(u, c)' => Redeeming(u, c) /\ task'[u].late = task[u].late
BY DEF MildStep, Mild, Minting, Redeeming

LEMMA KnownStays ==
  ASSUME MildStep, NEW c, Known(c)
  PROVE  Known(c)'
BY MildFacts DEF Known, MildStep

LEMMA WearKeeps ==
  ASSUME MintInv, CapInv, RedeemInv, ToldInv, MildStep, WearStep, UNCHANGED told
  PROVE  MintInv' /\ CapInv' /\ RedeemInv' /\ ToldInv'
PROOF
  <1>1. MintInv'
    BY MildFacts DEF MintInv, MildStep
  <1>2. CapInv'
    BY WornFacts, KnownStays DEF CapInv, WearStep
  <1>3. RedeemInv'
    <2>1. ASSUME NEW t \in Tasks, NEW c \in Caps, Redeeming(t, c)'
          PROVE  Known(c)' /\ ~c.outsider /\ Spent(c)' /\ told'[c].times = 0 /\ ~task'[t].late
      BY <2>1, MildFacts, WornFacts, KnownStays DEF RedeemInv, WearStep
    <2>2. ASSUME NEW t \in Tasks, NEW u \in Tasks, NEW c \in Caps, Redeeming(t, c)', Redeeming(u, c)'
          PROVE  t = u
      BY <2>2, MildFacts DEF RedeemInv
    <2> QED
      BY <2>1, <2>2 DEF RedeemInv
  <1>4. ToldInv'
    BY WornFacts, KnownStays DEF ToldInv, WearStep
  <1> QED
    BY <1>1, <1>2, <1>3, <1>4

LEMMA CutStays ==
  ASSUME MildStep, WearStep, cut \subseteq Caps, CutInv
  PROVE  \A c \in cut : Known(c)' /\ Revoked(c)'
BY WornFacts, KnownStays DEF WearStep, CutInv

LEMMA SweepStays ==
  ASSUME TaskTypes, MildStep, WearStep, SweepInv, NEW t \in Tasks, task[t].at = "proxies"
  PROVE  \A c \in task[t].todo : Known(c)' /\ (c.family # "proxy" => Revoked(c)')
PROOF
  <1>1. task[t] \in CallRecord /\ Fits(task[t])
    BY DEF TaskTypes, Call
  <1>2. task[t].todo \subseteq Caps
    BY <1>1 DEF Fits, CallRecord, Ops
  <1> QED
    BY <1>2, WornFacts, KnownStays DEF WearStep, SweepInv

LEMMA CalmIsMild ==
  ASSUME UNCHANGED minted, \A u \in Tasks : Calm(task[u], task'[u])
  PROVE  MildStep
BY DEF MildStep, Calm

LEMMA CalmKeepsSweeps ==
  ASSUME TaskTypes, UNCHANGED minted, WearStep, SweepInv, \A u \in Tasks : Calm(task[u], task'[u])
  PROVE  SweepInv'
BY CalmIsMild, SweepStays DEF SweepInv, Calm

-----------------------------------------------------------------------------
LEMMA CalmSpend ==
  ASSUME Types, SpendInv, CalmStep
  PROVE  SpendInv'
PROOF
  <1>1. WearStep /\ UNCHANGED <<minted, cut, told>> /\ \A u \in Tasks : Calm(task[u], task'[u])
    BY DEF CalmStep, WearStep, Worn
  <1>2. MildStep
    BY <1>1, CalmIsMild
  <1>3. MintInv' /\ CapInv' /\ RedeemInv' /\ ToldInv'
    BY <1>1, <1>2, WearKeeps DEF SpendInv
  <1>4. CutInv'
    BY <1>1, <1>2, CutStays DEF SpendInv, Types, CapTypes, CutInv
  <1>5. SweepInv'
    BY <1>1, CalmKeepsSweeps DEF SpendInv, Types
  <1> QED
    BY <1>3, <1>4, <1>5 DEF SpendInv

\* The three ways to revoke: what joins cut is known and revoked.
LEMMA RevokeSpend ==
  ASSUME Types, SpendInv, WearStep, UNCHANGED <<minted, told>>, \A u \in Tasks : Calm(task[u], task'[u]),
         \A c \in cut' \ cut : Known(c) /\ Revoked(c)'
  PROVE  SpendInv'
PROOF
  <1>2. MildStep
    BY CalmIsMild
  <1>3. MintInv' /\ CapInv' /\ RedeemInv' /\ ToldInv'
    BY <1>2, WearKeeps DEF SpendInv
  <1>4. CutInv'
    BY <1>2, CutStays, KnownStays DEF SpendInv, Types, CapTypes, CutInv
  <1>5. SweepInv'
    BY CalmKeepsSweeps DEF SpendInv, Types
  <1> QED
    BY <1>3, <1>4, <1>5 DEF SpendInv

LEMMA RevokeOneSpend ==
  ASSUME Types, SpendInv, NEW c \in Caps, Revoke(c)
  PROVE  SpendInv'
PROOF
  <1>1. CapTypes' /\ Revoked(c)' /\ WearStep
    BY RevokeWears DEF Types, WearStep
  <1>2. UNCHANGED <<minted, told, task>> /\ cut' = cut \cup {c} /\ caps[c] # {}
    BY DEF Revoke
  <1>3. \A u \in Tasks : Calm(task[u], task'[u])
    BY <1>2 DEF Calm, Mild
  <1>4. Known(c)
    BY <1>2 DEF SpendInv, CapInv
  <1> QED
    BY <1>1, <1>2, <1>3, <1>4, RevokeSpend

LEMMA RevokeJobSpend ==
  ASSUME Types, SpendInv, NEW job, RevokeJob(job)
  PROVE  SpendInv'
PROOF
  <1>1. WearStep /\ \A d \in Caps : d.job = job /\ d.family = "proxy" => Revoked(d)'
    BY RevokeJobWears DEF Types, WearStep
  <1>2. /\ UNCHANGED <<minted, told, task>>
        /\ cut' = cut \cup {d \in Caps : d.job = job /\ d.family = "proxy" /\ caps[d] # {}}
    BY DEF RevokeJob
  <1>3. \A u \in Tasks : Calm(task[u], task'[u])
    BY <1>2 DEF Calm, Mild
  <1>4. \A d \in Caps : caps[d] # {} => Known(d)
    BY DEF SpendInv, CapInv
  <1> QED
    BY <1>1, <1>2, <1>3, <1>4, RevokeSpend

LEMMA RevokeProxiesSpend ==
  ASSUME Types, SpendInv, NEW t \in Tasks, RevokeProxies(t)
  PROVE  SpendInv'
PROOF
  <1>1. UNCHANGED <<minted, told>> /\ cut' = cut \cup task[t].todo /\ Cuts("proxy") /\ task[t].at = "proxies"
    BY DEF RevokeProxies, Cuts
  <1>2. WearStep /\ \A d \in Caps : d.family = "proxy" => Revoked(d)'
    BY <1>1, FamilyWears DEF Types, CapTypes, WearStep
  <1>3. \A u \in Tasks : Calm(task[u], task'[u])
    BY RevokeProxiesEffect DEF Types
  <1>4. task[t] \in CallRecord /\ Fits(task[t])
    BY DEF Types, TaskTypes, Call
  <1>5. task[t].todo \subseteq Caps
    BY <1>1, <1>4 DEF Fits, CallRecord, Ops
  <1>6. \A c \in task[t].todo : Known(c) /\ Revoked(c)'
    BY <1>1, <1>2, <1>5, WornFacts DEF SpendInv, SweepInv, WearStep
  <1> QED
    BY <1>1, <1>2, <1>3, <1>6, RevokeSpend

LEMMA RevokeTenantSpend ==
  ASSUME Types, SpendInv, NEW t \in Tasks, NEW o \in {"revoke", "shred"}, RevokeTenant(t, o)
  PROVE  SpendInv'
PROOF
  <1>1. UNCHANGED <<minted, told, cut>> /\ Cuts("node")
    BY DEF RevokeTenant, Cuts
  <1>2. WearStep /\ \A d \in Caps : d.family = "node" => Revoked(d)'
    BY <1>1, FamilyWears DEF Types, CapTypes, WearStep
  <1>3. Others(t) /\ task'[t].op = o /\ task'[t].todo = {c \in Caps : caps[c] # {}}
    BY RevokeTenantEffect DEF Types
  <1>4. MildStep
    BY <1>1, <1>3 DEF MildStep, Mild, Others
  <1>5. MintInv' /\ CapInv' /\ RedeemInv' /\ ToldInv'
    BY <1>1, <1>2, <1>4, WearKeeps DEF SpendInv
  <1>6. CutInv'
    BY <1>1, <1>2, <1>4, CutStays DEF SpendInv, Types, CapTypes, CutInv
  <1>7. \A c \in task'[t].todo : Known(c)' /\ (c.family # "proxy" => Revoked(c)')
    BY <1>2, <1>3, <1>4, KnownStays, BrokerAssumption DEF SpendInv, CapInv
  <1>8. \A u \in Tasks \ {t} : task[u].at = "proxies" =>
          \A c \in task[u].todo : Known(c)' /\ (c.family # "proxy" => Revoked(c)')
    BY <1>2, <1>4, SweepStays DEF SpendInv, Types
  <1>9. SweepInv'
    BY <1>3, <1>7, <1>8 DEF SweepInv, Others
  <1> QED
    BY <1>5, <1>6, <1>9 DEF SpendInv

\* A mint reserves a capability of which nothing is known.
LEMMA MintSpend ==
  ASSUME Types, SpendInv, NEW t \in Tasks, NEW c \in Caps, Mint(t, c)
  PROVE  SpendInv'
PROOF
  <1>1. /\ UNCHANGED <<caps, cut, told>> /\ minted' = minted \cup {c} /\ c \notin minted /\ ~c.outsider
        /\ task[t] = Idle
    BY DEF Mint, Begins
  <1>2. Others(t) /\ task'[t].op = "mint" /\ task'[t].cap = c /\ task'[t].at = "names"
    BY MintEffect DEF Types
  <1>3. ASSUME NEW u \in Tasks, NEW d PROVE Minting(u, d)' => Minting(u, d) \/ (u = t /\ d = c)
    BY <1>2 DEF Minting, Others
  <1>4. ASSUME NEW u \in Tasks, NEW d PROVE Redeeming(u, d)' => Redeeming(u, d) /\ task'[u] = task[u]
    BY <1>2 DEF Redeeming, Others
  <1>5. ASSUME NEW d, Known(d) PROVE Known(d)'
    BY <1>1, <1>3, <1>5 DEF Known
  <1>6. \A u \in Tasks : ~Minting(u, c)
    BY <1>1 DEF SpendInv, MintInv
  <1>7. MintInv'
    BY <1>1, <1>3, <1>6 DEF SpendInv, MintInv
  <1>8. CapInv' /\ ToldInv' /\ CutInv'
    BY <1>1, <1>5 DEF SpendInv, CapInv, ToldInv, CutInv, Spent, Revoked
  <1>9. RedeemInv'
    BY <1>1, <1>4, <1>5 DEF SpendInv, RedeemInv, Spent
  <1>10. SweepInv'
    BY <1>1, <1>2, <1>5 DEF SpendInv, SweepInv, Revoked, Others
  <1> QED
    BY <1>7, <1>8, <1>9, <1>10 DEF SpendInv

\* Its record arrives: nobody can have redeemed or revoked it before.
LEMMA InsertSpend ==
  ASSUME Types, SpendInv, NEW t \in Tasks, MintInsert(t)
  PROVE  SpendInv'
PROOF
  <1>0. PICK c \in Caps : c = task[t].cap
    BY InsertEffect DEF Types
  <1>1. UNCHANGED <<minted, cut, told>>
    BY DEF MintInsert
  <1>2. Others(t) /\ task'[t] = Idle /\ Minting(t, c) /\ c \in Caps /\ \A d \in Caps : d # c => Worn(d)
    BY <1>0, InsertEffect DEF Types, Minting
  <1>3. ~Known(c) /\ c \in minted /\ ~c.outsider
    BY <1>2 DEF Known, SpendInv, MintInv
  <1>4. MildStep
    BY <1>1, <1>2 DEF MildStep, Mild, Others, Idle
  <1>5. \A u \in Tasks : ~Minting(u, c)'
    <2>1. ~Minting(t, c)'
      BY <1>2 DEF Minting, Idle
    <2>2. ASSUME NEW u \in Tasks, u # t PROVE ~Minting(u, c)'
      <3>1. ~Minting(u, c)
        BY <1>2, <2>2 DEF SpendInv, MintInv
      <3> QED
        BY <1>2, <2>2, <3>1 DEF Others, Minting
    <2> QED
      BY <2>1, <2>2
  <1>6. Known(c)'
    BY <1>1, <1>3, <1>5 DEF Known
  <1>7. MintInv'
    BY <1>4, MildFacts DEF SpendInv, MintInv, MildStep
  <1>8. CapInv'
    BY <1>2, <1>3, <1>4, <1>6, WornFacts, KnownStays DEF SpendInv, CapInv
  <1>9. RedeemInv'
    <2>1. ASSUME NEW u \in Tasks, NEW d \in Caps, Redeeming(u, d)'
          PROVE  Known(d)' /\ ~d.outsider /\ Spent(d)' /\ told'[d].times = 0 /\ ~task'[u].late
      <3>1. Redeeming(u, d) /\ task'[u].late = task[u].late
        BY <1>4, <2>1, MildFacts
      <3>2. Known(d) /\ ~d.outsider /\ Spent(d) /\ told[d].times = 0 /\ ~task[u].late
        BY <3>1 DEF SpendInv, RedeemInv
      <3>3. d # c
        BY <1>3, <3>2
      <3> QED
        BY <1>1, <1>2, <1>4, <3>1, <3>2, <3>3, WornFacts, KnownStays
    <2>2. ASSUME NEW s \in Tasks, NEW u \in Tasks, NEW d \in Caps, Redeeming(s, d)', Redeeming(u, d)'
          PROVE  s = u
      BY <1>4, <2>2, MildFacts DEF SpendInv, RedeemInv
    <2> QED
      BY <2>1, <2>2 DEF RedeemInv
  <1>10. ToldInv'
    BY <1>1, <1>2, <1>3, <1>4, WornFacts, KnownStays DEF SpendInv, ToldInv
  <1>11. CutInv'
    BY <1>1, <1>2, <1>3, <1>4, WornFacts, KnownStays DEF SpendInv, CutInv, Types, CapTypes
  <1>12. SweepInv'
    <2>1. ASSUME NEW u \in Tasks, task'[u].at = "proxies", NEW d \in task'[u].todo
          PROVE  Known(d)' /\ (d.family # "proxy" => Revoked(d)')
      <3>1. u # t
        BY <1>2, <2>1 DEF Idle
      <3>2. task'[u] = task[u]
        BY <1>2, <3>1 DEF Others
      <3>3. Known(d) /\ (d.family # "proxy" => Revoked(d))
        BY <2>1, <3>2 DEF SpendInv, SweepInv
      <3>4. d # c /\ d \in Caps
        BY <1>3, <3>3 DEF Known, Types, CapTypes
      <3> QED
        BY <1>2, <1>4, <3>3, <3>4, WornFacts, KnownStays
    <2> QED
      BY <2>1 DEF SweepInv
  <1> QED
    BY <1>7, <1>8, <1>9, <1>10, <1>11, <1>12 DEF SpendInv

\* A redemption finds a record that is neither burnt nor revoked, so it is the first.
LEMMA RedeemSpend ==
  ASSUME Types, SpendInv, NEW t \in Tasks, NEW c \in Caps, NEW k, NEW at, NEW asked, NEW job,
         Redeem(t, c, k, at, asked, job)
  PROVE  SpendInv'
PROOF
  <1>1. UNCHANGED <<minted, cut, told>> /\ Burn(c) /\ task[t] = Idle
    BY DEF Redeem, Begins
  <1>2. PICK r \in caps[c] : ~r.consumed /\ ~r.revoked
    BY DEF Redeem, Redeemable, Asserted
  <1>3. Spent(c)' /\ WearStep
    BY <1>1, BurnWears DEF Types, WearStep
  <1>4. /\ Others(t)
        /\ \/ task'[t] = task[t]
           \/ /\ task'[t].op = "redeem" /\ task'[t].cap = c /\ task'[t].at = "next"
              /\ task'[t].late = (c \in cut)
    BY RedeemEffect DEF Types
  <1>5. Known(c) /\ ~c.outsider /\ ~Spent(c) /\ c \notin cut
    BY <1>2 DEF SpendInv, CapInv, Spent, CutInv, Revoked
  <1>6. told[c].times = 0 /\ \A u \in Tasks : ~Redeeming(u, c)
    BY <1>5 DEF SpendInv, ToldInv, RedeemInv
  <1>7. ASSUME NEW u \in Tasks, NEW d PROVE Minting(u, d)' => Minting(u, d)
    BY <1>4 DEF Minting, Others
  <1>8. ASSUME NEW u \in Tasks, NEW d, Redeeming(u, d)'
        PROVE  (Redeeming(u, d) /\ task'[u].late = task[u].late) \/ (u = t /\ d = c /\ ~task'[u].late)
    BY <1>4, <1>5, <1>8 DEF Redeeming, Others
  <1>9. ASSUME NEW d, Known(d) PROVE Known(d)'
    BY <1>1, <1>7, <1>9 DEF Known
  <1>10. MintInv'
    BY <1>1, <1>7 DEF SpendInv, MintInv
  <1>11. CapInv' /\ ToldInv'
    BY <1>1, <1>3, <1>9, WornFacts DEF SpendInv, CapInv, ToldInv, WearStep
  <1>12. RedeemInv'
    <2>1. ASSUME NEW u \in Tasks, NEW d \in Caps, Redeeming(u, d)'
          PROVE  Known(d)' /\ ~d.outsider /\ Spent(d)' /\ told'[d].times = 0 /\ ~task'[u].late
      BY <1>1, <1>3, <1>5, <1>6, <1>8, <1>9, <2>1, WornFacts DEF SpendInv, RedeemInv, WearStep
    <2>2. ASSUME NEW s \in Tasks, NEW u \in Tasks, NEW d \in Caps, Redeeming(s, d)', Redeeming(u, d)'
          PROVE  s = u
      BY <1>6, <1>8, <2>2 DEF SpendInv, RedeemInv
    <2> QED
      BY <2>1, <2>2 DEF RedeemInv
  <1>13. CutInv'
    BY <1>1, <1>3, <1>9, WornFacts DEF SpendInv, CutInv, WearStep, Types, CapTypes
  <1>14. SweepInv'
    <2>1. ASSUME NEW u \in Tasks, task'[u].at = "proxies", NEW d \in task'[u].todo
          PROVE  Known(d)' /\ (d.family # "proxy" => Revoked(d)')
      <3>1. task'[u] = task[u]
        BY <1>4, <2>1 DEF Others
      <3>2. Known(d) /\ (d.family # "proxy" => Revoked(d))
        BY <2>1, <3>1 DEF SpendInv, SweepInv
      <3>3. d \in Caps
        BY <3>2 DEF Known, Types, CapTypes
      <3> QED
        BY <1>3, <1>9, <3>2, <3>3, WornFacts DEF WearStep
    <2> QED
      BY <2>1 DEF SweepInv
  <1> QED
    BY <1>10, <1>11, <1>12, <1>13, <1>14 DEF SpendInv

\* A delivery is the only one of its capability.
LEMMA DeliverSpend ==
  ASSUME Types, SpendInv, NEW t \in Tasks, Deliver(t)
  PROVE  SpendInv'
PROOF
  <1>0. PICK c \in Caps : c = task[t].cap
    BY DeliverEffect DEF Types
  <1>1. UNCHANGED <<caps, minted, cut>>
    BY DEF Deliver
  <1>2. /\ Others(t) /\ task'[t] = Idle /\ Redeeming(t, c) /\ c \in Caps
        /\ \A d \in Caps : d # c => told'[d] = told[d]
        /\ \/ told'[c] = told[c]
           \/ told'[c].times = told[c].times + 1 /\ told'[c].late = (told[c].late \/ task[t].late)
    BY <1>0, DeliverEffect DEF Types, Redeeming
  <1>3. Known(c) /\ ~c.outsider /\ Spent(c) /\ told[c].times = 0 /\ ~task[t].late /\ ~told[c].late
    BY <1>2 DEF SpendInv, RedeemInv, ToldInv
  <1>4. \A u \in Tasks : ~Redeeming(u, c)'
    <2>1. ~Redeeming(t, c)'
      BY <1>2 DEF Redeeming, Idle
    <2>2. ASSUME NEW u \in Tasks, u # t PROVE ~Redeeming(u, c)'
      <3>1. ~Redeeming(u, c)
        BY <1>2, <2>2 DEF SpendInv, RedeemInv
      <3> QED
        BY <1>2, <2>2, <3>1 DEF Others, Redeeming
    <2> QED
      BY <2>1, <2>2
  <1>5. MildStep
    BY <1>1, <1>2 DEF MildStep, Mild, Others, Idle
  <1>6. MintInv' /\ CapInv'
    BY <1>1, <1>5, MildFacts, KnownStays DEF SpendInv, MintInv, CapInv, MildStep
  <1>7. RedeemInv'
    <2>1. ASSUME NEW u \in Tasks, NEW d \in Caps, Redeeming(u, d)'
          PROVE  Known(d)' /\ ~d.outsider /\ Spent(d)' /\ told'[d].times = 0 /\ ~task'[u].late
      <3>1. Redeeming(u, d) /\ task'[u].late = task[u].late /\ d # c
        BY <1>4, <1>5, <2>1, MildFacts
      <3> QED
        BY <1>1, <1>2, <1>5, <3>1, KnownStays DEF SpendInv, RedeemInv, Spent
    <2>2. ASSUME NEW s \in Tasks, NEW u \in Tasks, NEW d \in Caps, Redeeming(s, d)', Redeeming(u, d)'
          PROVE  s = u
      BY <1>5, <2>2, MildFacts DEF SpendInv, RedeemInv
    <2> QED
      BY <2>1, <2>2 DEF RedeemInv
  <1>8. ToldInv'
    <2>1. ~told'[c].late /\ told'[c].times \in {0, 1} /\ Known(c)' /\ Spent(c)'
      <3>1. Known(c)' /\ Spent(c)'
        BY <1>1, <1>3, <1>5, KnownStays DEF Spent
      <3>2. told'[c].times \in {0, 1}
        BY <1>2, <1>3
      <3>3. ~told'[c].late
        BY <1>2, <1>3, Zenon
      <3> QED
        BY <3>1, <3>2, <3>3
    <2>2. ASSUME NEW d \in Caps, d # c
          PROVE  ~told'[d].late /\ (told'[d].times # 0 =>
                   told'[d].times = 1 /\ Known(d)' /\ ~d.outsider /\ Spent(d)')
      BY <1>1, <1>2, <1>5, <2>2, KnownStays DEF SpendInv, ToldInv, Spent
    <2> QED
      BY <1>3, <2>1, <2>2 DEF ToldInv
  <1>9. CutInv'
    BY <1>1, <1>5, KnownStays DEF SpendInv, CutInv, Revoked
  <1>10. SweepInv'
    BY <1>1, <1>2, <1>5, KnownStays DEF SpendInv, SweepInv, Others, Revoked, Idle
  <1> QED
    BY <1>6, <1>7, <1>8, <1>9, <1>10 DEF SpendInv

LEMMA SpendStep == Types /\ SpendInv /\ [BrokerNext]_brokerVars => SpendInv'
PROOF
  <1> SUFFICES ASSUME Types, SpendInv, [BrokerNext]_brokerVars PROVE SpendInv'
    OBVIOUS
  <1>1. ASSUME CalmStep PROVE SpendInv'
    BY <1>1, CalmSpend
  <1>2. ASSUME NEW c \in Caps, Revoke(c) \/ RevokeJob(c.job) PROVE SpendInv'
    BY <1>2, RevokeOneSpend, RevokeJobSpend
  <1>3. ASSUME NEW t \in Tasks, CapStep(t) PROVE SpendInv'
    BY <1>3, MintSpend, InsertSpend, RedeemSpend, DeliverSpend, RevokeTenantSpend, RevokeProxiesSpend DEF CapStep
  <1> QED
    BY <1>1, <1>2, <1>3, StepCases

\* Nobody outside the author's class has a capability at the start.
Insiders == {c \in Caps : ~c.outsider}

LEMMA InitTypes ==
  ASSUME NEW services, NEW before \in SUBSET Insiders, NEW calls0, BrokerInit(services, before, calls0)
  PROVE  Types
PROOF
  <1>1. KeyTypes
    <2>1. [ver |-> 1, kek |-> 1] \in Key
      BY DEF Key
    <2>2. <<[ver |-> 1, kek |-> 1]>> \in KeyList
      BY <2>1 DEF KeyList
    <2> DEFINE ks == <<[ver |-> 1, kek |-> 1]>>
    <2>3. keys = [known |-> TRUE, vs |-> ks, next |-> 2] /\ made = 1
      BY DEF BrokerInit
    <2> HIDE DEF ks
    <2> QED
      BY <2>2, <2>3 DEF KeyTypes, KeyRing, ks
  <1>2. RowTypes
    <2>1. \A n \in Names : [name |-> n, ver |-> 1, kek |-> 1, born |-> 0, raced |-> FALSE] \in Sealed
      BY DEF Sealed
    <2> QED
      BY <2>1 DEF BrokerInit, RowTypes
  <1>3. TaskTypes
    BY IdleFits DEF BrokerInit, TaskTypes
  <1>4. CapTypes
    <2>1. [expires |-> Ttl, consumed |-> FALSE, revoked |-> FALSE] \in CapRecord
      BY BrokerAssumption DEF CapRecord
    <2>2. caps \in [Caps -> SUBSET CapRecord]
      BY <2>1 DEF BrokerInit
    <2> QED
      BY <2>2 DEF BrokerInit, CapTypes, Insiders
  <1> QED
    BY <1>1, <1>2, <1>3, <1>4 DEF Types

LEMMA InitSpend ==
  ASSUME NEW services, NEW before \in SUBSET Insiders, NEW calls0, BrokerInit(services, before, calls0)
  PROVE  SpendInv
PROOF
  <1>1. \A t \in Tasks : task[t].op = "idle" /\ task[t].at = "idle"
    BY DEF BrokerInit, Idle
  <1>2. \A c \in Caps : told[c].times = 0 /\ ~told[c].late
    BY DEF BrokerInit
  <1>3. \A c \in Caps : caps[c] # {} => c \in minted /\ ~c.outsider
    BY DEF BrokerInit, Insiders
  <1>4. cut = {}
    BY DEF BrokerInit
  <1> QED
    BY <1>1, <1>2, <1>3, <1>4 DEF SpendInv, MintInv, CapInv, RedeemInv, ToldInv, CutInv, SweepInv, Minting,
       Redeeming, Known

-----------------------------------------------------------------------------
\* Sealed values.  A key that was made is not made again, and dev does not use a
\* version number twice.
Live == {k.kek : k \in Versions}
KeyInv ==
  /\ svc \in {"dev", "kms"} /\ keys.next >= 1
  /\ \A k \in Versions : k.kek >= 1 /\ k.kek <= made /\ k.ver < keys.next

\* Wherever a sealed value is, its key is one that was made; and if that is still
\* there the value is of this epoch, or a rotation was raced with it by a shred.
Bound(s) ==
  /\ s.kek <= made /\ s.born <= epoch
  /\ s.kek \in Live => s.born = epoch \/ (svc = "kms" /\ s.raced)
Readable(s) == s.born = epoch => UnwrapDek(s)

\* A data key in the clear is of this epoch, or kms was raced, or dev has no key of
\* the version any more that it would be wrapped under.
Movable(s, v) ==
  \/ s.born = epoch
  \/ svc = "kms" /\ s.raced
  \/ svc = "dev" /\ \A k \in Versions : k.ver # v
Sound(a) ==
  /\ \A s \in a.sealed : Bound(s)
  /\ a.op = "rotate" => \A s \in a.todo : Bound(s)
  /\ svc = "dev" => a.ver < keys.next
  /\ a.at = "rewrap" => \A s \in a.sealed : Movable(s, a.ver)
  /\ a.at = "store" => \A s \in a.sealed : Readable(s)
HandInv == \A t \in Tasks : Sound(task[t])
StoreInv == \A n \in Names : \A s \in row[n] : Bound(s) /\ Readable(s)
SealInv == KeyInv /\ HandInv /\ StoreInv /\ ShredIsFinal

\* A step after which a caller has nothing in hand that it did not have before.
Steady(a, b) ==
  /\ b.sealed \subseteq a.sealed
  /\ b.op = "rotate" => b.todo = {} \/ (a.op = "rotate" /\ b.todo \subseteq a.todo)
  /\ b.ver \in {0, a.ver}
  /\ b.at = "rewrap" => a.at = "rewrap" /\ b.ver = a.ver
  /\ b.at = "store" => a.at = "store"

\* The keys of a tenant grow but for a shred.
Grows ==
  /\ UNCHANGED <<svc, epoch>> /\ made' \in Nat /\ made <= made'
  /\ Versions \subseteq Versions'
  /\ \A k \in Versions' \ Versions :
       /\ k.kek \in Live \/ k.kek > made
       /\ svc = "dev" => k.ver >= keys.next
  /\ keys'.next \in Nat /\ (svc = "dev" => keys.next <= keys'.next)
  /\ KeyInv'

LEMMA ProvisionGrows ==
  ASSUME KeyTypes, KeyInv, UNCHANGED <<svc, epoch>>, ProvisionTenant
  PROVE  Grows
PROOF
  <1> DEFINE ver == IF svc = "dev" THEN keys.next ELSE 1
             k == [ver |-> ver, kek |-> made']
  <1>1. made' = made + 1 /\ keys' = [known |-> TRUE, vs |-> <<k>>, next |-> ver + 1] /\ keys.vs = <<>>
    BY DEF ProvisionTenant
  <1>2. ver \in Nat /\ made \in Nat /\ made' \in Nat /\ ver >= 1
    BY <1>1 DEF KeyTypes, KeyRing, KeyInv
  <1>3. Versions = {}
    BY <1>1 DEF Versions
  <1>4. k.ver = ver /\ k.kek = made + 1
    BY <1>1
  <1>5. svc = "dev" => ver = keys.next
    OBVIOUS
  <1> HIDE DEF ver, k
  <1>6. keys'.vs = <<k>> /\ keys'.next = ver + 1
    BY <1>1
  <1>7. Versions' = {k}
    BY <1>6 DEF Versions
  <1>8. KeyInv'
    BY <1>1, <1>2, <1>4, <1>6, <1>7 DEF KeyInv
  <1>9. keys.next \in Nat
    BY DEF KeyTypes, KeyRing
  <1> QED
    BY <1>1, <1>2, <1>3, <1>4, <1>5, <1>6, <1>7, <1>8, <1>9 DEF Grows

LEMMA AppendVersions ==
  ASSUME KeyTypes, NEW k, keys'.vs = Append(keys.vs, k)
  PROVE  Versions' = Versions \cup {k}
PROOF
  <1>1. keys.vs \in Seq(Key)
    BY DEF KeyTypes, KeyRing, KeyList
  <1> DEFINE v == keys.vs
             w == keys'.vs
  <1>2. v \in Seq(Key) /\ w = Append(v, k)
    BY <1>1
  <1>3. DOMAIN v = 1..Len(v) /\ Len(v) \in Nat /\ DOMAIN w = 1..(Len(v) + 1)
    BY <1>2
  <1>4. w[Len(v) + 1] = k /\ \A i \in 1..Len(v) : w[i] = v[i]
    BY <1>2
  <1>5. Versions = {v[i] : i \in DOMAIN v} /\ Versions' = {w[i] : i \in DOMAIN w}
    BY DEF Versions
  <1> HIDE DEF v, w
  <1> QED
    BY <1>3, <1>4, <1>5

LEMMA RotateGrows ==
  ASSUME KeyTypes, KeyInv, UNCHANGED <<svc, epoch>>, RotateKeys
  PROVE  Grows
PROOF
  <1> DEFINE kek == IF svc = "dev" THEN made' ELSE keys.vs[1].kek
             k == [ver |-> keys.next, kek |-> kek]
             vs == Append(keys.vs, k)
  <1>1. made' = made + 1 /\ keys' = [keys EXCEPT !.vs = vs, !.next = @ + 1]
    BY DEF RotateKeys
  <1>2. keys \in KeyRing /\ keys.vs \in KeyList /\ keys.next \in Nat /\ made \in Nat
    BY DEF KeyTypes, KeyRing
  <1>3. kek = made + 1 \/ kek \in Live
    <2>1. CASE svc = "dev"
      BY <1>1, <2>1
    <2>2. CASE svc # "dev"
      <3>1. keys.vs # <<>>
        BY <2>2 DEF RotateKeys
      <3>2. keys.vs[1] \in Versions
        <4>1. 1 \in DOMAIN keys.vs
          BY <1>2, <3>1 DEF KeyList
        <4> QED
          BY <4>1 DEF Versions
      <3> QED
        BY <2>2, <3>2 DEF Live
    <2> QED
      BY <2>1, <2>2
  <1>4. k.ver = keys.next /\ k.kek = kek
    OBVIOUS
  <1>5. keys'.vs = Append(keys.vs, k) /\ keys'.next = keys.next + 1
    <2> HIDE DEF k
    <2> HIDE DEF vs
    <2>1. keys'.vs = vs /\ keys'.next = keys.next + 1
      BY <1>1, <1>2 DEF KeyRing
    <2> QED
      BY <2>1 DEF vs
  <1> HIDE DEF kek, k, vs
  <1>6. Versions' = Versions \cup {k}
    BY <1>5, AppendVersions
  <1>7. \A e \in Versions : e.ver \in Nat /\ e.kek \in Nat
    BY VersionTypes DEF Key
  <1>8. k.kek \in Nat /\ (k.kek = made + 1 \/ (k.kek \in Live /\ k.kek >= 1 /\ k.kek <= made))
    BY <1>2, <1>3, <1>4, <1>7 DEF Live, KeyInv
  <1>9. KeyInv'
    BY <1>1, <1>2, <1>4, <1>5, <1>6, <1>7, <1>8 DEF KeyInv
  <1> QED
    BY <1>1, <1>2, <1>4, <1>5, <1>6, <1>8, <1>9 DEF Grows

\* What is true of sealed values stays so while keys only grow.
LEMMA BoundStays ==
  ASSUME KeyTypes, KeyInv, Grows, NEW s \in Sealed, Bound(s)
  PROVE  Bound(s)'
PROOF
  <1>1. s.kek \in Nat /\ s.kek <= made /\ made \in Nat
    BY DEF Sealed, Bound, KeyTypes
  <1>2. s.kek \in Live' => s.kek \in Live
    BY <1>1 DEF Live, Grows
  <1> QED
    BY <1>1, <1>2 DEF Bound, Grows

LEMMA ReadableStays ==
  ASSUME Grows, NEW s, Readable(s)
  PROVE  Readable(s)'
BY DEF Readable, UnwrapDek, Grows

LEMMA MovableStays ==
  ASSUME KeyTypes, Grows, NEW s, NEW v \in Nat, Movable(s, v), svc = "dev" => v < keys.next
  PROVE  Movable(s, v)'
PROOF
  <1>1. CASE svc = "dev" /\ \A k \in Versions : k.ver # v
    <2>1. ASSUME NEW k \in Versions', k.ver = v PROVE FALSE
      <3>1. k \notin Versions /\ k.ver >= keys.next /\ v < keys.next /\ keys.next \in Nat
        BY <1>1, <2>1 DEF Grows, KeyTypes, KeyRing
      <3> QED
        BY <2>1, <3>1
    <2> QED
      BY <1>1, <2>1 DEF Movable, Grows
  <1> QED
    BY <1>1 DEF Movable, Grows

LEMMA SoundStays ==
  ASSUME KeyTypes, KeyInv, Grows, NEW a \in Call, Sound(a)
  PROVE  Sound(a)'
PROOF
  <1>1. a \in CallRecord /\ Fits(a)
    BY DEF Call
  <1>2. a.sealed \subseteq Sealed /\ a.ver \in Nat /\ (a.op = "rotate" => a.todo \subseteq Sealed)
    BY <1>1 DEF CallRecord, Fits
  <1>3. \A s \in a.sealed : Bound(s)'
    BY <1>2, BoundStays DEF Sound
  <1>4. a.op = "rotate" => \A s \in a.todo : Bound(s)'
    BY <1>2, BoundStays DEF Sound
  <1>5. svc' = "dev" => a.ver < keys'.next
    <2>1. keys.next \in Nat
      BY DEF KeyTypes, KeyRing
    <2>2. ASSUME svc = "dev" PROVE keys'.next >= keys.next /\ a.ver < keys.next
      BY <2>2 DEF Sound, Grows
    <2>3. svc = "dev" => keys'.next > a.ver
      BY <1>2, <2>1, <2>2 DEF Grows
    <2> QED
      BY <2>3 DEF Grows
  <1>6. a.at = "rewrap" => \A s \in a.sealed : Movable(s, a.ver)'
    BY <1>2, MovableStays DEF Sound
  <1>7. a.at = "store" => \A s \in a.sealed : Readable(s)'
    BY ReadableStays DEF Sound
  <1> QED
    BY <1>3, <1>4, <1>5, <1>6, <1>7 DEF Sound

LEMMA SteadySound ==
  ASSUME KeyTypes, KeyInv, NEW a, NEW b, Sound(a), Steady(a, b)
  PROVE  Sound(b)
PROOF
  <1>1. \A s \in b.sealed : Bound(s)
    BY DEF Sound, Steady
  <1>2. b.op = "rotate" => \A s \in b.todo : Bound(s)
    BY DEF Sound, Steady
  <1>3. svc = "dev" => b.ver < keys.next
    <2>1. 0 < keys.next
      BY DEF KeyTypes, KeyRing, KeyInv
    <2> QED
      BY <2>1 DEF Sound, Steady
  <1>4. b.at = "rewrap" => \A s \in b.sealed : Movable(s, b.ver)
    BY DEF Sound, Steady
  <1>5. b.at = "store" => \A s \in b.sealed : Readable(s)
    BY DEF Sound, Steady
  <1> QED
    BY <1>1, <1>2, <1>3, <1>4, <1>5 DEF Sound

LEMMA IdleIsSteady == ASSUME NEW a PROVE Steady(a, Idle)
BY DEF Steady, Idle

LEMMA SameGrows ==
  ASSUME KeyTypes, KeyInv, UNCHANGED <<svc, keys, made, epoch>>
  PROVE  Grows
PROOF
  <1>1. keys.next \in Nat /\ made \in Nat
    BY DEF KeyTypes, KeyRing
  <1> QED
    BY <1>1 DEF Grows, KeyInv, Versions

\* One caller steps to b, and b is sound.
LEMMA HandsStay ==
  ASSUME KeyTypes, KeyInv, TaskTypes, HandInv, Grows, NEW t \in Tasks, NEW b \in Call, Goes(t, b), Sound(b)
  PROVE  HandInv'
PROOF
  <1>1. task'[t] = b /\ \A u \in Tasks : u # t => task'[u] = task[u]
    BY GoesEffect
  <1>2. Sound(b)'
    BY SoundStays
  <1>3. ASSUME NEW u \in Tasks, u # t PROVE Sound(task[u])
    BY DEF HandInv
  <1>4. ASSUME NEW u \in Tasks PROVE Sound(task[u])'
    <2>1. PICK a \in Call : a = task'[u] /\ Sound(a)
      BY <1>1, <1>3 DEF TaskTypes
    <2>2. Sound(a)'
      BY <2>1, SoundStays
    <2> QED
      BY <2>1, <2>2 DEF Sound
  <1> QED
    BY <1>4 DEF HandInv

-----------------------------------------------------------------------------
\* What each caller has in hand afterwards is sound.
LEMMA SameHand ==
  ASSUME TaskTypes, NEW t \in Tasks, NEW a, NEW b, Goes(t, a), Goes(t, b)
  PROVE  a = b
BY DEF Goes, TaskTypes

LEMMA EndsSound ==
  ASSUME KeyTypes, KeyInv, HandInv, NEW t \in Tasks, Ends(t)
  PROVE  \E b \in Call : Goes(t, b) /\ Sound(b)
BY IdleFits, IdleIsSteady, SteadySound DEF HandInv, Ends, Goes

LEMMA PutSecretSound ==
  ASSUME Types, SealInv, NEW t \in Tasks, NEW n \in Names, PutSecret(t, n)
  PROVE  \E b \in Call : Goes(t, b) /\ Sound(b)
PROOF
  <1> DEFINE s == [name |-> n, ver |-> 0, kek |-> 0, born |-> epoch, raced |-> FALSE]
             e == [Idle EXCEPT !.op = "put", !.at = "seal", !.ver = CurrentVersion, !.sealed = {s}]
  <1>1. PICK b \in Call : Goes(t, b)
    BY PutSecretCalm DEF Types
  <1>2. b = e
    BY <1>1, SameHand DEF PutSecret, Types
  <1>3. s.kek = 0 /\ s.born = epoch
    OBVIOUS
  <1> HIDE DEF s
  <1>4. e.op = "put" /\ e.at = "seal" /\ e.ver = CurrentVersion /\ e.sealed = {s}
    BY DEF Idle
  <1> HIDE DEF e
  <1>5. Bound(s)
    <2>1. 0 \notin Live
      BY DEF SealInv, KeyInv, Live
    <2> QED
      BY <1>3, <2>1 DEF Bound, Types, KeyTypes, RowTypes
  <1>6. CurrentVersion < keys.next
    BY CurrentIsVersion DEF PutSecret, Types, SealInv, KeyInv
  <1> QED
    BY <1>1, <1>2, <1>4, <1>5, <1>6 DEF Sound

LEMMA WrapSound ==
  ASSUME Types, SealInv, NEW t \in Tasks, Wrap(t)
  PROVE  \E b \in Call : Goes(t, b) /\ Sound(b)
PROOF
  <1>1. CASE Ends(t)
    BY <1>1, EndsSound DEF Types, SealInv
  <1>2. CASE ~Ends(t)
    <2> DEFINE z(s, k) == [s EXCEPT !.ver = task[t].ver, !.kek = k, !.born = IF task[t].op = "put" THEN epoch ELSE @]
               e(s, k) == [task[t] EXCEPT !.at = "store", !.sealed = {z(s, k)}]
    <2>1. PICK k \in WrapDek(task[t].ver), s \in task[t].sealed : Goes(t, e(s, k))
      BY <1>2 DEF Wrap
    <2>2. PICK b \in Call : Goes(t, b)
      BY WrapCalm DEF Types
    <2>3. b = e(s, k)
      BY <2>1, <2>2, SameHand DEF Types
    <2>4. task[t] \in CallRecord /\ Fits(task[t]) /\ task[t].at \in {"seal", "rewrap"}
      BY DEF Types, TaskTypes, Call, Wrap
    <2>5. s \in Sealed
      BY <2>4 DEF CallRecord
    <2>6. /\ z(s, k).ver = task[t].ver /\ z(s, k).kek = k /\ z(s, k).raced = s.raced
          /\ z(s, k).born = IF task[t].op = "put" THEN epoch ELSE s.born
      BY <2>5 DEF Sealed
    <2> HIDE DEF z
    <2>7. e(s, k).op = task[t].op /\ e(s, k).at = "store" /\ e(s, k).ver = task[t].ver
          /\ e(s, k).todo = task[t].todo /\ e(s, k).sealed = {z(s, k)}
      BY <2>4 DEF CallRecord
    <2> HIDE DEF e
    <2>8. Sound(task[t]) /\ KeyInv
      BY DEF SealInv, HandInv
    <2>9. PICK v \in Versions : v.kek = k /\ v.ver = task[t].ver
      BY DEF WrapDek
    <2>10. task[t].op # "put" => task[t].at = "rewrap"
      BY <2>4 DEF Fits, CallRecord, Ops
    <2>11. z(s, k).born = epoch \/ (svc = "kms" /\ z(s, k).raced)
      BY <2>6, <2>8, <2>9, <2>10 DEF Sound, Movable, KeyInv
    <2>12. z(s, k).born <= epoch /\ z(s, k).kek <= made
      <3>1. s.born <= epoch /\ epoch <= epoch /\ v.kek <= made
        BY <2>8 DEF Sound, Bound, KeyInv, Types, RowTypes
      <3> QED
        BY <2>6, <2>9, <3>1
    <2>13. Bound(z(s, k)) /\ Readable(z(s, k))
      BY <2>6, <2>9, <2>11, <2>12 DEF Bound, Readable, UnwrapDek
    <2>14. Sound(e(s, k))
      BY <2>7, <2>8, <2>13 DEF Sound
    <2> QED
      BY <2>2, <2>3, <2>14
  <1> QED
    BY <1>1, <1>2

LEMMA StoreGetSound ==
  ASSUME Types, SealInv, NEW t \in Tasks, StoreGet(t)
  PROVE  \E b \in Call : Goes(t, b) /\ Sound(b)
PROOF
  <1>1. CASE Ends(t)
    BY <1>1, EndsSound DEF Types, SealInv
  <1>2. CASE ~Ends(t)
    <2> DEFINE e(n) == [task[t] EXCEPT !.at = "open", !.todo = @ \ {n}, !.sealed = row[n]]
    <2>1. PICK n \in task[t].todo : Goes(t, e(n))
      BY <1>2 DEF StoreGet
    <2>2. PICK b \in Call : Goes(t, b)
      BY StoreGetCalm DEF Types
    <2>3. b = e(n)
      BY <2>1, <2>2, SameHand DEF Types
    <2>4. task[t] \in CallRecord /\ Fits(task[t]) /\ task[t].op = "redeem"
      BY DEF Types, TaskTypes, Call, StoreGet
    <2>5. n \in Names
      BY <2>4 DEF Fits
    <2>6. e(n).op = "redeem" /\ e(n).at = "open" /\ e(n).ver = task[t].ver /\ e(n).sealed = row[n]
      BY <2>4 DEF CallRecord
    <2> HIDE DEF e
    <2>7. Sound(e(n))
      BY <2>5, <2>6 DEF SealInv, HandInv, StoreInv, Sound
    <2> QED
      BY <2>2, <2>3, <2>7
  <1> QED
    BY <1>1, <1>2

LEMMA StoreListSound ==
  ASSUME Types, SealInv, NEW t \in Tasks, StoreList(t)
  PROVE  \E b \in Call : Goes(t, b) /\ Sound(b)
PROOF
  <1> DEFINE all == UNION {row[n] : n \in Names}
             e == [task[t] EXCEPT !.at = "next", !.todo = all]
  <1>1. Goes(t, e)
    BY DEF StoreList
  <1>2. PICK b \in Call : Goes(t, b)
    BY StoreListCalm DEF Types
  <1>3. b = e
    BY <1>1, <1>2, SameHand DEF Types
  <1>4. \A s \in all : Bound(s)
    BY DEF SealInv, StoreInv
  <1> HIDE DEF all
  <1>5. task[t] \in CallRecord
    BY DEF Types, TaskTypes, Call
  <1>6. e.at = "next" /\ e.ver = task[t].ver /\ e.sealed = task[t].sealed /\ e.todo = all
    BY <1>5 DEF CallRecord
  <1> HIDE DEF e
  <1>7. Sound(e)
    BY <1>4, <1>6 DEF SealInv, HandInv, Sound
  <1> QED
    BY <1>2, <1>3, <1>7

LEMMA RewrapNextSound ==
  ASSUME Types, SealInv, NEW t \in Tasks, RewrapNext(t)
  PROVE  \E b \in Call : Goes(t, b) /\ Sound(b)
PROOF
  <1>1. CASE Ends(t)
    BY <1>1, EndsSound DEF Types, SealInv
  <1>2. CASE ~Ends(t)
    <2> DEFINE e(s) == [task[t] EXCEPT !.todo = @ \ {s}, !.ver = CurrentVersion, !.sealed = {s},
                                       !.at = IF s.ver = CurrentVersion THEN "next" ELSE "unwrap"]
    <2>1. PICK s \in task[t].todo : Goes(t, e(s))
      BY <1>2 DEF RewrapNext
    <2>2. PICK b \in Call : Goes(t, b)
      BY RewrapNextCalm DEF Types
    <2>3. b = e(s)
      BY <2>1, <2>2, SameHand DEF Types
    <2>4. task[t] \in CallRecord /\ task[t].op = "rotate" /\ CurrentVersion # 0
      BY <1>2 DEF Types, TaskTypes, Call, RewrapNext
    <2>5. /\ e(s).op = "rotate" /\ e(s).at \in {"next", "unwrap"} /\ e(s).ver = CurrentVersion
          /\ e(s).sealed = {s} /\ e(s).todo = task[t].todo \ {s}
      BY <2>4 DEF CallRecord
    <2> HIDE DEF e
    <2>6. CurrentVersion < keys.next
      BY <2>4, CurrentIsVersion DEF Types, SealInv, KeyInv
    <2>7. \A r \in task[t].todo : Bound(r)
      BY <2>4 DEF SealInv, HandInv, Sound
    <2>8. Sound(e(s))
      BY <2>5, <2>6, <2>7 DEF Sound
    <2> QED
      BY <2>2, <2>3, <2>8
  <1> QED
    BY <1>1, <1>2

LEMMA RewrapUnwrapSound ==
  ASSUME Types, SealInv, NEW t \in Tasks, RewrapUnwrap(t)
  PROVE  \E b \in Call : Goes(t, b) /\ Sound(b)
PROOF
  <1>1. CASE Ends(t)
    BY <1>1, EndsSound DEF Types, SealInv
  <1>2. CASE ~Ends(t)
    <2> DEFINE e == [task[t] EXCEPT !.at = "rewrap"]
    <2>1. Goes(t, e) /\ \A s \in task[t].sealed : UnwrapDek(s)
      BY <1>2 DEF RewrapUnwrap
    <2>2. PICK b \in Call : Goes(t, b)
      BY RewrapUnwrapCalm DEF Types
    <2>3. b = e
      BY <2>1, <2>2, SameHand DEF Types
    <2>4. task[t] \in CallRecord
      BY DEF Types, TaskTypes, Call
    <2>5. e.op = task[t].op /\ e.at = "rewrap" /\ e.ver = task[t].ver /\ e.sealed = task[t].sealed
          /\ e.todo = task[t].todo
      BY <2>4 DEF CallRecord
    <2> HIDE DEF e
    <2>6. Sound(task[t])
      BY DEF SealInv, HandInv
    <2>7. \A s \in task[t].sealed : Movable(s, task[t].ver)
      BY <2>1, <2>6 DEF Sound, Bound, Live, UnwrapDek, Movable
    <2>8. Sound(e)
      BY <2>5, <2>6, <2>7 DEF Sound
    <2> QED
      BY <2>2, <2>3, <2>8
  <1> QED
    BY <1>1, <1>2

LEMMA StorePutSound ==
  ASSUME Types, SealInv, NEW t \in Tasks, StorePut(t)
  PROVE  \E b \in Call : Goes(t, b) /\ Sound(b)
PROOF
  <1>1. CASE Ends(t)
    BY <1>1, EndsSound DEF Types, SealInv
  <1>2. CASE ~Ends(t)
    <2> DEFINE e == [task[t] EXCEPT !.at = "next", !.sealed = {}]
    <2>1. Goes(t, e)
      BY <1>2 DEF StorePut
    <2>2. PICK b \in Call : Goes(t, b)
      BY StorePutCalm DEF Types
    <2>3. b = e
      BY <2>1, <2>2, SameHand DEF Types
    <2>4. task[t] \in CallRecord
      BY DEF Types, TaskTypes, Call
    <2>5. Steady(task[t], e)
      BY <2>1, <2>4 DEF CallRecord, Steady
    <2> QED
      BY <2>2, <2>3, <2>5, SteadySound DEF Types, SealInv, HandInv
  <1> QED
    BY <1>1, <1>2

LEMMA MintNamesSound ==
  ASSUME Types, SealInv, NEW t \in Tasks, MintNames(t)
  PROVE  \E b \in Call : Goes(t, b) /\ Sound(b)
PROOF
  <1>1. CASE Ends(t)
    BY <1>1, EndsSound DEF Types, SealInv
  <1>2. CASE ~Ends(t)
    <2> DEFINE e == [task[t] EXCEPT !.at = "insert"]
    <2>1. Goes(t, e)
      BY <1>2 DEF MintNames
    <2>2. PICK b \in Call : Goes(t, b)
      BY MintNamesCalm DEF Types
    <2>3. b = e
      BY <2>1, <2>2, SameHand DEF Types
    <2>4. task[t] \in CallRecord
      BY DEF Types, TaskTypes, Call
    <2>5. Steady(task[t], e)
      BY <2>1, <2>4 DEF CallRecord, Steady
    <2> QED
      BY <2>2, <2>3, <2>5, SteadySound DEF Types, SealInv, HandInv
  <1> QED
    BY <1>1, <1>2

LEMMA OpenSealedSound ==
  ASSUME Types, SealInv, NEW t \in Tasks, OpenSealed(t)
  PROVE  \E b \in Call : Goes(t, b) /\ Sound(b)
PROOF
  <1>1. CASE Ends(t)
    BY <1>1, EndsSound DEF Types, SealInv
  <1>2. CASE ~Ends(t)
    <2> DEFINE e == [task[t] EXCEPT !.at = "next", !.sealed = {}]
    <2>1. Goes(t, e)
      BY <1>2 DEF OpenSealed
    <2>2. PICK b \in Call : Goes(t, b)
      BY OpenSealedCalm DEF Types
    <2>3. b = e
      BY <2>1, <2>2, SameHand DEF Types
    <2>4. task[t] \in CallRecord
      BY DEF Types, TaskTypes, Call
    <2>5. Steady(task[t], e)
      BY <2>1, <2>4 DEF CallRecord, Steady
    <2> QED
      BY <2>2, <2>3, <2>5, SteadySound DEF Types, SealInv, HandInv
  <1> QED
    BY <1>1, <1>2

\* A call that begins with nothing sealed in hand.
LEMMA BeginsSound ==
  ASSUME KeyTypes, KeyInv, HandInv, NEW t \in Tasks, NEW b \in Call, b.sealed = {}, b.ver = 0,
         b.op = "rotate" => b.todo = {}, b.at \notin {"rewrap", "store"}
  PROVE  Sound(b)
BY SteadySound DEF HandInv, Steady

LEMMA RotateTenantSound ==
  ASSUME Types, SealInv, NEW t \in Tasks, RotateTenant(t)
  PROVE  \E b \in Call : Goes(t, b) /\ Sound(b)
PROOF
  <1> DEFINE e == [Idle EXCEPT !.op = "rotate", !.at = "list"]
  <1>1. PICK b \in Call : Goes(t, b)
    BY RotateTenantCalm DEF Types
  <1>2. b = e
    BY <1>1, SameHand DEF RotateTenant, Types
  <1>3. e.sealed = {} /\ e.ver = 0 /\ e.at = "list" /\ e.todo = {}
    BY DEF Idle
  <1> HIDE DEF e
  <1> QED
    BY <1>1, <1>2, <1>3, BeginsSound DEF Types, SealInv

\* The steps that a capability notices put no sealed value into a caller's hand.
LEMMA CapStepSound ==
  ASSUME Types, SealInv, NEW t \in Tasks, CapStep(t)
  PROVE  UNCHANGED task \/ \E b \in Call : Goes(t, b) /\ Sound(b)
PROOF
  <1> DEFINE Goal == UNCHANGED task \/ \E b \in Call : Goes(t, b) /\ Sound(b)
  <1>1. ASSUME Ends(t) PROVE Goal
    BY <1>1, EndsSound DEF Types, SealInv
  <1>2. ASSUME NEW e, Goes(t, e), TaskTypes', e.sealed = {}, e.ver = 0, e.op # "rotate",
               e.at \notin {"rewrap", "store"}
        PROVE  Goal
    <2>1. e \in Call
      BY <1>2 DEF Types, TaskTypes, Goes
    <2> QED
      BY <1>2, <2>1, BeginsSound DEF Types, SealInv
  <1>3. TaskTypes'
    BY MintEffect, InsertEffect, RedeemEffect, DeliverEffect, RevokeTenantEffect, RevokeProxiesEffect
    DEF Types, CapStep
  <1> HIDE DEF Goal
  <1>4. ASSUME NEW c \in Caps, Mint(t, c) PROVE Goal
    <2> DEFINE e == [Idle EXCEPT !.op = "mint", !.at = "names", !.cap = c]
    <2>1. Goes(t, e) /\ e.sealed = {} /\ e.ver = 0 /\ e.op = "mint" /\ e.at = "names"
      BY <1>4 DEF Mint, Idle
    <2> HIDE DEF e
    <2> QED
      BY <1>2, <1>3, <2>1
  <1>5. ASSUME MintInsert(t) \/ Deliver(t) PROVE Goal
    BY <1>1, <1>5 DEF MintInsert, Deliver
  <1>6. ASSUME NEW c \in Caps, NEW k, NEW at, NEW asked, NEW job, Redeem(t, c, k, at, asked, job) PROVE Goal
    <2>1. CASE UNCHANGED task
      BY <2>1 DEF Goal
    <2>2. CASE task' # task
      <3> DEFINE w == IF c.family = "proxy" \/ asked = {} THEN c.declared ELSE asked
                 o == job = c.job
                 l == c \in cut
                 e == [Idle EXCEPT !.op = "redeem", !.at = "next", !.cap = c, !.todo = w, !.ours = o, !.late = l]
      <3>1. Goes(t, e)
        BY <1>6, <2>2 DEF Redeem
      <3> HIDE DEF w, o, l
      <3>2. e.sealed = {} /\ e.ver = 0 /\ e.op = "redeem" /\ e.at = "next"
        BY DEF Idle
      <3> HIDE DEF e
      <3> QED
        BY <1>2, <1>3, <3>1, <3>2
    <2> QED
      BY <2>1, <2>2
  <1>7. ASSUME NEW o \in {"revoke", "shred"}, RevokeTenant(t, o) PROVE Goal
    <2> DEFINE z == {c \in Caps : caps[c] # {}}
               e == [Idle EXCEPT !.op = o, !.at = "proxies", !.todo = z]
    <2>1. Goes(t, e)
      BY <1>7 DEF RevokeTenant
    <2> HIDE DEF z
    <2>2. e.sealed = {} /\ e.ver = 0 /\ e.op = o /\ e.at = "proxies"
      BY DEF Idle
    <2> HIDE DEF e
    <2> QED
      BY <1>2, <1>3, <2>1, <2>2
  <1>8. ASSUME RevokeProxies(t) PROVE Goal
    <2>1. CASE Ends(t)
      BY <1>1, <2>1
    <2>2. CASE ~Ends(t)
      <3> DEFINE e == [task[t] EXCEPT !.at = "keys", !.todo = {}]
      <3>1. Goes(t, e)
        BY <1>8, <2>2 DEF RevokeProxies
      <3>2. e \in Call
        BY <1>3, <3>1 DEF Types, TaskTypes, Goes
      <3>3. task[t] \in CallRecord
        BY DEF Types, TaskTypes, Call
      <3>4. Steady(task[t], e)
        BY <3>3 DEF CallRecord, Steady
      <3> QED
        BY <3>1, <3>2, <3>4, SteadySound DEF Types, SealInv, HandInv, Goal
    <2> QED
      BY <2>1, <2>2
  <1> QED
    BY <1>4, <1>5, <1>6, <1>7, <1>8 DEF CapStep, Goal

-----------------------------------------------------------------------------
\* A step of one caller at most, that takes no key away, stores only what it may, and
\* opens only what it may.
Stores(s) == s \in Sealed /\ Bound(s) /\ Readable(s)
Opens(o) == o.born < o.at => svc = "kms" /\ o.raced

LEMMA QuietSeal ==
  ASSUME Types, SealInv, Grows,
         UNCHANGED task \/ \E t \in Tasks : \E b \in Call : Goes(t, b) /\ Sound(b),
         \A n \in Names : \A s \in row'[n] : s \in row[n] \/ Stores(s),
         \A o \in opened' : o \in opened \/ Opens(o)
  PROVE  SealInv'
PROOF
  <1>1. KeyInv'
    BY DEF Grows
  <1>2. HandInv'
    <2>1. CASE UNCHANGED task
      <3>1. ASSUME NEW u \in Tasks PROVE Sound(task[u])'
        <4>1. PICK a \in Call : a = task'[u] /\ Sound(a)
          BY <2>1 DEF Types, TaskTypes, SealInv, HandInv
        <4>2. Sound(a)'
          BY <4>1, SoundStays DEF Types, SealInv
        <4> QED
          BY <4>1, <4>2 DEF Sound
      <3> QED
        BY <3>1 DEF HandInv
    <2>2. ASSUME NEW t \in Tasks, NEW b \in Call, Goes(t, b), Sound(b) PROVE HandInv'
      BY <2>2, HandsStay DEF Types, SealInv
    <2> QED
      BY <2>1, <2>2
  <1>3. StoreInv'
    <2>1. ASSUME NEW n \in Names, NEW s \in row'[n] PROVE Bound(s)' /\ Readable(s)'
      <3>1. Stores(s)
        BY DEF Stores, SealInv, StoreInv, Types, RowTypes
      <3> QED
        BY <3>1, BoundStays, ReadableStays DEF Stores, Types, SealInv
    <2> QED
      BY <2>1 DEF StoreInv
  <1>4. ShredIsFinal'
    BY DEF ShredIsFinal, SealInv, Opens, Grows
  <1> QED
    BY <1>1, <1>2, <1>3, <1>4 DEF SealInv

LEMMA StorePutSeal ==
  ASSUME Types, SealInv, NEW t \in Tasks, StorePut(t), NEW n \in Names, NEW s \in row'[n]
  PROVE  s \in row[n] \/ Stores(s)
PROOF
  <1>1. PICK z \in task[t].sealed : row' = [row EXCEPT ![z.name] = {z}]
    BY DEF StorePut
  <1>2. Bound(z) /\ Readable(z)
    BY DEF SealInv, HandInv, Sound, StorePut
  <1>3. z \in Sealed
    BY DEF Types, TaskTypes, Call, CallRecord
  <1> QED
    BY <1>1, <1>2, <1>3 DEF Stores, Types, RowTypes

LEMMA OpenSealedSeal ==
  ASSUME Types, SealInv, NEW t \in Tasks, OpenSealed(t), NEW o \in opened'
  PROVE  o \in opened \/ Opens(o)
PROOF
  <1>1. PICK s \in task[t].sealed :
          IF UnwrapDek(s) THEN opened' = opened \cup {[born |-> s.born, raced |-> s.raced, at |-> epoch]}
          ELSE UNCHANGED opened
    BY DEF OpenSealed
  <1>2. Bound(s)
    BY DEF SealInv, HandInv, Sound
  <1>3. s.born \in Nat /\ epoch \in Nat
    BY DEF Types, TaskTypes, Call, CallRecord, Sealed, RowTypes
  <1>4. UnwrapDek(s) => s.kek \in Live
    BY DEF UnwrapDek, Live
  <1>5. CASE o = [born |-> s.born, raced |-> s.raced, at |-> epoch] /\ UnwrapDek(s)
    <2>1. o.born = s.born /\ o.raced = s.raced /\ o.at = epoch
      BY <1>5
    <2> QED
      BY <1>2, <1>3, <1>4, <1>5, <2>1 DEF Bound, Opens
  <1> QED
    BY <1>1, <1>5

\* A shred leaves no key, so nothing sealed before can be opened: of what is in a
\* caller's hands only a rotation's, which is noted, may be wrapped again.
LEMMA ShredSeal ==
  ASSUME Types, SealInv, NEW t \in Tasks, Shred(t)
  PROVE  SealInv'
PROOF
  <1> USE DEF Types
  <1>1. CASE UNCHANGED <<keys, epoch>> /\ Ends(t)
    <2>1. Grows /\ UNCHANGED <<row, opened>>
      BY <1>1, SameGrows DEF Shred, SealInv
    <2>2. \E b \in Call : Goes(t, b) /\ Sound(b)
      BY <1>1, EndsSound DEF SealInv
    <2> QED
      BY <2>1, <2>2, QuietSeal
  <1>2. CASE ~(UNCHANGED <<keys, epoch>> /\ Ends(t))
    <2> DEFINE w(u) == {[s EXCEPT !.raced = TRUE] : s \in task[u].sealed}
               b(u) == [task[u] EXCEPT !.sealed = w(u)]
    <2>1. /\ ShredKeys /\ epoch' = epoch + 1 /\ UNCHANGED <<svc, made, row, opened>>
          /\ task' = [u \in Tasks |->
                        IF u = t THEN Idle ELSE IF task[u].op = "rotate" THEN b(u) ELSE task[u]]
      BY <1>2 DEF Shred
    <2>2. keys'.vs = <<>> /\ keys'.next = keys.next
      BY <2>1 DEF ShredKeys, KeyTypes, KeyRing
    <2>3. Versions' = {}
      BY <2>2 DEF Versions
    <2>4. KeyInv'
      BY <2>1, <2>2, <2>3 DEF KeyInv, SealInv
    <2>5. ASSUME NEW s \in Sealed, Bound(s) PROVE Bound(s)' /\ Readable(s)' /\ s.born # epoch'
      <3>1. s.born \in Nat /\ epoch \in Nat /\ s.born <= epoch /\ s.kek <= made
        BY <2>5 DEF Sealed, Bound, RowTypes
      <3>2. s.born # epoch' /\ s.born <= epoch'
        BY <2>1, <3>1
      <3>3. Live' = {}
        BY <2>3 DEF Live
      <3> QED
        BY <2>1, <3>1, <3>2, <3>3 DEF Bound, Readable
    <2>6. ASSUME NEW s, NEW v, svc = "dev" \/ s.raced PROVE Movable(s, v)'
      BY <2>1, <2>3, <2>6 DEF Movable, SealInv, KeyInv
    <2>7. ASSUME NEW s \in Sealed, Bound(s)
          PROVE  [s EXCEPT !.raced = TRUE] \in Sealed /\ Bound([s EXCEPT !.raced = TRUE])
                 /\ [s EXCEPT !.raced = TRUE].raced
      BY <2>7 DEF Bound, Sealed
    <2>8. ASSUME NEW a \in Call, Sound(a), a.at = "rewrap" => \A s \in a.sealed : s.raced PROVE Sound(a)'
      <3>1. a \in CallRecord /\ Fits(a)
        BY DEF Call
      <3>2. a.sealed \subseteq Sealed /\ (a.op = "rotate" => a.todo \subseteq Sealed)
        BY <3>1 DEF CallRecord, Fits
      <3>3. \A s \in a.sealed : Bound(s)' /\ Readable(s)'
        BY <2>5, <2>8, <3>2 DEF Sound
      <3>4. a.op = "rotate" => \A s \in a.todo : Bound(s)'
        BY <2>5, <2>8, <3>2 DEF Sound
      <3>5. a.at = "rewrap" => \A s \in a.sealed : Movable(s, a.ver)'
        BY <2>6, <2>8
      <3> QED
        BY <2>1, <2>2, <2>8, <3>3, <3>4, <3>5 DEF Sound
    <2>9. ASSUME NEW u \in Tasks
          PROVE  \E a \in Call : a = task'[u] /\ Sound(a) /\ (a.at = "rewrap" => \A s \in a.sealed : s.raced)
      <3>1. task[u] \in Call /\ task[u] \in CallRecord /\ Fits(task[u]) /\ Sound(task[u])
        BY DEF TaskTypes, Call, SealInv, HandInv
      <3>2. CASE u = t
        <4>1. Idle.at = "idle" /\ Sound(Idle)
          BY <3>1, IdleIsSteady, SteadySound DEF SealInv, Idle
        <4> QED
          BY <2>1, <3>2, <4>1, IdleFits
      <3>3. CASE u # t /\ task[u].op = "rotate"
        <4>1. task'[u] = b(u)
          BY <2>1, <3>3
        <4>2. task'[u] \in Call
          BY ShredCalm DEF TaskTypes
        <4>3. task[u].sealed \subseteq Sealed /\ \A s \in task[u].sealed : Bound(s)
          BY <3>1 DEF CallRecord, Sound
        <4>4. \A s \in w(u) : Bound(s) /\ s.raced
          BY <2>7, <4>3
        <4>5. task[u].at # "store" \/ \A s \in w(u) : Readable(s)
          <5>1. ASSUME NEW s \in task[u].sealed, task[u].at = "store" PROVE Readable([s EXCEPT !.raced = TRUE])
            <6> DEFINE z == [s EXCEPT !.raced = TRUE]
            <6>1. z.born = s.born /\ z.kek = s.kek /\ z.ver = s.ver
              BY <4>3 DEF Sealed
            <6>2. Readable(s)
              BY <3>1, <5>1 DEF Sound
            <6> HIDE DEF z
            <6>3. Readable(z)
              BY <6>1, <6>2 DEF Readable, UnwrapDek
            <6> QED
              BY <6>3 DEF z
          <5> QED
            BY <5>1
        <4> HIDE DEF w
        <4>6. /\ b(u).op = task[u].op /\ b(u).at = task[u].at /\ b(u).ver = task[u].ver
              /\ b(u).todo = task[u].todo /\ b(u).sealed = w(u)
          BY <3>1 DEF CallRecord
        <4> HIDE DEF b
        <4>7. \A s \in w(u) : task[u].at = "rewrap" => Movable(s, task[u].ver)
          <5>1. ASSUME NEW s \in task[u].sealed, task[u].at = "rewrap"
                PROVE  Movable([s EXCEPT !.raced = TRUE], task[u].ver)
            <6> DEFINE z == [s EXCEPT !.raced = TRUE]
            <6>1. z.born = s.born /\ z.raced
              BY <4>3 DEF Sealed
            <6>2. Movable(s, task[u].ver)
              BY <3>1, <5>1 DEF Sound
            <6> HIDE DEF z
            <6>3. Movable(z, task[u].ver)
              BY <6>1, <6>2 DEF Movable
            <6> QED
              BY <6>3 DEF z
          <5> QED
            BY <5>1 DEF w
        <4>8. Sound(b(u))
          BY <3>1, <4>4, <4>5, <4>6, <4>7 DEF Sound
        <4> QED
          BY <4>1, <4>2, <4>4, <4>6, <4>8
      <3>4. CASE u # t /\ task[u].op # "rotate"
        <4>1. task'[u] = task[u]
          BY <2>1, <3>4
        <4>2. task[u].at # "rewrap"
          BY <3>1, <3>4 DEF CallRecord, Ops, Fits
        <4> QED
          BY <3>1, <4>1, <4>2
      <3> QED
        BY <3>2, <3>3, <3>4
    <2> HIDE DEF w, b
    <2>10. HandInv'
      <3>1. ASSUME NEW u \in Tasks PROVE Sound(task[u])'
        <4>1. PICK a \in Call : a = task'[u] /\ Sound(a) /\ (a.at = "rewrap" => \A s \in a.sealed : s.raced)
          BY <2>9
        <4>2. Sound(a)'
          BY <2>8, <4>1
        <4> QED
          BY <4>1, <4>2 DEF Sound
      <3> QED
        BY <3>1 DEF HandInv
    <2>11. StoreInv'
      <3>1. ASSUME NEW n \in Names, NEW s \in row'[n] PROVE Bound(s)' /\ Readable(s)'
        BY <2>1, <2>5 DEF SealInv, StoreInv, RowTypes
      <3> QED
        BY <3>1 DEF StoreInv
    <2> QED
      BY <2>1, <2>4, <2>10, <2>11 DEF SealInv, ShredIsFinal
  <1> QED
    BY <1>1, <1>2

LEMMA SealStep == Types /\ SealInv /\ [BrokerNext]_brokerVars => SealInv'
PROOF
  <1> SUFFICES ASSUME Types, SealInv, [BrokerNext]_brokerVars PROVE SealInv'
    OBVIOUS
  <1> USE DEF Types, SealInv
  <1>1. ASSUME NEW t \in Tasks, \E b \in Call : Goes(t, b) /\ Sound(b), Grows, UNCHANGED <<row, opened>>
        PROVE  SealInv'
    BY <1>1, QuietSeal
  <1>2. ASSUME UNCHANGED <<svc, keys, made, epoch, task, row, opened>> PROVE SealInv'
    BY <1>2, SameGrows, QuietSeal
  <1>3. ASSUME UNCHANGED brokerVars PROVE SealInv'
    BY <1>2, <1>3 DEF brokerVars
  <1>4. ASSUME Provision PROVE SealInv'
    <2>1. Grows /\ UNCHANGED <<task, row, opened>>
      BY <1>4, ProvisionGrows DEF Provision
    <2> QED
      BY <2>1, QuietSeal
  <1>5. ASSUME Tick PROVE SealInv'
    BY <1>2, <1>5 DEF Tick
  <1>6. ASSUME NEW n \in Names, DeleteSecret(n) PROVE SealInv'
    <2>1. Grows /\ UNCHANGED <<task, opened>>
      BY <1>6, SameGrows DEF DeleteSecret
    <2>2. \A m \in Names : \A s \in row'[m] : s \in row[m]
      BY <1>6 DEF DeleteSecret, RowTypes
    <2> QED
      BY <2>1, <2>2, QuietSeal
  <1>7. ASSUME NEW c \in Caps, NEW k,
               Revoke(c) \/ RevokeJob(c.job) \/ Withdraw(c.family, c.holder) \/ Enrol(c.family, k, c.holder)
        PROVE  SealInv'
    BY <1>2, <1>7 DEF Revoke, RevokeJob, Withdraw, Enrol
  <1>8. ASSUME NEW t \in Tasks, NEW n \in Names, PutSecret(t, n) PROVE SealInv'
    <2>1. Grows /\ UNCHANGED <<row, opened>>
      BY <1>8, SameGrows DEF PutSecret
    <2> QED
      BY <1>1, <1>8, <2>1, PutSecretSound
  <1>9. ASSUME NEW t \in Tasks,
               Wrap(t) \/ StoreGet(t) \/ StoreList(t) \/ RewrapNext(t) \/ RewrapUnwrap(t) \/ MintNames(t)
        PROVE  SealInv'
    <2>1. Grows /\ UNCHANGED <<row, opened>>
      BY <1>9, SameGrows DEF Wrap, StoreGet, StoreList, RewrapNext, RewrapUnwrap, MintNames
    <2>2. \E b \in Call : Goes(t, b) /\ Sound(b)
      BY <1>9, WrapSound, StoreGetSound, StoreListSound, RewrapNextSound, RewrapUnwrapSound, MintNamesSound
    <2> QED
      BY <1>1, <2>1, <2>2
  <1>10. ASSUME NEW t \in Tasks, StorePut(t) PROVE SealInv'
    <2>1. Grows /\ UNCHANGED opened
      BY <1>10, SameGrows DEF StorePut
    <2>2. \A n \in Names : \A s \in row'[n] : s \in row[n] \/ Stores(s)
      BY <1>10, StorePutSeal
    <2>3. \E b \in Call : Goes(t, b) /\ Sound(b)
      BY <1>10, StorePutSound
    <2> QED
      BY <2>1, <2>2, <2>3, QuietSeal
  <1>11. ASSUME NEW t \in Tasks, OpenSealed(t) PROVE SealInv'
    <2>1. Grows /\ UNCHANGED row
      BY <1>11, SameGrows DEF OpenSealed
    <2>2. \A o \in opened' : o \in opened \/ Opens(o)
      BY <1>11, OpenSealedSeal
    <2>3. \E b \in Call : Goes(t, b) /\ Sound(b)
      BY <1>11, OpenSealedSound
    <2> QED
      BY <2>1, <2>2, <2>3, QuietSeal
  <1>12. ASSUME NEW t \in Tasks, RotateTenant(t) PROVE SealInv'
    <2>1. Grows /\ UNCHANGED <<row, opened>>
      BY <1>12, RotateGrows DEF RotateTenant
    <2> QED
      BY <1>1, <1>12, <2>1, RotateTenantSound
  <1>13. ASSUME NEW t \in Tasks, KeyServiceFails(t) PROVE SealInv'
    <2>1. Grows /\ UNCHANGED <<row, opened>>
      BY <1>13, SameGrows DEF KeyServiceFails
    <2>2. \E b \in Call : Goes(t, b) /\ Sound(b)
      BY <1>13, EndsSound DEF KeyServiceFails
    <2> QED
      BY <1>1, <2>1, <2>2
  <1>14. ASSUME NEW t \in Tasks, CapStep(t) PROVE SealInv'
    <2>1. UNCHANGED <<svc, keys, made, epoch, row, opened>>
      BY <1>14 DEF CapStep, Mint, MintInsert, Redeem, Deliver, RevokeTenant, RevokeProxies
    <2>2. Grows
      BY <2>1, SameGrows
    <2> QED
      BY <1>1, <1>2, <1>14, <2>1, <2>2, CapStepSound
  <1>15. ASSUME NEW t \in Tasks, Shred(t) PROVE SealInv'
    BY <1>15, ShredSeal
  <1> QED
    BY <1>3, <1>4, <1>5, <1>6, <1>7, <1>8, <1>9, <1>10, <1>11, <1>12, <1>13, <1>14, <1>15
    DEF BrokerNext, Redeems, Rotates, Breaks, CapStep

LEMMA InitSeal ==
  ASSUME NEW services \in SUBSET {"dev", "kms"}, NEW before \in SUBSET Insiders, NEW calls0,
         BrokerInit(services, before, calls0)
  PROVE  SealInv
PROOF
  <1> DEFINE k == [ver |-> 1, kek |-> 1]
  <1>1. keys = [known |-> TRUE, vs |-> <<k>>, next |-> 2] /\ made = 1 /\ epoch = 0 /\ svc \in {"dev", "kms"}
    BY DEF BrokerInit
  <1>2. k.ver = 1 /\ k.kek = 1
    OBVIOUS
  <1> HIDE DEF k
  <1>3. keys.vs = <<k>> /\ keys.next = 2
    BY <1>1
  <1>4. Versions = {k}
    BY <1>3 DEF Versions
  <1>5. KeyInv
    BY <1>1, <1>2, <1>3, <1>4 DEF KeyInv
  <1>6. HandInv
    <2>1. ASSUME NEW u \in Tasks PROVE Sound(task[u])
      <3>1. task[u].sealed = {} /\ task[u].op = "idle" /\ task[u].at = "idle" /\ task[u].ver = 0
        BY DEF BrokerInit, Idle
      <3> QED
        BY <1>3, <3>1 DEF Sound
    <2> QED
      BY <2>1 DEF HandInv
  <1>7. StoreInv
    <2>1. ASSUME NEW n \in Names, NEW s \in row[n] PROVE Bound(s) /\ Readable(s)
      <3>1. s.ver = 1 /\ s.kek = 1 /\ s.born = 0
        BY DEF BrokerInit
      <3> QED
        BY <1>1, <1>2, <1>4, <3>1 DEF Bound, Readable, UnwrapDek
    <2> QED
      BY <2>1 DEF StoreInv
  <1>8. ShredIsFinal
    BY DEF ShredIsFinal, BrokerInit
  <1> QED
    BY <1>5, <1>6, <1>7, <1>8 DEF SealInv

-----------------------------------------------------------------------------
\* On either key service, whatever puts, rotations, redemptions and shreds race and
\* whenever the key service fails: what was sealed before a crypto-shred is not opened
\* after it, but for what a kms rotation was wrapping again while the shred overtook it;
\* and every stored value of the present epoch can be opened at every moment, in the
\* middle of a rotation too (rotate_tenant, rewrap, shred_tenant, wrap_dek, unwrap_dek).
THEOREM KeysGovernSealedValues ==
  ASSUME NEW CONSTANT services \in SUBSET {"dev", "kms"}, NEW CONSTANT before \in SUBSET Insiders,
         NEW CONSTANT calls0
  PROVE  BrokerSpec(services, before, calls0) => [](ShredIsFinal /\ StoredIsReadable)
PROOF
  <1>1. BrokerInit(services, before, calls0) => Types /\ SealInv
    BY InitTypes, InitSeal
  <1>2. Types /\ SealInv /\ [BrokerNext]_brokerVars => Types' /\ SealInv'
    BY TypesStep, SealStep
  <1>3. SealInv => ShredIsFinal /\ StoredIsReadable
    BY DEF SealInv, StoreInv, Readable, StoredIsReadable
  <1> QED
    BY <1>1, <1>2, <1>3, PTL DEF BrokerSpec

\* On either key service, whatever calls race, a capability hands its values over at
\* most once, to nobody outside its author's class, and not to a redemption that began
\* after a revocation of it had returned (redeem, mint, revoke_tenant, revoke_job).
THEOREM CapabilitiesAreSpentOnce ==
  ASSUME NEW CONSTANT services, NEW CONSTANT before \in SUBSET Insiders, NEW CONSTANT calls0
  PROVE  BrokerSpec(services, before, calls0) => []SpentOnce
PROOF
  <1>1. BrokerInit(services, before, calls0) => Types /\ SpendInv
    BY InitTypes, InitSpend
  <1>2. Types /\ SpendInv /\ [BrokerNext]_brokerVars => Types' /\ SpendInv'
    BY TypesStep, SpendStep
  <1>3. Types /\ SpendInv => SpentOnce
    <2>1. ASSUME Types, SpendInv, NEW c \in Caps
          PROVE  told[c].times <= (IF c.outsider THEN 0 ELSE 1) /\ ~told[c].late
      BY <2>1 DEF SpendInv, ToldInv, Types, CapTypes
    <2> QED
      BY <2>1 DEF SpentOnce
  <1> QED
    BY <1>1, <1>2, <1>3, PTL DEF BrokerSpec

-----------------------------------------------------------------------------
\* The package proxy.  Its requests, by where they are in the handler.
ReqPlaces == {"idle", "inject", "lock", "redeem", "fetch", "reassert", "send", "answer", "done"}
ReqRecord ==
  [at : ReqPlaces, up : Upstreams \cup {"-"}, slot : Nat, cred : SUBSET UNION {CredentialOf[u] : u \in Upstreams},
   hops : Nat, late : BOOLEAN, gone : BOOLEAN]
SlotStates == {"pending", "noauth", "held", "failed", "invalidated"}

\* A request that is under way goes where the grant reaches.  It has a credential only
\* once it was answered one, for the upstream it goes to; if it came late the capability
\* had been revoked by then.
ReqInv(q, revoked) ==
  /\ q.at \notin {"idle", "done"} => q.up \in Granted /\ q.up \in Upstreams
  /\ q.at \in {"idle", "done"} => q.cred = {}
  /\ q.at \in {"inject", "lock", "redeem", "fetch", "reassert"} => q.cred = {}
  /\ q.cred \in {{}, CredentialOf[q.up]}
  /\ q.late => Cap \in revoked
  /\ q.cred # {} => ~q.late
  /\ q.at # "done" => ~q.gone

\* The job's end takes the slot away after the grant, and no slot comes back.
SlotInv == slotOf \in SUBSET Nat /\ slots \in Seq(SlotStates) /\ (ending = "ended" => slotOf = {})

ReqTypes == req \in [Requests -> ReqRecord] /\ audited \in [Requests -> Nat]
RequestsInv == ReqTypes /\ AuditedOnce /\ \A r \in Requests : ReqInv(req[r], cut)
ProxyInv == SlotInv /\ RequestsInv /\ CredentialStaysHome

\* A request goes on with q.
LEMMA RequestGoesOn ==
  ASSUME RequestsInv, NEW r \in Requests, NEW q \in ReqRecord, ReqInv(q, cut), q.at # "done", req[r].at # "done",
         req' = [req EXCEPT ![r] = q], audited' = audited, cut' = cut
  PROVE  RequestsInv'
PROOF
  <1>1. ReqTypes'
    BY DEF RequestsInv, ReqTypes
  <1>2. ASSUME NEW u \in Requests PROVE req'[u] = IF u = r THEN q ELSE req[u]
    BY DEF RequestsInv, ReqTypes
  <1>3. AuditedOnce'
    BY <1>2 DEF RequestsInv, AuditedOnce
  <1>4. ASSUME NEW u \in Requests PROVE ReqInv(req'[u], cut')
    BY <1>2 DEF RequestsInv
  <1> QED
    BY <1>1, <1>3, <1>4 DEF RequestsInv

HungUp == [Returned EXCEPT !.gone = TRUE]

LEMMA ReturnedFacts ==
  /\ Returned \in ReqRecord /\ Returned.at = "done" /\ Returned.cred = {} /\ ~Returned.late /\ ~Returned.gone
  /\ HungUp \in ReqRecord /\ HungUp.at = "done" /\ HungUp.cred = {} /\ ~HungUp.late /\ HungUp.gone
BY DEF HungUp, Returned, Waiting, ReqRecord, ReqPlaces

\* A request ends with a record of it, or without one when the client is gone.
LEMMA RequestEnds ==
  ASSUME RequestsInv, NEW r \in Requests, req[r].at # "done", cut' = cut,
         Refuses(r) \/ (req' = [req EXCEPT ![r] = HungUp] /\ audited' = audited)
  PROVE  RequestsInv'
PROOF
  <1>0. ReqTypes /\ audited[r] = 0 /\ audited[r] + 1 = 1
    BY DEF RequestsInv, AuditedOnce
  <1>1. PICK q \in {Returned, HungUp}, n \in {0, 1} :
          /\ req' = [req EXCEPT ![r] = q] /\ audited' = [audited EXCEPT ![r] = n]
          /\ n = IF q = Returned THEN 1 ELSE 0
    <2>1. CASE Refuses(r)
      BY <1>0, <2>1 DEF Refuses
    <2>2. CASE ~Refuses(r)
      <3>1. audited' = [audited EXCEPT ![r] = 0]
        BY <1>0, <2>2 DEF ReqTypes
      <3>2. HungUp # Returned
        BY ReturnedFacts
      <3> QED
        BY <2>2, <3>1, <3>2
    <2> QED
      BY <2>1, <2>2
  <1>2. q \in ReqRecord /\ n \in Nat /\ q.at = "done" /\ q.cred = {} /\ ~q.late /\ (n = IF ~q.gone THEN 1 ELSE 0)
    BY <1>1, ReturnedFacts
  <1>3. ReqTypes'
    BY <1>0, <1>1, <1>2 DEF ReqTypes
  <1>4. ASSUME NEW u \in Requests
        PROVE  req'[u] = (IF u = r THEN q ELSE req[u]) /\ audited'[u] = IF u = r THEN n ELSE audited[u]
    BY <1>0, <1>1 DEF ReqTypes
  <1>5. AuditedOnce'
    <2>1. ASSUME NEW u \in Requests
          PROVE  audited'[u] = IF req'[u].at = "done" /\ ~req'[u].gone THEN 1 ELSE 0
      BY <1>2, <1>4 DEF RequestsInv, AuditedOnce
    <2> QED
      BY <2>1 DEF AuditedOnce
  <1>6. ASSUME NEW u \in Requests PROVE ReqInv(req'[u], cut')
    <2>1. ReqInv(q, cut)
      BY <1>2 DEF ReqInv
    <2> QED
      BY <1>4, <2>1 DEF RequestsInv
  <1> QED
    BY <1>3, <1>5, <1>6 DEF RequestsInv

\* What joins cut leaves the requests as they are.
LEMMA RequestsSeeCuts ==
  ASSUME RequestsInv, UNCHANGED <<req, audited>>, cut \subseteq cut'
  PROVE  RequestsInv'
BY DEF RequestsInv, ReqTypes, AuditedOnce, ReqInv

\* The handler, up to the credential.
LEMMA HandleKeeps ==
  ASSUME RequestsInv, NEW r \in Requests, NEW up \in Upstreams, NEW method, NEW token, Handle(r, up, method, token), cut' = cut
  PROVE  RequestsInv'
PROOF
  <1>0. req[r].at = "idle"
    BY DEF Handle
  <1>1. CASE Refuses(r)
    BY <1>0, <1>1, RequestEnds
  <1>2. CASE ~Refuses(r)
    <2> DEFINE q == [Waiting EXCEPT !.at = "inject", !.up = up]
    <2>1. req' = [req EXCEPT ![r] = q] /\ audited' = audited /\ up \in Granted
      BY <1>2 DEF Handle
    <2>2. q \in ReqRecord /\ q.at = "inject" /\ q.up = up /\ q.cred = {} /\ ~q.late /\ ~q.gone
      BY DEF Waiting, ReqRecord, ReqPlaces
    <2> HIDE DEF q
    <2>3. ReqInv(q, cut)
      BY <2>1, <2>2 DEF ReqInv
    <2> QED
      BY <1>0, <2>1, <2>2, <2>3, RequestGoesOn
  <1> QED
    BY <1>1, <1>2

\* inject reads the registry: after the job's end there is no slot to be late for.
LEMMA InjectKeeps ==
  ASSUME SlotInv, RequestsInv, NEW r \in Requests, Inject(r), cut' = cut
  PROVE  RequestsInv'
PROOF
  <1> DEFINE old == req[r]
  <1>0. old \in ReqRecord /\ ReqInv(old, cut) /\ old.at = "inject" /\ req \in [Requests -> ReqRecord]
    BY DEF Inject, RequestsInv, ReqTypes
  <1>1. CASE CredentialOf[old.up] = {}
    <2> DEFINE q == [old EXCEPT !.at = "send", !.cred = {}]
    <2>1. req' = [req EXCEPT ![r] = q] /\ audited' = audited
      BY <1>0, <1>1 DEF Inject
    <2> HIDE DEF old
    <2>2. q \in ReqRecord /\ q.at = "send" /\ q.up = old.up /\ q.cred = {} /\ q.late = old.late /\ q.gone = old.gone
      BY <1>0 DEF ReqRecord, ReqPlaces
    <2> HIDE DEF q
    <2>3. ReqInv(q, cut)
      BY <1>0, <2>2 DEF ReqInv
    <2> QED
      BY <1>0, <2>1, <2>2, <2>3, RequestGoesOn DEF old
  <1>2. CASE CredentialOf[old.up] # {} /\ slotOf = {}
    BY <1>0, <1>2, RequestEnds DEF Inject
  <1>3. CASE CredentialOf[old.up] # {} /\ slotOf # {}
    <2> DEFINE s == CHOOSE x \in slotOf : TRUE
               l == Cap \in cut \/ ending = "ended"
               q == [old EXCEPT !.at = "lock", !.slot = s, !.late = l]
    <2>1. req' = [req EXCEPT ![r] = q] /\ audited' = audited
      BY <1>0, <1>3 DEF Inject
    <2>2. s \in Nat /\ l \in BOOLEAN /\ (l => Cap \in cut)
      BY <1>3 DEF SlotInv
    <2> HIDE DEF old, s, l
    <2>3. q \in ReqRecord /\ q.at = "lock" /\ q.up = old.up /\ q.cred = old.cred /\ q.late = l /\ q.gone = old.gone
      BY <1>0, <2>2 DEF ReqRecord, ReqPlaces
    <2> HIDE DEF q
    <2>4. ReqInv(q, cut)
      BY <1>0, <2>2, <2>3 DEF ReqInv
    <2> QED
      BY <1>0, <2>1, <2>3, <2>4, RequestGoesOn DEF old
  <1> QED
    BY <1>1, <1>2, <1>3

\* A request that only moves to another place before it has a credential.
LEMMA RequestMoves ==
  ASSUME RequestsInv, NEW r \in Requests, NEW at \in {"redeem", "fetch", "reassert"},
         req[r].at \in {"lock", "redeem", "fetch"}, req' = [req EXCEPT ![r].at = at], audited' = audited, cut' = cut
  PROVE  RequestsInv'
PROOF
  <1> DEFINE old == req[r]
             q == [old EXCEPT !.at = at]
  <1>0. old \in ReqRecord /\ ReqInv(old, cut) /\ req \in [Requests -> ReqRecord] /\ old.at \in {"lock", "redeem", "fetch"}
    BY DEF RequestsInv, ReqTypes
  <1>1. req' = [req EXCEPT ![r] = q]
    BY <1>0
  <1> HIDE DEF old
  <1>2. q \in ReqRecord /\ q.at = at /\ q.up = old.up /\ q.cred = old.cred /\ q.late = old.late /\ q.gone = old.gone
    BY <1>0 DEF ReqRecord, ReqPlaces
  <1> HIDE DEF q
  <1>3. ReqInv(q, cut)
    BY <1>0, <1>2 DEF ReqInv
  <1>4. q.at # "done" /\ req[r].at # "done"
    BY <1>0, <1>2 DEF old
  <1> QED
    BY <1>1, <1>2, <1>3, <1>4, RequestGoesOn

\* The broker answers for a capability only while it is not revoked: one that was cut
\* before the request began cannot be spent.
LEMMA AnswerKeeps ==
  ASSUME RequestsInv, CutInv, NEW r \in Requests, AnswerSlot(r), cut' = cut
  PROVE  RequestsInv'
PROOF
  <1> DEFINE old == req[r]
             c == CredentialOf[old.up]
  <1>0. old \in ReqRecord /\ ReqInv(old, cut) /\ old.at = "reassert" /\ req \in [Requests -> ReqRecord]
    BY DEF AnswerSlot, RequestsInv, ReqTypes
  <1>1. CASE Refuses(r)
    BY <1>0, <1>1, RequestEnds
  <1>2. CASE ~Refuses(r)
    <2> DEFINE q == [old EXCEPT !.at = "send", !.cred = c]
    <2>1. StillAuthorised /\ req' = [req EXCEPT ![r] = q] /\ audited' = audited
      BY <1>0, <1>2 DEF AnswerSlot
    <2>2. Cap \notin cut
      BY <2>1 DEF StillAuthorised, Asserted, CutInv, Revoked
    <2>3. c \in SUBSET UNION {CredentialOf[u] : u \in Upstreams}
      BY <1>0 DEF ReqInv
    <2>4. ~old.late
      BY <1>0, <2>2 DEF ReqInv
    <2> HIDE DEF old, c
    <2>5. q \in ReqRecord /\ q.at = "send" /\ q.up = old.up /\ q.cred = c /\ q.late = old.late /\ q.gone = old.gone
      BY <1>0, <2>3 DEF ReqRecord, ReqPlaces
    <2> HIDE DEF q
    <2>6. ReqInv(q, cut)
      BY <1>0, <2>4, <2>5 DEF ReqInv, c
    <2> QED
      BY <1>0, <2>1, <2>5, <2>6, RequestGoesOn DEF old
  <1> QED
    BY <1>1, <1>2

\* What goes out is what the request has in hand.
LEMMA SendKeeps ==
  ASSUME RequestsInv, CredentialStaysHome, NEW r \in Requests, Send(r), cut' = cut
  PROVE  RequestsInv' /\ CredentialStaysHome'
PROOF
  <1> DEFINE old == req[r]
             q == [old EXCEPT !.at = "answer"]
             out == [up |-> old.up, cred |-> old.cred, late |-> old.late /\ old.cred # {}]
  <1>0. old \in ReqRecord /\ ReqInv(old, cut) /\ old.at = "send" /\ req \in [Requests -> ReqRecord]
    BY DEF Send, RequestsInv, ReqTypes
  <1>1. req' = [req EXCEPT ![r] = q] /\ audited' = audited /\ sent' = sent \cup {out}
    BY <1>0 DEF Send
  <1> HIDE DEF old
  <1>2. q \in ReqRecord /\ q.at = "answer" /\ q.up = old.up /\ q.cred = old.cred /\ q.late = old.late /\ q.gone = old.gone
    BY <1>0 DEF ReqRecord, ReqPlaces
  <1>3. out.up \in Granted /\ out.cred \in {{}, CredentialOf[out.up]} /\ ~out.late
    BY <1>0 DEF ReqInv
  <1> HIDE DEF q, out
  <1>4. ReqInv(q, cut)
    BY <1>0, <1>2 DEF ReqInv
  <1>5. RequestsInv'
    BY <1>0, <1>1, <1>2, <1>4, RequestGoesOn DEF old
  <1> QED
    BY <1>1, <1>3, <1>5 DEF CredentialStaysHome

\* A redirect starts over, without the credential.
LEMMA RedirectKeeps ==
  ASSUME RequestsInv, NEW r \in Requests, NEW up \in Upstreams, Redirected(r, up), cut' = cut
  PROVE  RequestsInv'
PROOF
  <1> DEFINE old == req[r]
  <1>0. old \in ReqRecord /\ ReqInv(old, cut) /\ old.at = "answer" /\ req \in [Requests -> ReqRecord]
    BY DEF Redirected, RequestsInv, ReqTypes
  <1>1. CASE Refuses(r)
    BY <1>0, <1>1, RequestEnds
  <1>2. CASE ~Refuses(r)
    <2> DEFINE n == old.hops + 1
               q == [old EXCEPT !.at = "inject", !.up = up, !.cred = {}, !.hops = n]
    <2>1. req' = [req EXCEPT ![r] = q] /\ audited' = audited /\ up \in Granted
      BY <1>0, <1>2 DEF Redirected, NextHop
    <2>2. n \in Nat
      BY <1>0 DEF ReqRecord
    <2> HIDE DEF old, n
    <2>3. q \in ReqRecord /\ q.at = "inject" /\ q.up = up /\ q.cred = {} /\ q.late = old.late /\ q.gone = old.gone
      BY <1>0, <2>2 DEF ReqRecord, ReqPlaces
    <2> HIDE DEF q
    <2>4. ReqInv(q, cut)
      BY <1>0, <2>1, <2>3 DEF ReqInv
    <2> QED
      BY <1>0, <2>1, <2>3, <2>4, RequestGoesOn DEF old
  <1> QED
    BY <1>1, <1>2

-----------------------------------------------------------------------------
\* The broker's invariants hold under the proxy's steps as well: the proxy's redemption
\* only wears the capability, and what an operator does is a step of the broker.
LEMMA OperatesIsBroker ==
  ASSUME Operates
  PROVE  BrokerNext
BY ProxyAssumption DEF Operates, BrokerNext

LEMMA OperatesCuts ==
  ASSUME Operates
  PROVE  cut \subseteq cut'
BY DEF Operates, Breaks, RevokeTenant, RevokeProxies, Shred, Revoke, RevokeJob, Withdraw, Tick

LEMMA BurnKeepsBroker ==
  ASSUME Types, SpendInv, Burn(Cap), UNCHANGED <<keys, made, row, task, now, epoch, minted, cut, told>>
  PROVE  Types' /\ SpendInv'
PROOF
  <1>1. caps' \in [Caps -> SUBSET CapRecord] /\ WearStep
    BY ProxyAssumption, BurnWears DEF Types, WearStep
  <1>2. \A u \in Tasks : Calm(task[u], task'[u])
    BY DEF Calm, Mild
  <1>3. SpendInv'
    BY <1>1, <1>2, RevokeSpend
  <1>4. Types'
    BY <1>1 DEF Types, KeyTypes, RowTypes, TaskTypes, CapTypes
  <1> QED
    BY <1>3, <1>4

LEMMA BrokerUnderProxy ==
  ASSUME Types, SpendInv, [ProxyNext]_<<brokerVars, proxyVars>>
  PROVE  Types' /\ SpendInv'
PROOF
  <1>1. CASE UNCHANGED brokerVars
    BY <1>1, TypesStep, SpendStep
  <1>2. CASE Operates
    BY <1>2, OperatesIsBroker, TypesStep, SpendStep
  <1>3. ASSUME NEW r \in Requests, RedeemSlot(r), UNCHANGED <<svc, keys, made, row, signer, task, now, calls, epoch, minted, cut, opened, told>>
        PROVE  Types' /\ SpendInv'
    <2>1. CASE Burn(Cap)
      BY <1>3, <2>1, BurnKeepsBroker
    <2>2. CASE UNCHANGED caps
      BY <1>1, <1>3, <2>2 DEF brokerVars
    <2> QED
      BY <1>3, <2>1, <2>2 DEF RedeemSlot
  <1> QED
    BY <1>1, <1>2, <1>3 DEF ProxyNext

-----------------------------------------------------------------------------
\* The slots.
LEMMA SlotStays ==
  ASSUME SlotInv, UNCHANGED <<slotOf, ending>>,
         \/ UNCHANGED slots
         \/ \E i, s : s \in SlotStates /\ slots' = [slots EXCEPT ![i] = s]
  PROVE  SlotInv'
PROOF
  <1>1. CASE UNCHANGED slots
    BY <1>1 DEF SlotInv
  <1>2. ASSUME NEW i, NEW s \in SlotStates, slots' = [slots EXCEPT ![i] = s] PROVE slots' \in Seq(SlotStates)
    <2>1. slots \in Seq(SlotStates)
      BY DEF SlotInv
    <2>2. PICK n \in Nat : slots \in [1..n -> SlotStates]
      BY <2>1
    <2>3. slots' \in [1..n -> SlotStates]
      BY <1>2, <2>2
    <2> QED
      BY <2>3
  <1> QED
    BY <1>1, <1>2 DEF SlotInv

LEMMA PutKeeps ==
  ASSUME SlotInv, NEW s \in SlotStates, PutSlot(s)
  PROVE  SlotInv'
BY DEF SlotInv, PutSlot

\* A step of a request.
LEMMA ServesKeeps ==
  ASSUME ProxyInv, CutInv, cut' = cut, NEW r \in Requests, Serves(r) \/ RedeemSlot(r)
  PROVE  ProxyInv'
PROOF
  <1>0. SlotInv /\ RequestsInv /\ CredentialStaysHome
    BY DEF ProxyInv
  <1>1. ASSUME sent' = sent PROVE CredentialStaysHome'
    BY <1>0, <1>1 DEF CredentialStaysHome
  <1>2. ASSUME NEW up \in Upstreams, NEW method, NEW token, Handle(r, up, method, token) PROVE ProxyInv'
    BY <1>0, <1>1, <1>2, HandleKeeps, SlotStays DEF ProxyInv, Handle
  <1>3. CASE Inject(r)
    BY <1>0, <1>1, <1>3, InjectKeeps, SlotStays DEF ProxyInv, Inject
  <1>4. CASE LockSlot(r)
    <2> DEFINE at == IF slots[req[r].slot] = "pending" THEN "redeem" ELSE "reassert"
    <2>1. req' = [req EXCEPT ![r].at = at] /\ req[r].at = "lock" /\ UNCHANGED <<slotOf, slots, ending, sent, audited>>
      BY <1>4 DEF LockSlot
    <2>2. at \in {"redeem", "fetch", "reassert"}
      OBVIOUS
    <2> HIDE DEF at
    <2> QED
      BY <2>1, <2>2, <1>0, <1>1, RequestMoves, SlotStays DEF ProxyInv
  <1>5. CASE FetchSlot(r)
    <2> DEFINE s == IF \A n \in Cap.declared : \E v \in row[n] : UnwrapDek(v) THEN "held" ELSE "failed"
    <2>1. /\ req' = [req EXCEPT ![r].at = "reassert"] /\ req[r].at = "fetch" /\ UNCHANGED <<slotOf, ending, sent, audited>>
          /\ slots' = [slots EXCEPT ![req[r].slot] = s]
      BY <1>5 DEF FetchSlot
    <2>2. s \in SlotStates
      BY DEF SlotStates
    <2> HIDE DEF s
    <2>3. RequestsInv'
      BY <2>1, <1>0, RequestMoves
    <2>4. SlotInv'
      BY <2>1, <2>2, <1>0, SlotStays
    <2> QED
      BY <2>1, <2>3, <2>4, <1>1 DEF ProxyInv
  <1>6. CASE RedeemSlot(r)
    <2>1. req[r].at = "redeem" /\ UNCHANGED <<slotOf, ending, sent, audited>>
      BY <1>6 DEF RedeemSlot
    <2>2. \E at \in {"redeem", "fetch", "reassert"} : req' = [req EXCEPT ![r].at = at]
      BY <1>6 DEF RedeemSlot
    <2>3. RequestsInv'
      BY <2>1, <2>2, <1>0, RequestMoves
    <2>4. UNCHANGED slots \/ slots' = [slots EXCEPT ![req[r].slot] = "failed"]
      BY <1>6 DEF RedeemSlot
    <2>5. "failed" \in SlotStates
      BY DEF SlotStates
    <2>6. SlotInv'
      BY <2>1, <2>4, <2>5, <1>0, SlotStays
    <2> QED
      BY <2>1, <2>3, <2>6, <1>1 DEF ProxyInv
  <1>7. CASE AnswerSlot(r)
    <2>1. UNCHANGED <<slotOf, ending, sent>> /\ (UNCHANGED slots \/ slots' = [slots EXCEPT ![req[r].slot] = "invalidated"])
      BY <1>7 DEF AnswerSlot
    <2>2. "invalidated" \in SlotStates
      BY DEF SlotStates
    <2>3. SlotInv'
      BY <2>1, <2>2, <1>0, SlotStays
    <2> QED
      BY <2>1, <2>3, <1>0, <1>1, <1>7, AnswerKeeps DEF ProxyInv
  <1>8. CASE Send(r)
    BY <1>0, <1>8, SendKeeps, SlotStays DEF ProxyInv, Send
  <1>9. ASSUME NEW up \in Upstreams, Redirected(r, up) PROVE ProxyInv'
    BY <1>0, <1>1, <1>9, RedirectKeeps, SlotStays DEF ProxyInv, Redirected
  <1>10. CASE Answered(r)
    BY <1>0, <1>1, <1>10, RequestEnds, SlotStays DEF ProxyInv, Answered
  <1>11. CASE HangsUp(r)
    BY <1>0, <1>1, <1>11, RequestEnds, SlotStays DEF ProxyInv, HangsUp, HungUp
  <1> QED
    BY <1>2, <1>3, <1>4, <1>5, <1>6, <1>7, <1>8, <1>9, <1>10, <1>11 DEF Serves

LEMMA ManagesKeeps ==
  ASSUME ProxyInv, cut' = cut, Manages
  PROVE  ProxyInv'
PROOF
  <1>1. UNCHANGED <<req, audited, sent>>
    BY DEF Manages, PutSlot, ReleaseGrants, ReleaseSlot, RevokeGrant, SweepGrants
  <1>2. RequestsInv' /\ CredentialStaysHome'
    BY <1>1, RequestsSeeCuts DEF ProxyInv, CredentialStaysHome
  <1>3. SlotInv'
    <2>1. CASE PutSlot("pending") \/ PutSlot("noauth")
      BY <2>1, PutKeeps DEF ProxyInv, SlotStates
    <2>2. CASE ReleaseGrants \/ ReleaseSlot
      BY <2>2 DEF ProxyInv, SlotInv, ReleaseGrants, ReleaseSlot
    <2>3. CASE RevokeGrant \/ SweepGrants
      BY <2>3, SlotStays DEF ProxyInv, RevokeGrant, SweepGrants
    <2> QED
      BY <2>1, <2>2, <2>3 DEF Manages
  <1> QED
    BY <1>2, <1>3 DEF ProxyInv

LEMMA ProxyStep ==
  ASSUME Types, SpendInv, ProxyInv, [ProxyNext]_<<brokerVars, proxyVars>>
  PROVE  ProxyInv'
PROOF
  <1>0. CutInv
    BY DEF SpendInv
  <1>1. ASSUME Manages, UNCHANGED brokerVars PROVE ProxyInv'
    BY <1>1, ManagesKeeps DEF brokerVars
  <1>2. ASSUME NEW r \in Requests, Serves(r), UNCHANGED brokerVars PROVE ProxyInv'
    BY <1>0, <1>2, ServesKeeps DEF brokerVars
  <1>3. ASSUME NEW r \in Requests, RedeemSlot(r), UNCHANGED cut PROVE ProxyInv'
    BY <1>0, <1>3, ServesKeeps
  <1>4. ASSUME cut \subseteq cut', UNCHANGED proxyVars PROVE ProxyInv'
    <2>1. RequestsInv'
      BY <1>4, RequestsSeeCuts DEF ProxyInv, proxyVars
    <2>2. SlotInv' /\ CredentialStaysHome'
      BY <1>4 DEF ProxyInv, proxyVars, SlotInv, CredentialStaysHome
    <2> QED
      BY <2>1, <2>2 DEF ProxyInv
  <1>5. CASE UNCHANGED <<brokerVars, proxyVars>>
    BY <1>4, <1>5 DEF brokerVars
  <1> QED
    BY <1>1, <1>2, <1>3, <1>4, <1>5, OperatesCuts DEF ProxyNext

LEMMA ProxyStarts ==
  ASSUME ProxyInit
  PROVE  ProxyInv
PROOF
  <1>1. Waiting \in ReqRecord /\ Waiting.at = "idle" /\ Waiting.cred = {} /\ ~Waiting.late /\ ~Waiting.gone
    BY DEF Waiting, ReqRecord, ReqPlaces
  <1>2. \A r \in Requests : req[r] = Waiting /\ audited[r] = 0
    BY DEF ProxyInit
  <1>3. ReqTypes
    BY <1>1 DEF ProxyInit, ReqTypes
  <1>4. RequestsInv
    BY <1>1, <1>2, <1>3 DEF RequestsInv, AuditedOnce, ReqInv
  <1>5. SlotInv /\ CredentialStaysHome
    BY DEF ProxyInit, SlotInv, CredentialStaysHome
  <1> QED
    BY <1>4, <1>5 DEF ProxyInv

\* Whatever requests of a job race each other, its end, the expiry of its capability and
\* what an operator revokes, and wherever upstreams redirect: a hop carries the credential
\* of its upstream or none and goes only where the grant reaches, a use that began after
\* the revocation, or the end of the job, had returned sends no credential, and every
\* answered request leaves one audit record (inject on every hop, reassert on every use).
THEOREM ProxySpendsCredentialsWithCare ==
  ASSUME NEW CONSTANT services, NEW CONSTANT before \in SUBSET Insiders, NEW CONSTANT calls0
  PROVE  ProxySpec(services, before, calls0) => [](CredentialStaysHome /\ AuditedOnce)
PROOF
  <1>1. BrokerInit(services, before, calls0) /\ ProxyInit => Types /\ SpendInv /\ ProxyInv
    BY InitTypes, InitSpend, ProxyStarts
  <1>2. Types /\ SpendInv /\ ProxyInv /\ [ProxyNext]_<<brokerVars, proxyVars>> => Types' /\ SpendInv' /\ ProxyInv'
    BY BrokerUnderProxy, ProxyStep
  <1>3. ProxyInv => CredentialStaysHome /\ AuditedOnce
    BY DEF ProxyInv, RequestsInv
  <1> QED
    BY <1>1, <1>2, <1>3, PTL DEF ProxySpec

-----------------------------------------------------------------------------
\* The rate limit: requests that ask one bucket, at any times.
VARIABLE meter

MeterSpec == meter = FullMeter /\ [][\E t \in Nat : meter' = Asks(meter, t)]_meter

Buckets == [tokens : 0..Burst, last : {{}} \cup {{l} : l \in Nat}]
Meters == [bucket : Buckets, taken : Nat, first : {{}} \cup {{f} : f \in Nat}, latest : Nat]

\* What was taken and what is left was there at first, or came since the first request:
\* the bucket's clock never goes back.
MeterInv(m) ==
  /\ m \in Meters
  /\ m.first = {} => m.bucket.last = {} /\ m.taken = 0
  /\ m.first # {} => m.bucket.last # {}
  /\ \A f \in m.first, l \in m.bucket.last :
       f <= l /\ l <= m.latest /\ m.taken + m.bucket.tokens <= Burst + PerSecond * (l - f)

\* Time that is worth something is worth as much in two parts.
LEMMA RateAdds ==
  ASSUME NEW f \in Nat, NEW l \in Nat, NEW t \in Nat
  PROVE  PerSecond * (t - f) = PerSecond * (l - f) + PerSecond * (t - l)
BY ProxyAssumption

LEMMA RateGrows ==
  ASSUME NEW m \in Nat, NEW n \in Nat, m <= n
  PROVE  PerSecond * m \in Nat /\ PerSecond * m <= PerSecond * n
BY ProxyAssumption

\* refill: the bucket is at most full, gains at most what its clock moved, and its clock
\* moves on or stays.
LEMMA RefillFacts ==
  ASSUME NEW b \in Buckets, NEW t \in Nat
  PROVE  /\ Refill(b, t) \in Buckets /\ Refill(b, t).last # {}
         /\ b.last = {} => Refill(b, t) = [tokens |-> b.tokens, last |-> {t}]
         /\ \A l \in b.last : \A k \in Refill(b, t).last :
              l <= k /\ (k = l \/ k = t) /\ Refill(b, t).tokens <= b.tokens + PerSecond * (k - l)
PROOF
  <1>0. b = [tokens |-> b.tokens, last |-> b.last] /\ b.tokens \in Nat /\ b.tokens <= Burst /\ Burst \in Nat
    BY ProxyAssumption DEF Buckets
  <1>1. CASE b.last = {}
    BY <1>0, <1>1 DEF Refill, Buckets
  <1>2. CASE b.last # {}
    <2>1. PICK l \in Nat : b.last = {l}
      BY <1>2 DEF Buckets
    <2>2. (CHOOSE x \in b.last : TRUE) = l
      BY <2>1
    <2>3. CASE t <= l
      <3>1. Refill(b, t) = b
        BY <1>2, <2>2, <2>3 DEF Refill
      <3>2. PerSecond * (l - l) = 0
        BY <2>1, ProxyAssumption
      <3> QED
        BY <3>1, <3>2, <2>1, <1>0
    <2>4. CASE ~(t <= l)
      <3> DEFINE g == PerSecond * (t - l)
                 n == IF b.tokens + g > Burst THEN Burst ELSE b.tokens + g
      <3>1. g \in Nat /\ (t - l) * PerSecond = g
        BY <2>1, <2>4, ProxyAssumption
      <3>2. Refill(b, t) = [last |-> {t}, tokens |-> n]
        BY <1>2, <2>2, <2>4, <3>1 DEF Refill
      <3> HIDE DEF g
      <3>3. n \in 0..Burst /\ n <= b.tokens + g
        BY <1>0, <3>1
      <3> HIDE DEF n
      <3> QED
        BY <3>2, <3>3, <2>1, <2>4 DEF Buckets, g
    <2> QED
      BY <2>3, <2>4
  <1> QED
    BY <1>1, <1>2

LEMMA TakeFacts ==
  ASSUME NEW b \in Buckets, NEW t \in Nat
  PROVE  /\ Take(b, t).bucket \in Buckets /\ Take(b, t).bucket.last = Refill(b, t).last
         /\ Take(b, t).ok \in BOOLEAN
         /\ Take(b, t).bucket.tokens + (IF Take(b, t).ok THEN 1 ELSE 0) = Refill(b, t).tokens
PROOF
  <1> DEFINE full == Refill(b, t)
  <1>1. full \in Buckets
    BY RefillFacts
  <1>2. Take(b, t) = [ok |-> full.tokens > 0, bucket |-> [full EXCEPT !.tokens = IF @ = 0 THEN 0 ELSE @ - 1]]
    BY DEF Take
  <1> HIDE DEF full
  <1>3. full.tokens \in Nat /\ full.tokens <= Burst /\ Burst \in Nat
    BY <1>1, ProxyAssumption DEF Buckets
  <1> DEFINE n == IF full.tokens = 0 THEN 0 ELSE full.tokens - 1
             rest == [full EXCEPT !.tokens = n]
  <1>4. n \in 0..Burst /\ n + (IF full.tokens > 0 THEN 1 ELSE 0) = full.tokens
    BY <1>3
  <1>5. Take(b, t).ok = (full.tokens > 0) /\ Take(b, t).bucket = rest
    BY <1>2
  <1>6. Take(b, t).ok \in BOOLEAN /\ (Take(b, t).ok <=> full.tokens > 0)
    <2>1. (full.tokens > 0) \in BOOLEAN
      BY <1>3
    <2> QED
      BY <1>5, <2>1
  <1> HIDE DEF n
  <1>7. rest \in Buckets /\ rest.tokens = n /\ rest.last = full.last
    BY <1>1, <1>4 DEF Buckets
  <1> HIDE DEF rest
  <1>8. /\ Take(b, t).bucket \in Buckets /\ Take(b, t).bucket.last = full.last /\ Take(b, t).ok \in BOOLEAN
        /\ Take(b, t).bucket.tokens = n /\ (Take(b, t).ok <=> full.tokens > 0)
    BY <1>5, <1>7, <1>6
  <1>9. Take(b, t).bucket.tokens + (IF Take(b, t).ok THEN 1 ELSE 0) = full.tokens
    BY <1>4, <1>8
  <1> QED
    BY <1>8, <1>9 DEF full

LEMMA MeterStep ==
  ASSUME NEW m, MeterInv(m), NEW t \in Nat
  PROVE  MeterInv(Asks(m, t))
PROOF
  <1> DEFINE b == m.bucket
             full == Refill(b, t)
             got == Take(b, t)
             n == Asks(m, t)
  <1>0. m \in Meters /\ b \in Buckets /\ m.taken \in Nat /\ m.latest \in Nat /\ b.tokens \in Nat /\ b.tokens <= Burst /\ Burst \in Nat
    BY ProxyAssumption DEF MeterInv, Meters, Buckets
  <1>1. /\ full \in Buckets /\ full.last # {}
        /\ b.last = {} => full = [tokens |-> b.tokens, last |-> {t}]
        /\ \A l \in b.last : \A k \in full.last : l <= k /\ (k = l \/ k = t) /\ full.tokens <= b.tokens + PerSecond * (k - l)
    BY <1>0, RefillFacts
  <1>2. /\ got.bucket \in Buckets /\ got.bucket.last = full.last /\ got.ok \in BOOLEAN
        /\ got.bucket.tokens + (IF got.ok THEN 1 ELSE 0) = full.tokens
    BY <1>0, TakeFacts
  <1>3. /\ n.bucket = got.bucket /\ n.taken = (IF got.ok THEN m.taken + 1 ELSE m.taken)
        /\ n.first = (IF m.first = {} THEN {t} ELSE m.first) /\ n.latest = (IF t > m.latest THEN t ELSE m.latest)
        /\ n = [bucket |-> n.bucket, taken |-> n.taken, first |-> n.first, latest |-> n.latest]
    BY DEF Asks
  <1> HIDE DEF b, full, got, n
  <1>4. n \in Meters /\ n.first # {} /\ n.bucket.last # {}
    <2>1. n.taken \in Nat /\ n.latest \in Nat /\ n.first \in {{}} \cup {{f} : f \in Nat}
      BY <1>0, <1>2, <1>3 DEF Meters
    <2> QED
      BY <2>1, <1>1, <1>2, <1>3 DEF Meters
  <1>5. full.tokens \in Nat /\ n.taken + n.bucket.tokens = m.taken + full.tokens
    BY <1>0, <1>1, <1>2, <1>3 DEF Buckets
  <1>6. ASSUME NEW f \in n.first, NEW k \in n.bucket.last
        PROVE  f <= k /\ k <= n.latest /\ n.taken + n.bucket.tokens <= Burst + PerSecond * (k - f)
    <2>0. f \in Nat /\ k \in Nat /\ k \in full.last
      BY <1>4, <1>2, <1>3 DEF Meters, Buckets
    <2>1. CASE m.first = {}
      <3>1. m.taken = 0 /\ b.last = {}
        BY <2>1 DEF MeterInv, b
      <3>2. k = t /\ f = t /\ full.tokens = b.tokens
        BY <3>1, <2>0, <2>1, <1>1, <1>3
      <3>3. PerSecond * (k - f) = 0
        BY <3>2, ProxyAssumption
      <3>4. k <= n.latest
        BY <3>2, <1>0, <1>3
      <3> QED
        BY <3>1, <3>2, <3>3, <3>4, <1>0, <1>5
    <2>2. CASE m.first # {}
      <3>1. PICK l \in b.last : TRUE
        BY <2>2 DEF MeterInv, b
      <3>2. l \in Nat /\ f \in m.first /\ f <= l /\ l <= m.latest /\ m.taken + b.tokens <= Burst + PerSecond * (l - f)
        BY <1>0, <1>3, <2>2, <3>1 DEF MeterInv, Buckets, b
      <3>3. l <= k /\ (k = l \/ k = t) /\ full.tokens <= b.tokens + PerSecond * (k - l)
        BY <1>1, <2>0, <3>1
      <3> DEFINE x == PerSecond * (l - f)
                 y == PerSecond * (k - l)
      <3>4. PerSecond * (k - f) = x + y
        BY <2>0, <3>2, RateAdds
      <3>5. x \in Int /\ y \in Int
        BY <2>0, <3>2, ProxyAssumption
      <3> HIDE DEF x, y
      <3>6. m.taken + b.tokens <= Burst + x /\ full.tokens <= b.tokens + y
        BY <3>2, <3>3 DEF x, y
      <3>7. n.taken + n.bucket.tokens <= Burst + PerSecond * (k - f)
        BY <1>0, <1>5, <3>4, <3>5, <3>6
      <3>8. f <= k /\ k <= n.latest
        BY <1>0, <1>3, <2>0, <3>2, <3>3
      <3> QED
        BY <3>7, <3>8
    <2> QED
      BY <2>1, <2>2
  <1> QED
    BY <1>4, <1>6 DEF MeterInv, n

\* Whatever the clock shows to whoever asks, and however the requests come, a job's
\* bucket lets through no more than its burst and its rate allow since it was first
\* asked (TokenBucket::refill, which never remembers a clock that went back).
THEOREM RatesAreKept == MeterSpec => []RateIsKept(meter)
PROOF
  <1>1. meter = FullMeter => MeterInv(meter)
    <2>1. FullMeter \in Meters
      BY ProxyAssumption DEF FullMeter, Meters, Buckets
    <2> QED
      BY <2>1 DEF FullMeter, MeterInv
  <1>2. MeterInv(meter) /\ [\E t \in Nat : meter' = Asks(meter, t)]_meter => MeterInv(meter)'
    BY MeterStep
  <1>3. MeterInv(meter) => RateIsKept(meter)
    <2> SUFFICES ASSUME MeterInv(meter), NEW f \in meter.first
                 PROVE  meter.taken <= Burst + PerSecond * (IF meter.latest > f THEN meter.latest - f ELSE 0)
      BY DEF RateIsKept
    <2>1. PICK l \in meter.bucket.last : TRUE
      BY DEF MeterInv
    <2>2. /\ f \in Nat /\ l \in Nat /\ meter.latest \in Nat /\ meter.taken \in Nat /\ meter.bucket.tokens \in Nat /\ Burst \in Nat
          /\ f <= l /\ l <= meter.latest /\ meter.taken + meter.bucket.tokens <= Burst + PerSecond * (l - f)
      BY <2>1, ProxyAssumption DEF MeterInv, Meters, Buckets
    <2> DEFINE d == IF meter.latest > f THEN meter.latest - f ELSE 0
               e == l - f
    <2>3. d \in Nat /\ e \in Nat /\ e <= d
      BY <2>2
    <2>4. PerSecond * e \in Nat /\ PerSecond * e <= PerSecond * d /\ PerSecond * d \in Nat
      <3> HIDE DEF d, e
      <3>1. PerSecond * e \in Nat /\ PerSecond * e <= PerSecond * d
        BY <2>3, RateGrows
      <3>2. PerSecond * d \in Nat
        BY <2>3, RateGrows
      <3> QED
        BY <3>1, <3>2
    <2>5. meter.taken + meter.bucket.tokens <= Burst + PerSecond * e
      BY <2>2
    <2> HIDE DEF d, e
    <2>6. meter.taken <= Burst + PerSecond * d
      BY <2>2, <2>4, <2>5
    <2> QED
      BY <2>6 DEF d
  <1> QED
    BY <1>1, <1>2, <1>3, PTL DEF MeterSpec
=============================================================================
