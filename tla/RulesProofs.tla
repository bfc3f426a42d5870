---------------------------- MODULE RulesProofs ----------------------------
(***************************************************************************)
(* Proofs about the rules that one part of the system follows by itself:   *)
(* StepGraph and PlanDrive, PlanChild, OutputCapture, KmsClient and        *)
(* Bindings, for any plan, any text, any limits and any number of callers. *)
(*                                                                         *)
(* The library's induction theorems take a predicate; here induction is    *)
(* over a set of naturals (SetInduction, from the least member that a set  *)
(* of naturals has), which is how what a loop or a fold computes is        *)
(* established: Iteration for a loop that repeats until nothing changes,   *)
(* DownInduction for one from the end of a text, FlattenLoop for a join.   *)
(*                                                                         *)
(* DriveInv, EvalInv, CaptureInv and KmsInv are the inductive invariants   *)
(* of the four state machines.                                             *)
(***************************************************************************)
EXTENDS PlanDrive, PlanChild, OutputCapture, KmsClient, Bindings,
        FiniteSetTheorems, SequenceTheorems, WellFoundedInduction, TLAPS

-----------------------------------------------------------------------------
\* Induction over the naturals, for a set rather than a predicate.

\* A set of naturals that is not empty has a least member.
LEMMA LeastElement ==
  ASSUME NEW T, T \subseteq Nat, T # {}
  PROVE  \E m \in T : \A n \in T : m <= n
  <1> DEFINE R == {ss \in Nat \X Nat : ss[1] < ss[2]}
  <1>1. OpToRel(<, Nat) = R
    BY DEF OpToRel
  <1>2. IsWellFoundedOn(R, Nat)
    BY <1>1, NatLessThanWellFounded
  <1>3. PICK m \in T : \A n \in T : ~(<<n, m>> \in R)
    <2> HIDE DEF R
    <2> QED
      BY <1>2, WFMin
  <1>4. ASSUME NEW n \in T PROVE m <= n
    <2>1. m \in Nat /\ n \in Nat
      OBVIOUS
    <2>2. n < m => <<n, m>> \in R
      BY <2>1
    <2> QED
      BY <2>1, <2>2, <1>3
  <1> QED
    BY <1>4

\* A set with 0 in it, and with every number its successor, has all of them.
LEMMA SetInduction ==
  ASSUME NEW S, 0 \in S, \A n \in Nat : n \in S => n + 1 \in S
  PROVE  \A n \in Nat : n \in S
  <1> SUFFICES ASSUME Nat \ S # {} PROVE FALSE
    OBVIOUS
  <1>1. PICK m \in Nat \ S : \A n \in Nat \ S : m <= n
    BY LeastElement
  <1>2. m # 0 /\ m - 1 \in Nat
    BY <1>1
  <1>3. m - 1 \in S
    BY <1>1, <1>2
  <1> QED
    BY <1>1, <1>2, <1>3

\* f[n] is what n applications of step make of q0.
Iterates(f, Q, step, q0) ==
  f \in [Nat -> Q] /\ f[0] = q0 /\ \A n \in Nat : f[n + 1] = step[f[n]]

\* A function can be applied any number of times.
LEMMA Iteration ==
  ASSUME NEW Q, NEW step \in [Q -> Q], NEW q0 \in Q
  PROVE  \E f : Iterates(f, Q, step, q0)
  <1> DEFINE Upto(n) == {f \in [0..n -> Q] : f[0] = q0 /\ \A i \in 0..n - 1 : f[i + 1] = step[f[i]]}
             S == {n \in Nat : Upto(n) # {}}
             Pick(n) == CHOOSE f \in Upto(n) : TRUE
             F == [n \in Nat |-> Pick(n)[n]]
  <1>1. 0 \in S
    <2>1. [i \in 0..0 |-> q0] \in Upto(0)
      OBVIOUS
    <2> QED
      BY <2>1
  <1>2. ASSUME NEW n \in Nat, n \in S PROVE n + 1 \in S
    <2>1. PICK f \in [0..n -> Q] : f[0] = q0 /\ \A i \in 0..n - 1 : f[i + 1] = step[f[i]]
      BY <1>2
    <2> DEFINE g == [i \in 0..n + 1 |-> IF i <= n THEN f[i] ELSE step[f[n]]]
    <2>2. g \in [0..n + 1 -> Q]
      OBVIOUS
    <2>3. g[0] = q0
      BY <2>1
    <2>4. ASSUME NEW i \in 0..n PROVE g[i + 1] = step[g[i]]
      <3>1. CASE i = n
        BY <3>1
      <3>2. CASE i # n
        <4>1. i \in 0..n - 1 /\ i + 1 <= n
          BY <3>2
        <4> QED
          BY <2>1, <4>1
      <3> QED
        BY <3>1, <3>2
    <2>5. (n + 1) - 1 = n
      OBVIOUS
    <2>6. g \in Upto(n + 1)
      BY <2>2, <2>3, <2>4, <2>5
    <2> QED
      BY <2>6
  <1>3. \A n \in Nat : n \in S
    <2> HIDE DEF S
    <2> QED
      BY <1>1, <1>2, SetInduction
  <1>4. \A n \in Nat : Pick(n) \in Upto(n)
    BY <1>3
  <1> HIDE DEF Pick
  <1>5. ASSUME NEW n \in Nat PROVE Pick(n + 1)[n] = Pick(n)[n]
    <2> DEFINE f == Pick(n)
               g == Pick(n + 1)
               A == {i \in Nat : i <= n => f[i] = g[i]}
    <2>1. /\ f[0] = q0 /\ \A i \in 0..n - 1 : f[i + 1] = step[f[i]]
      BY <1>4
    <2>2. /\ g[0] = q0 /\ \A i \in 0..(n + 1) - 1 : g[i + 1] = step[g[i]]
      <3>1. n + 1 \in Nat
        OBVIOUS
      <3> QED
        BY <1>4, <3>1
    <2> HIDE DEF f, g
    <2>3. 0 \in A
      BY <2>1, <2>2
    <2>4. ASSUME NEW i \in Nat, i \in A PROVE i + 1 \in A
      BY <2>1, <2>2, <2>4
    <2>5. n \in A
      <3> HIDE DEF A
      <3> QED
        BY <2>3, <2>4, SetInduction
    <2> QED
      BY <2>5 DEF f, g
  <1>6. F \in [Nat -> Q]
    <2>1. \A n \in Nat : Pick(n) \in [0..n -> Q] /\ n \in 0..n
      BY <1>4
    <2>2. \A n \in Nat : Pick(n)[n] \in Q
      BY <2>1
    <2> QED
      BY <2>2
  <1>7. F[0] = q0
    BY <1>4
  <1>8. ASSUME NEW n \in Nat PROVE F[n + 1] = step[F[n]]
    <2>1. n + 1 \in Nat /\ n \in 0..(n + 1) - 1
      OBVIOUS
    <2>2. Pick(n + 1)[n + 1] = step[Pick(n + 1)[n]]
      BY <1>4, <2>1
    <2>3. F[n + 1] = Pick(n + 1)[n + 1] /\ F[n] = Pick(n)[n]
      BY <2>1
    <2> QED
      BY <1>5, <2>2, <2>3
  <1> HIDE DEF F
  <1>9. Iterates(F, Q, step, q0)
    BY <1>6, <1>7, <1>8 DEF Iterates
  <1> QED
    BY <1>9

-----------------------------------------------------------------------------
\* graph::advance: the loop computes the definition.

\* The states a plan q goes through, pass by pass.
AfterPasses(q, need, ok) ==
  CHOOSE f : f = [n \in Nat |-> IF n = 0 THEN q ELSE Pass(f[n - 1], need, ok)]

\* A pass leaves what is not pending, and makes steps of steps.
LEMMA PassFacts ==
  ASSUME NEW D, NEW q \in [D -> StepStates], NEW need, NEW ok
  PROVE  /\ Pass(q, need, ok) \in [D -> StepStates]
         /\ \A s \in D : Pass(q, need, ok)[s] = Gate(q, need, ok, s)
         /\ \A s \in D : q[s] # "pending" => Pass(q, need, ok)[s] = q[s]
  <1>1. Pass(q, need, ok) = [s \in D |-> Gate(q, need, ok, s)]
    BY DEF Pass
  <1>2. \A s \in D : Gate(q, need, ok, s) \in StepStates
    BY DEF Gate, StepStates
  <1>3. \A s \in D : q[s] # "pending" => Gate(q, need, ok, s) = q[s]
    BY DEF Gate
  <1> QED
    BY <1>1, <1>2, <1>3

\* The passes are well defined, one after the other.
LEMMA PassesAreMade ==
  ASSUME NEW D, NEW q \in [D -> StepStates], NEW need, NEW ok
  PROVE  LET f == AfterPasses(q, need, ok)
         IN  /\ f[0] = q /\ \A n \in Nat : f[n] \in [D -> StepStates]
             /\ \A n \in Nat : f[n + 1] = Pass(f[n], need, ok)
  <1> DEFINE Q == [D -> StepStates]
             step == [p \in Q |-> Pass(p, need, ok)]
             f == AfterPasses(q, need, ok)
  <1>1. step \in [Q -> Q]
    BY PassFacts
  <1>2. PICK g \in [Nat -> Q] : g[0] = q /\ \A n \in Nat : g[n + 1] = step[g[n]]
    <2> HIDE DEF step, Q
    <2>1. q \in Q
      BY DEF Q
    <2>2. \E g : Iterates(g, Q, step, q)
      BY <1>1, <2>1, Iteration
    <2> QED
      BY <2>2 DEF Iterates
  <1>3. g = [n \in Nat |-> IF n = 0 THEN q ELSE Pass(g[n - 1], need, ok)]
    <2>1. ASSUME NEW n \in Nat PROVE g[n] = IF n = 0 THEN q ELSE Pass(g[n - 1], need, ok)
      <3>1. CASE n = 0
        BY <1>2, <3>1
      <3>2. CASE n # 0
        <4>1. n - 1 \in Nat /\ (n - 1) + 1 = n
          BY <3>2
        <4>2. g[n] = step[g[n - 1]] /\ g[n - 1] \in Q
          BY <1>2, <4>1
        <4> QED
          BY <3>2, <4>2
      <3> QED
        BY <3>1, <3>2
    <2> QED
      BY <2>1
  <1>4. f = [n \in Nat |-> IF n = 0 THEN q ELSE Pass(f[n - 1], need, ok)]
    BY <1>3 DEF AfterPasses
  <1> HIDE DEF f
  <1>5. f[0] = q
    BY <1>4
  <1>6. ASSUME NEW n \in Nat PROVE f[n + 1] = Pass(f[n], need, ok)
    <2>1. n + 1 \in Nat /\ n + 1 # 0 /\ (n + 1) - 1 = n
      OBVIOUS
    <2> QED
      BY <1>4, <2>1
  <1>7. \A n \in Nat : f[n] \in Q
    <2> DEFINE S == {n \in Nat : f[n] \in Q}
    <2>1. 0 \in S
      BY <1>5
    <2>2. ASSUME NEW n \in Nat, n \in S PROVE n + 1 \in S
      <3>1. f[n] \in [D -> StepStates]
        BY <2>2
      <3>2. Pass(f[n], need, ok) \in [D -> StepStates]
        BY <3>1, PassFacts
      <3>3. f[n + 1] \in Q
        BY <3>2, <1>6
      <3> QED
        BY <3>3
    <2>3. \A n \in Nat : n \in S
      <3> HIDE DEF S
      <3> QED
        BY <2>1, <2>2, SetInduction
    <2> QED
      BY <2>3
  <1> QED
    BY <1>5, <1>6, <1>7 DEF f

\* The steps of q that still wait.
Waiting(q) == {s \in DOMAIN q : q[s] = "pending"}

\* A pass that changes something leaves fewer steps waiting.
LEMMA PassSettles ==
  ASSUME NEW D, IsFiniteSet(D), NEW q \in [D -> StepStates], NEW need, NEW ok,
         Pass(q, need, ok) # q
  PROVE  Cardinality(Waiting(Pass(q, need, ok))) < Cardinality(Waiting(q))
  <1> DEFINE p == Pass(q, need, ok)
  <1>1. p \in [D -> StepStates] /\ \A s \in D : q[s] # "pending" => p[s] = q[s]
    BY PassFacts
  <1>2. PICK s \in D : p[s] # q[s]
    BY <1>1
  <1>3. s \in Waiting(q) /\ s \notin Waiting(p)
    BY <1>1, <1>2 DEF Waiting
  <1>4. Waiting(p) \subseteq Waiting(q)
    BY <1>1 DEF Waiting
  <1>5. Waiting(q) \subseteq D
    BY DEF Waiting
  <1>6. IsFiniteSet(Waiting(q))
    BY <1>5, FS_Subset
  <1>7. /\ IsFiniteSet(Waiting(p)) /\ Cardinality(Waiting(p)) <= Cardinality(Waiting(q))
        /\ Cardinality(Waiting(q)) # Cardinality(Waiting(p))
    BY <1>3, <1>4, <1>6, FS_Subset
  <1>8. Cardinality(Waiting(p)) \in Nat /\ Cardinality(Waiting(q)) \in Nat
    BY <1>6, <1>7, FS_CardinalityType
  <1> HIDE DEF p
  <1>9. Cardinality(Waiting(p)) < Cardinality(Waiting(q))
    BY <1>7, <1>8
  <1> QED
    BY <1>9 DEF p

\* As many passes as there are steps reach a state that a pass leaves alone.
LEMMA PassesConverge ==
  ASSUME NEW D, IsFiniteSet(D), NEW q \in [D -> StepStates], NEW need, NEW ok
  PROVE  Pass(Passes(q, need, ok), need, ok) = Passes(q, need, ok)
  <1> DEFINE f == AfterPasses(q, need, ok)
             N == Cardinality(D)
             S == {n \in Nat : \/ Pass(f[n], need, ok) = f[n]
                               \/ Cardinality(Waiting(f[n])) + n <= N}
  <1>1. /\ f[0] = q /\ \A n \in Nat : f[n] \in [D -> StepStates]
        /\ \A n \in Nat : f[n + 1] = Pass(f[n], need, ok)
    BY PassesAreMade
  <1>2. Passes(q, need, ok) = f[N]
    BY DEF Passes, AfterPasses
  <1> HIDE DEF f
  <1>3. N \in Nat
    BY FS_CardinalityType
  <1>4. \A n \in Nat : /\ IsFiniteSet(Waiting(f[n]))
                       /\ Cardinality(Waiting(f[n])) \in Nat
                       /\ Cardinality(Waiting(f[n])) <= N
    <2> SUFFICES ASSUME NEW n \in Nat
                 PROVE  /\ IsFiniteSet(Waiting(f[n])) /\ Cardinality(Waiting(f[n])) \in Nat
                        /\ Cardinality(Waiting(f[n])) <= N
      OBVIOUS
    <2>1. Waiting(f[n]) \subseteq D
      BY <1>1 DEF Waiting
    <2> QED
      BY <2>1, FS_Subset, FS_CardinalityType
  <1>5. 0 \in S
    BY <1>3, <1>4
  <1>6. ASSUME NEW n \in Nat, n \in S PROVE n + 1 \in S
    <2>1. CASE Pass(f[n], need, ok) = f[n]
      BY <1>1, <2>1
    <2>2. CASE Pass(f[n], need, ok) # f[n]
      <3>1. Cardinality(Waiting(f[n])) + n <= N
        BY <1>6, <2>2
      <3>2. Cardinality(Waiting(f[n + 1])) < Cardinality(Waiting(f[n]))
        BY <1>1, <2>2, PassSettles
      <3>3. n + 1 \in Nat
        OBVIOUS
      <3> QED
        BY <1>3, <1>4, <3>1, <3>2, <3>3
    <2> QED
      BY <2>1, <2>2
  <1>7. N \in S
    <2> HIDE DEF S, N
    <2> QED
      BY <1>3, <1>5, <1>6, SetInduction
  <1>8. CASE Cardinality(Waiting(f[N])) + N <= N
    <2>1. Cardinality(Waiting(f[N])) = 0
      BY <1>3, <1>4, <1>8
    <2>2. Waiting(f[N]) = {}
      BY <1>3, <1>4, <2>1, FS_EmptySet
    <2>3. f[N] \in [D -> StepStates] /\ \A s \in D : f[N][s] # "pending"
      BY <1>1, <1>3, <2>2 DEF Waiting
    <2>4. \A s \in D : Pass(f[N], need, ok)[s] = f[N][s]
      BY <2>3, PassFacts
    <2>5. Pass(f[N], need, ok) \in [D -> StepStates]
      BY <2>3, PassFacts
    <2> QED
      BY <1>2, <2>3, <2>4, <2>5
  <1> QED
    BY <1>2, <1>7, <1>8

\* p is where some passes have brought q: what they moved was pending, an errored step
\* dangles, a skipped one is doomed, and a ready one has all it needs.
Underway(p, q, need, ok, D) ==
  /\ p \in [D -> StepStates]
  /\ \A s \in D : q[s] # "pending" => p[s] = q[s]
  /\ \A s \in D : q[s] = "pending" =>
       /\ p[s] \in {"pending", "ready", "errored", "skipped"}
       /\ p[s] = "errored" => Dangling(q, need, s)
       /\ p[s] = "skipped" => ~Dangling(q, need, s) /\ s \in Doomed(q, need, ok)
       /\ p[s] = "ready" => /\ ~Dangling(q, need, s)
                            /\ \A n \in need[s] : Satisfied(q, ok, n)

\* The doomed steps are a closed set, of steps that wait.
LEMMA DoomedIsClosed ==
  ASSUME NEW D, NEW q \in [D -> StepStates], NEW need, NEW ok
  PROVE  /\ ClosedUnderBlocking(Doomed(q, need, ok), q, need, ok)
         /\ \A s \in Doomed(q, need, ok) : s \in D /\ q[s] = "pending"
  <1> DEFINE doomed == Doomed(q, need, ok)
  <1>1. DOMAIN q = D
    OBVIOUS
  <1>2. ASSUME NEW s \in D, q[s] = "pending",
               Dangling(q, need, s) \/ (\E n \in need[s] : Blocked(q, ok, n) \/ n \in doomed)
        PROVE  s \in doomed
    <2> SUFFICES ASSUME NEW E \in SUBSET D, ClosedUnderBlocking(E, q, need, ok) PROVE s \in E
      BY <1>1 DEF Doomed
    <2>1. doomed \subseteq E
      BY <1>1 DEF Doomed
    <2>2. Dangling(q, need, s) \/ (\E n \in need[s] : Blocked(q, ok, n) \/ n \in E)
      BY <1>2, <2>1
    <2> QED
      BY <1>1, <1>2, <2>2 DEF ClosedUnderBlocking
  <1>3. ClosedUnderBlocking(doomed, q, need, ok)
    BY <1>1, <1>2 DEF ClosedUnderBlocking
  <1> DEFINE wait == {s \in D : q[s] = "pending"}
  <1>4. ClosedUnderBlocking(wait, q, need, ok)
    BY <1>1 DEF ClosedUnderBlocking
  <1>5. \A s \in doomed : s \in D /\ q[s] = "pending"
    <2>1. wait \in SUBSET DOMAIN q
      BY <1>1
    <2>2. doomed \subseteq wait
      BY <1>4, <2>1 DEF Doomed
    <2> QED
      BY <2>2
  <1> QED
    BY <1>3, <1>5

\* Passes satisfy no need that was not satisfied, and block a step only by one that is
\* doomed.
LEMMA UnderwayFacts ==
  ASSUME NEW D, NEW q \in [D -> StepStates], NEW need, NEW ok, NEW p, Underway(p, q, need, ok, D)
  PROVE  /\ \A n : Satisfied(p, ok, n) <=> Satisfied(q, ok, n)
         /\ \A n : Blocked(p, ok, n) => Blocked(q, ok, n) \/ n \in Doomed(q, need, ok)
         /\ \A n : Blocked(q, ok, n) => Blocked(p, ok, n)
         /\ \A s \in D : Dangling(p, need, s) <=> Dangling(q, need, s)
  <1>1. DOMAIN q = D /\ DOMAIN p = D
    BY DEF Underway
  <1>2. \A n \in D : q[n] # "pending" => p[n] = q[n]
    BY DEF Underway
  <1>3. \A n \in D : q[n] = "pending" => p[n] \in {"pending", "ready", "errored", "skipped"}
    BY DEF Underway
  <1>4. \A n : Satisfied(p, ok, n) <=> Satisfied(q, ok, n)
    BY <1>1, <1>2, <1>3 DEF Satisfied
  <1>5. ASSUME NEW n, Blocked(p, ok, n) PROVE Blocked(q, ok, n) \/ n \in Doomed(q, need, ok)
    <2>1. n \in D
      BY <1>1, <1>5 DEF Blocked
    <2>2. CASE q[n] # "pending"
      BY <1>1, <1>2, <1>4, <1>5, <2>1, <2>2 DEF Blocked
    <2>3. CASE q[n] = "pending" /\ p[n] = "skipped"
      BY <2>1, <2>3 DEF Underway
    <2>4. CASE q[n] = "pending" /\ p[n] = "errored"
      <3>1. Dangling(q, need, n)
        BY <2>1, <2>4 DEF Underway
      <3> QED
        BY <1>1, <2>1, <2>4, <3>1, DoomedIsClosed DEF ClosedUnderBlocking
    <2> QED
      BY <1>3, <1>5, <2>1, <2>2, <2>3, <2>4 DEF Blocked
  <1>6. ASSUME NEW n, Blocked(q, ok, n) PROVE Blocked(p, ok, n)
    BY <1>1, <1>2, <1>4, <1>6 DEF Blocked
  <1>7. \A s \in D : Dangling(p, need, s) <=> Dangling(q, need, s)
    BY <1>1 DEF Dangling
  <1> QED
    BY <1>4, <1>5, <1>6, <1>7

\* Another pass is no different.
LEMMA UnderwayStep ==
  ASSUME NEW D, NEW q \in [D -> StepStates], NEW need, NEW ok, NEW p, Underway(p, q, need, ok, D)
  PROVE  Underway(Pass(p, need, ok), q, need, ok, D)
  <1> DEFINE r == Pass(p, need, ok)
  <1>1. p \in [D -> StepStates]
    BY DEF Underway
  <1>2. /\ r \in [D -> StepStates]
        /\ \A s \in D : r[s] = Gate(p, need, ok, s)
        /\ \A s \in D : p[s] # "pending" => r[s] = p[s]
    BY <1>1, PassFacts
  <1> HIDE DEF r
  <1>3. \A s \in D : q[s] # "pending" => r[s] = q[s]
    BY <1>2 DEF Underway
  <1>4. ASSUME NEW s \in D, q[s] = "pending", p[s] = "pending"
        PROVE  /\ r[s] \in {"pending", "ready", "errored", "skipped"}
               /\ r[s] = "errored" => Dangling(q, need, s)
               /\ r[s] = "skipped" => ~Dangling(q, need, s) /\ s \in Doomed(q, need, ok)
               /\ r[s] = "ready" => /\ ~Dangling(q, need, s)
                                    /\ \A n \in need[s] : Satisfied(q, ok, n)
    <2>1. /\ r[s] \in {"pending", "ready", "errored", "skipped"}
          /\ r[s] = "errored" => Dangling(p, need, s)
          /\ r[s] = "skipped" => ~Dangling(p, need, s) /\ \E n \in need[s] : Blocked(p, ok, n)
          /\ r[s] = "ready" => /\ ~Dangling(p, need, s)
                               /\ \A n \in need[s] : Satisfied(p, ok, n)
      <3>1. r[s] = Gate(p, need, ok, s)
        BY <1>2
      <3>2. CASE Dangling(p, need, s)
        <4>1. ~(\A n \in need[s] : Satisfied(p, ok, n))
          BY <3>2 DEF Dangling, Satisfied
        <4>2. r[s] = "errored"
          BY <1>4, <3>1, <3>2, <4>1 DEF Gate
        <4> QED
          BY <3>2, <4>2
      <3>3. CASE ~Dangling(p, need, s) /\ \E n \in need[s] : Blocked(p, ok, n)
        <4>1. r[s] = "skipped"
          <5>1. ~(\A n \in need[s] : Satisfied(p, ok, n))
            BY <3>3 DEF Blocked
          <5> QED
            BY <1>4, <3>1, <3>3, <5>1 DEF Gate
        <4> QED
          BY <3>3, <4>1
      <3>4. CASE ~Dangling(p, need, s) /\ ~\E n \in need[s] : Blocked(p, ok, n)
        BY <1>4, <3>1, <3>4 DEF Gate
      <3> QED
        BY <3>2, <3>3, <3>4
    <2>2. r[s] = "skipped" => s \in Doomed(q, need, ok)
      <3> SUFFICES ASSUME r[s] = "skipped" PROVE s \in Doomed(q, need, ok)
        OBVIOUS
      <3>1. PICK n \in need[s] : Blocked(p, ok, n)
        BY <2>1
      <3>2. Blocked(q, ok, n) \/ n \in Doomed(q, need, ok)
        BY <3>1, UnderwayFacts
      <3>3. DOMAIN q = D
        OBVIOUS
      <3> QED
        BY <1>4, <3>2, <3>3, DoomedIsClosed DEF ClosedUnderBlocking
    <2> QED
      BY <2>1, <2>2, UnderwayFacts
  <1>5. ASSUME NEW s \in D, q[s] = "pending", p[s] # "pending" PROVE r[s] = p[s]
    BY <1>2, <1>5
  <1>6. Underway(r, q, need, ok, D)
    BY <1>2, <1>3, <1>4, <1>5 DEF Underway
  <1> QED
    BY <1>6 DEF r

\* A state that a pass leaves alone is what the definition says.
LEMMA UnderwayEnds ==
  ASSUME NEW D, NEW q \in [D -> StepStates], NEW need, NEW ok, NEW p, Underway(p, q, need, ok, D),
         Pass(p, need, ok) = p
  PROVE  p = [s \in D |-> IF q[s] # "pending" THEN q[s]
                          ELSE IF Dangling(q, need, s) THEN "errored"
                          ELSE IF s \in Doomed(q, need, ok) THEN "skipped"
                          ELSE IF \A n \in need[s] : Satisfied(q, ok, n) THEN "ready"
                          ELSE "pending"]
  <1> DEFINE doomed == Doomed(q, need, ok)
             over == {s \in D : q[s] = "pending" /\ p[s] \in {"errored", "skipped"}}
  <1>1. p \in [D -> StepStates] /\ DOMAIN q = D /\ DOMAIN p = D
    BY DEF Underway
  <1>2. \A s \in D : p[s] = Gate(p, need, ok, s)
    BY <1>1, PassFacts
  <1>3. \A s \in D : p[s] = "pending" =>
          /\ ~Dangling(p, need, s)
          /\ \A n \in need[s] : ~Blocked(p, ok, n)
          /\ ~(\A n \in need[s] : Satisfied(p, ok, n))
    <2> SUFFICES ASSUME NEW s \in D, p[s] = "pending"
                 PROVE  /\ ~Dangling(p, need, s)
                        /\ \A n \in need[s] : ~Blocked(p, ok, n)
                        /\ ~(\A n \in need[s] : Satisfied(p, ok, n))
      OBVIOUS
    <2> QED
      BY <1>2 DEF Gate
  <1>4. \A s \in over : Blocked(p, ok, s)
    BY <1>1 DEF Blocked, Satisfied
  <1>5. ASSUME NEW s \in D, q[s] = "pending",
               Dangling(q, need, s) \/ (\E n \in need[s] : Blocked(q, ok, n) \/ n \in over)
        PROVE  s \in over
    <2>1. Dangling(p, need, s) \/ (\E n \in need[s] : Blocked(p, ok, n))
      BY <1>4, <1>5, UnderwayFacts
    <2>2. p[s] # "pending"
      BY <1>3, <2>1
    <2>3. p[s] # "ready"
      <3> SUFFICES ASSUME p[s] = "ready" PROVE FALSE
        OBVIOUS
      <3>1. ~Dangling(q, need, s) /\ \A n \in need[s] : Satisfied(q, ok, n)
        BY <1>5 DEF Underway
      <3>2. PICK n \in need[s] : Blocked(p, ok, n)
        BY <2>1, <3>1, UnderwayFacts
      <3>3. Satisfied(p, ok, n)
        BY <3>1, UnderwayFacts
      <3> QED
        BY <3>2, <3>3 DEF Blocked
    <2> QED
      BY <1>5, <2>2, <2>3 DEF Underway
  <1>6. doomed \subseteq over
    <2>1. ClosedUnderBlocking(over, q, need, ok)
      <3> HIDE DEF over
      <3> QED
        BY <1>1, <1>5 DEF ClosedUnderBlocking
    <2>2. over \in SUBSET DOMAIN q
      BY <1>1
    <2> HIDE DEF over
    <2> QED
      BY <2>1, <2>2 DEF Doomed
  <1>7. ASSUME NEW s \in D, q[s] = "pending"
        PROVE  p[s] = IF Dangling(q, need, s) THEN "errored"
                      ELSE IF s \in doomed THEN "skipped"
                      ELSE IF \A n \in need[s] : Satisfied(q, ok, n) THEN "ready"
                      ELSE "pending"
    <2>0. s \in doomed => p[s] \in {"errored", "skipped"}
      BY <1>6
    <2>1. CASE Dangling(q, need, s)
      <3>1. s \in over
        BY <1>5, <1>7, <2>1
      <3> QED
        BY <1>7, <2>1, <3>1 DEF Underway
    <2>2. CASE ~Dangling(q, need, s) /\ s \in doomed
      BY <1>7, <2>0, <2>2 DEF Underway
    <2>3. CASE ~Dangling(q, need, s) /\ s \notin doomed /\ \A n \in need[s] : Satisfied(q, ok, n)
      <3>1. p[s] # "pending"
        BY <1>3, <2>3, UnderwayFacts
      <3> QED
        BY <1>7, <2>3, <3>1 DEF Underway
    <2>4. CASE ~Dangling(q, need, s) /\ s \notin doomed /\ ~(\A n \in need[s] : Satisfied(q, ok, n))
      BY <1>7, <2>4 DEF Underway
    <2> QED
      BY <2>1, <2>2, <2>3, <2>4
  <1>8. \A s \in D : q[s] # "pending" => p[s] = q[s]
    BY DEF Underway
  <1> HIDE DEF doomed
  <1>9. p = [s \in D |-> IF q[s] # "pending" THEN q[s]
                          ELSE IF Dangling(q, need, s) THEN "errored"
                          ELSE IF s \in doomed THEN "skipped"
                          ELSE IF \A n \in need[s] : Satisfied(q, ok, n) THEN "ready"
                          ELSE "pending"]
    BY <1>1, <1>7, <1>8
  <1> QED
    BY <1>9 DEF doomed

\* graph::advance comes, on any finite plan, cyclic and dangling ones included, to what
\* the definition of Advance says: errored are the steps that need an undeclared name,
\* skipped the smallest set of steps that wait for one that will never let them run.
THEOREM LoopIsAdvance ==
  ASSUME NEW D, IsFiniteSet(D), NEW q \in [D -> StepStates], NEW need, NEW ok
  PROVE  AdvanceLoop(q, need, ok) = Advance(q, need, ok)
  <1> DEFINE f == AfterPasses(q, need, ok)
             N == Cardinality(D)
             S == {n \in Nat : Underway(f[n], q, need, ok, D)}
  <1>1. /\ f[0] = q /\ \A n \in Nat : f[n] \in [D -> StepStates]
        /\ \A n \in Nat : f[n + 1] = Pass(f[n], need, ok)
    BY PassesAreMade
  <1>2. Passes(q, need, ok) = f[N]
    BY DEF Passes, AfterPasses
  <1> HIDE DEF f
  <1>3. N \in Nat
    BY FS_CardinalityType
  <1>4. 0 \in S
    BY <1>1 DEF Underway
  <1>5. ASSUME NEW n \in Nat, n \in S PROVE n + 1 \in S
    <2>1. Underway(Pass(f[n], need, ok), q, need, ok, D)
      BY <1>5, UnderwayStep
    <2> QED
      BY <1>1, <2>1
  <1>6. N \in S
    <2> HIDE DEF S, N
    <2> QED
      BY <1>3, <1>4, <1>5, SetInduction
  <1>7. Underway(f[N], q, need, ok, D) /\ Pass(f[N], need, ok) = f[N]
    BY <1>2, <1>6, PassesConverge
  <1>8. DOMAIN q = D
    OBVIOUS
  <1>9. Advance(q, need, ok) =
          BreakCycles([s \in D |-> IF q[s] # "pending" THEN q[s]
                          ELSE IF Dangling(q, need, s) THEN "errored"
                          ELSE IF s \in Doomed(q, need, ok) THEN "skipped"
                          ELSE IF \A n \in need[s] : Satisfied(q, ok, n) THEN "ready"
                          ELSE "pending"])
    BY <1>8 DEF Advance
  <1> QED
    BY <1>2, <1>7, <1>9, UnderwayEnds DEF AdvanceLoop

\* What advance makes of steps: what is not pending stays, and a step is skipped only if
\* one is errored with it or blocks it.
LEMMA AdvanceMoves ==
  ASSUME NEW D, NEW q \in [D -> StepStates], NEW need, NEW ok
  PROVE  LET a == Advance(q, need, ok)
         IN  /\ a \in [D -> StepStates]
             /\ \A s \in D : q[s] # "pending" => a[s] = q[s]
             /\ \A s \in D : q[s] = "pending" => a[s] \in {"pending", "ready", "errored", "skipped"}
             /\ \A s \in D : q[s] = "pending" /\ a[s] = "skipped" =>
                               \E r \in D : a[r] = "errored" \/ Blocked(q, ok, r)
             /\ (\E s \in D : a[s] = "pending") => \E s \in D : a[s] \in {"ready", "leased", "running"}
  <1> DEFINE doomed == Doomed(q, need, ok)
             b == [s \in D |-> IF q[s] # "pending" THEN q[s]
                               ELSE IF Dangling(q, need, s) THEN "errored"
                               ELSE IF s \in doomed THEN "skipped"
                               ELSE IF \A n \in need[s] : Satisfied(q, ok, n)
                                    THEN "ready" ELSE "pending"]
             a == Advance(q, need, ok)
  <1>1. DOMAIN q = D
    OBVIOUS
  <1>2. a = BreakCycles(b)
    BY <1>1 DEF Advance
  <1>3. b \in [D -> StepStates]
    BY DEF StepStates
  <1>4. a = [s \in D |-> IF ~Live(b) /\ b[s] = "pending" THEN "errored" ELSE b[s]]
    BY <1>2, <1>3 DEF BreakCycles
  <1>5. ASSUME NEW s \in D, q[s] = "pending", a[s] = "skipped"
        PROVE  \E r \in D : a[r] = "errored" \/ Blocked(q, ok, r)
    <2>1. s \in doomed
      BY <1>4, <1>5 DEF StepStates
    <2>2. ~ClosedUnderBlocking({}, q, need, ok)
      BY <2>1, <1>1 DEF Doomed
    <2>3. PICK r \in D : /\ q[r] = "pending"
                         /\ Dangling(q, need, r) \/ (\E n \in need[r] : Blocked(q, ok, n))
      BY <2>2, <1>1 DEF ClosedUnderBlocking
    <2>4. CASE Dangling(q, need, r)
      BY <2>3, <2>4, <1>4
    <2>5. CASE \E n \in need[r] : Blocked(q, ok, n)
      BY <2>5, <1>1 DEF Blocked
    <2> QED
      BY <2>3, <2>4, <2>5
  <1>6. a \in [D -> StepStates]
    BY <1>3, <1>4 DEF StepStates
  <1>7. \A s \in D : q[s] # "pending" => a[s] = q[s]
    BY <1>4
  <1>8. \A s \in D : q[s] = "pending" => a[s] \in {"pending", "ready", "errored", "skipped"}
    BY <1>4
  <1>9. ASSUME NEW s \in D, a[s] = "pending" PROVE \E r \in D : a[r] \in {"ready", "leased", "running"}
    <2>1. Live(b)
      BY <1>4, <1>9
    <2>2. PICK r \in D : b[r] \in {"ready", "leased", "running"}
      BY <1>3, <2>1 DEF Live
    <2> QED
      BY <1>4, <2>2
  <1> HIDE DEF a
  <1> QED
    BY <1>5, <1>6, <1>7, <1>8, <1>9 DEF a

\* A state that a pass leaves alone comes out of all of them.
LEMMA PassesStay ==
  ASSUME NEW D, IsFiniteSet(D), NEW q \in [D -> StepStates], NEW need, NEW ok,
         Pass(q, need, ok) = q
  PROVE  Passes(q, need, ok) = q
  <1> DEFINE f == AfterPasses(q, need, ok)
             N == Cardinality(D)
             S == {n \in Nat : f[n] = q}
  <1>1. f[0] = q /\ \A n \in Nat : f[n + 1] = Pass(f[n], need, ok)
    BY PassesAreMade
  <1>2. Passes(q, need, ok) = f[N]
    BY DEF Passes, AfterPasses
  <1> HIDE DEF f
  <1>3. N \in Nat
    BY FS_CardinalityType
  <1>4. 0 \in S
    BY <1>1
  <1>5. ASSUME NEW n \in Nat, n \in S PROVE n + 1 \in S
    BY <1>1, <1>5
  <1>6. N \in S
    <2> HIDE DEF S, N
    <2> QED
      BY <1>3, <1>4, <1>5, SetInduction
  <1> QED
    BY <1>2, <1>6

\* Advancing what was advanced changes nothing.
LEMMA AdvanceIsStable ==
  ASSUME NEW D, IsFiniteSet(D), NEW q \in [D -> StepStates], NEW need, NEW ok
  PROVE  Advance(Advance(q, need, ok), need, ok) = Advance(q, need, ok)
  <1> DEFINE a == Advance(q, need, ok)
             p == Passes(q, need, ok)
  <1>1. a \in [D -> StepStates]
    BY AdvanceMoves
  <1>2. a = BreakCycles(p)
    BY LoopIsAdvance DEF AdvanceLoop
  <1>3. p \in [D -> StepStates] /\ Pass(p, need, ok) = p
    <2>1. \A n \in Nat : AfterPasses(q, need, ok)[n] \in [D -> StepStates]
      BY PassesAreMade
    <2>2. p = AfterPasses(q, need, ok)[Cardinality(D)]
      BY DEF Passes, AfterPasses
    <2> QED
      BY <2>1, <2>2, FS_CardinalityType, PassesConverge
  <1> HIDE DEF a, p
  <1>4. a = [s \in D |-> IF ~Live(p) /\ p[s] = "pending" THEN "errored" ELSE p[s]]
    BY <1>2, <1>3 DEF BreakCycles
  <1>5. Pass(a, need, ok) = a /\ BreakCycles(a) = a
    <2>1. CASE Live(p)
      <3>1. a = p
        BY <1>3, <1>4, <2>1
      <3> QED
        BY <1>2, <1>3, <3>1
    <2>2. CASE ~Live(p)
      <3>1. \A s \in D : a[s] # "pending"
        BY <1>4, <2>2
      <3>2. /\ Pass(a, need, ok) \in [D -> StepStates]
            /\ \A s \in D : Pass(a, need, ok)[s] = a[s]
        BY <1>1, <3>1, PassFacts
      <3>3. BreakCycles(a) = [s \in D |-> a[s]]
        BY <1>1, <3>1 DEF BreakCycles
      <3> QED
        BY <1>1, <3>2, <3>3
    <2> QED
      BY <2>1, <2>2
  <1>6. AdvanceLoop(a, need, ok) = a
    BY <1>1, <1>5, PassesStay DEF AdvanceLoop
  <1>7. Advance(a, need, ok) = a
    BY <1>1, <1>6, LoopIsAdvance
  <1> QED
    BY <1>7 DEF a

\* A step is skipped only beside one that is errored or failed the plan; the verdict is
\* what fold made of the steps.
DriveInv ==
  /\ needs \in [Steps -> SUBSET (Steps \cup {Ghost})] /\ tol \in SUBSET Steps
  /\ st \in [Steps -> StepStates] /\ \A s \in Steps : st[s] # "running"
  /\ \A s \in Steps : st[s] = "skipped" =>
       \E r \in Steps : st[r] = "errored" \/ (st[r] = "failed" /\ r \notin tol)
  /\ verdict # NoVerdict => verdict = Fold(st, tol)

LEMMA DriveStep == DriveInv /\ [GraphNext]_graphVars => DriveInv'
  <1> SUFFICES ASSUME DriveInv, [GraphNext]_graphVars PROVE DriveInv'
    OBVIOUS
  <1>1. CASE DriverPass
    <2> DEFINE a == Advance(st, needs, tol)
    <2>1. st' = a /\ verdict' = Fold(a, tol) /\ UNCHANGED <<needs, tol>>
      BY <1>1, LoopIsAdvance, PlanDriveAssumption DEF DriverPass, DriveInv
    <2>2. /\ a \in [Steps -> StepStates]
          /\ \A s \in Steps : st[s] # "pending" => a[s] = st[s]
          /\ \A s \in Steps : st[s] = "pending" => a[s] \in {"pending", "ready", "errored", "skipped"}
          /\ \A s \in Steps : st[s] = "pending" /\ a[s] = "skipped" =>
                               \E r \in Steps : a[r] = "errored" \/ Blocked(st, tol, r)
      BY AdvanceMoves DEF DriveInv
    <2> HIDE DEF a
    <2>3. \A s \in Steps : a[s] # "running"
      BY <2>2 DEF DriveInv
    <2>4. ASSUME NEW s \in Steps, a[s] = "skipped"
          PROVE  \E r \in Steps : a[r] = "errored" \/ (a[r] = "failed" /\ r \notin tol)
      <3>1. ASSUME NEW r \in Steps, st[r] = "skipped"
            PROVE  \E z \in Steps : a[z] = "errored" \/ (a[z] = "failed" /\ z \notin tol)
        <4>1. PICK z \in Steps : st[z] = "errored" \/ (st[z] = "failed" /\ z \notin tol)
          BY <3>1 DEF DriveInv
        <4> QED
          BY <2>2, <4>1
      <3>2. CASE st[s] # "pending"
        BY <2>2, <2>4, <3>1, <3>2
      <3>3. CASE st[s] = "pending"
        <4>1. PICK r \in Steps : a[r] = "errored" \/ Blocked(st, tol, r)
          BY <2>2, <2>4, <3>3
        <4>2. CASE a[r] = "errored"
          BY <4>2
        <4>3. CASE Blocked(st, tol, r)
          <5>1. st[r] \in {"failed", "errored", "skipped"} /\ (st[r] = "failed" => r \notin tol)
            BY <4>3 DEF Blocked, Satisfied, DriveInv
          <5> QED
            BY <2>2, <3>1, <5>1
        <4> QED
          BY <4>1, <4>2, <4>3
      <3> QED
        BY <3>2, <3>3
    <2> QED
      BY <2>1, <2>2, <2>3, <2>4 DEF DriveInv
  <1>2. CASE StepMoves
    <2>1. PICK s \in Steps, o \in {"leased", "passed", "failed", "errored"} :
            /\ st[s] \in {"ready", "leased"} /\ st' = [st EXCEPT ![s] = o]
            /\ verdict = NoVerdict /\ UNCHANGED <<needs, tol, verdict>>
      BY <1>2 DEF StepMoves
    <2>2. st' \in [Steps -> StepStates] /\ \A r \in Steps : st'[r] # "running"
      BY <2>1 DEF DriveInv, StepStates
    <2>3. ASSUME NEW r \in Steps, st'[r] = "skipped"
          PROVE  \E z \in Steps : st'[z] = "errored" \/ (st'[z] = "failed" /\ z \notin tol)
      <3>1. st[r] = "skipped"
        BY <2>1, <2>3 DEF DriveInv
      <3>2. PICK z \in Steps : st[z] = "errored" \/ (st[z] = "failed" /\ z \notin tol)
        BY <3>1 DEF DriveInv
      <3>3. st'[z] = st[z]
        BY <2>1, <3>2 DEF DriveInv
      <3> QED
        BY <3>2, <3>3
    <2> QED
      BY <2>1, <2>2, <2>3 DEF DriveInv
  <1>3. CASE UNCHANGED graphVars
    BY <1>3 DEF graphVars, DriveInv, Fold, FailedFatally, StepTerminal
  <1> QED
    BY <1>1, <1>2, <1>3 DEF GraphNext

LEMMA DriveInvariant == GraphSpec => []DriveInv
  <1>1. GraphInit => DriveInv
    BY DEF GraphInit, DriveInv, StepStates
  <1> QED
    BY <1>1, DriveStep, PTL DEF GraphSpec

\* phase_run hands a job of any plan to Hull as green only when every one of its steps
\* passed, was reused, or failed where the author tolerates it: a skipped step never
\* hides in a green job.  On the way its loop is the definition, and it is stable.
THEOREM GreenJobsAreComplete == GraphSpec => []GreenIsComplete
  <1>1. DriveInv => GreenIsComplete
    <2> SUFFICES ASSUME DriveInv PROVE GreenIsComplete
      OBVIOUS
    <2>1. AdvanceLoop(st, needs, tol) = Advance(st, needs, tol)
      BY LoopIsAdvance, PlanDriveAssumption DEF DriveInv
    <2>2. Advance(Advance(st, needs, tol), needs, tol) = Advance(st, needs, tol)
      BY AdvanceIsStable, PlanDriveAssumption DEF DriveInv
    <2>3. ASSUME verdict = "green", NEW s \in Steps
          PROVE  st[s] \in {"passed", "cached"} \/ (st[s] = "failed" /\ s \in tol)
      <3>1. Fold(st, tol) = "green"
        BY <2>3 DEF DriveInv, NoVerdict
      <3>2. /\ FailedFatally(st, tol) = {}
            /\ \A r \in Steps : StepTerminal(st[r]) /\ st[r] # "errored"
        BY <3>1 DEF DriveInv, Fold, NoVerdict
      <3>3. \A r \in Steps : st[r] = "failed" => r \in tol
        BY <3>2 DEF DriveInv, FailedFatally
      <3>4. st[s] # "skipped"
        BY <3>2, <3>3 DEF DriveInv
      <3> QED
        BY <3>2, <3>3, <3>4 DEF StepTerminal
    <2> QED
      BY <2>1, <2>2, <2>3 DEF GreenIsComplete
  <1> QED
    BY <1>1, DriveInvariant, PTL

\* advance breaks every cycle and every dangling need, so that phase_run never sleeps on
\* a job of which nothing is ready or under way.
THEOREM PlansAreDecided == GraphSpec => []EveryPlanIsDecided
  <1>1. DriveInv => EveryPlanIsDecided
    <2> DEFINE a == Advance(st, needs, tol)
    <2> SUFFICES ASSUME DriveInv, Fold(a, tol) = NoVerdict
                 PROVE  \E s \in Steps : a[s] \in {"ready", "leased"}
      BY LoopIsAdvance, PlanDriveAssumption DEF EveryPlanIsDecided, DriveInv
    <2>1. /\ a \in [Steps -> StepStates]
          /\ \A s \in Steps : st[s] # "pending" => a[s] = st[s]
          /\ \A s \in Steps : st[s] = "pending" => a[s] \in {"pending", "ready", "errored", "skipped"}
          /\ (\E s \in Steps : a[s] = "pending") => \E s \in Steps : a[s] \in {"ready", "leased", "running"}
      BY AdvanceMoves DEF DriveInv
    <2> HIDE DEF a
    <2>2. PICK s \in Steps : ~StepTerminal(a[s])
      BY <2>1 DEF Fold, NoVerdict
    <2>3. \A r \in Steps : a[r] # "running"
      BY <2>1 DEF DriveInv
    <2> QED
      BY <2>1, <2>2, <2>3 DEF StepTerminal, StepStates
  <1> QED
    BY <1>1, DriveInvariant, PTL

-----------------------------------------------------------------------------
\* PlanChild: the evaluation of a pipeline in a process of its own.

\* The counters of the allocator, by what the child is doing, and what the parent has
\* made of it: a child that has ended does not move again.
EvalInv ==
  /\ live \in Nat /\ peak \in Nat /\ ceiling \in Nat /\ cost \in Nat
  /\ parent \in {"find", "wait", "reap", "returned"}
  /\ child \in {"none"} \cup Running \cup Exits
  /\ parent = "find" => child = "none"
  /\ parent # "returned" => result = "none"
  /\ child \in {"evaluating", "replying", "over_budget", "ok"} => Budget <= ceiling
  /\ child \in {"evaluating", "replying", "ok"} => live <= peak /\ peak <= ceiling
  /\ child = "over_budget" => live > ceiling
  /\ child = "ok" => reply = "whole"
  /\ result = "response" => child = "ok" /\ reply = "whole" /\ ~timedOut
  /\ result = "memory" => child = "over_budget" /\ cost = Budget
  /\ result = "time" => timedOut

\* evaluate_measured hands a plan on only when the child inside its budget wrote all of
\* it and ended well, and the allocator's ceiling is never crossed by a child that can
\* still answer, whatever its budget and whenever the clock or the allocator ends it.
THEOREM EvaluationsAreContained == ChildSpec => []EvaluationIsContained
  <1>1. ChildInit => EvalInv
    BY PlanChildAssumption DEF ChildInit, EvalInv, Unarmed, Running, Exits
  <1>2. EvalInv /\ [ChildNext]_childVars => EvalInv'
    <2> SUFFICES ASSUME EvalInv, [ChildNext]_childVars PROVE EvalInv'
      OBVIOUS
    <2> USE PlanChildAssumption DEF EvalInv, Running, Exits
    <2>1. CASE NoWorker
      BY <2>1 DEF NoWorker, Returns
    <2>2. CASE Spawn
      BY <2>2 DEF Spawn
    <2>3. CASE NoThread
      BY <2>3 DEF NoThread, Returns
    <2>4. CASE IoWrote
      BY <2>4 DEF IoWrote
    <2>5. CASE IoDone
      BY <2>5 DEF IoDone
    <2>6. CASE Heard
      BY <2>6 DEF Heard
    <2>7. CASE TimesOut
      BY <2>7 DEF TimesOut
    <2>8. CASE Reap
      <3>1. /\ result' = Verdict /\ cost' = IF Verdict = "response" THEN peak ELSE Budget
            /\ parent' = "returned" /\ child \in Exits
            /\ UNCHANGED <<timedOut, child, live, peak, ceiling, reply>>
        BY <2>8 DEF Reap, Returns
      <3>2. /\ Verdict \in {"time", "memory", "internal", "response"}
            /\ Verdict = "response" => child = "ok" /\ reply = "whole" /\ ~timedOut
            /\ Verdict = "memory" => child = "over_budget"
            /\ Verdict = "time" => timedOut
        <4>1. CASE timedOut
          BY <4>1 DEF Verdict
        <4>2. CASE ~timedOut
          BY <4>2 DEF Verdict
        <4> QED
          BY <4>1, <4>2
      <3> QED
        BY <3>1, <3>2
    <2>9. ASSUME NEW n \in 0..1, Arm(n) PROVE EvalInv'
      BY <2>9 DEF Arm
    <2>10. ASSUME NEW n \in 1..2, Allocates(n) PROVE EvalInv'
      BY <2>10 DEF Allocates, Charge
    <2>11. ASSUME NEW n \in 1..2, Frees(n) PROVE EvalInv'
      BY <2>11 DEF Frees
    <2>12. CASE Evaluated
      BY <2>12 DEF Evaluated
    <2>13. CASE Writes
      BY <2>13 DEF Writes
    <2>14. CASE Crashes
      BY <2>14 DEF Crashes
    <2>15. CASE UNCHANGED childVars
      BY <2>15 DEF childVars
    <2> QED
      BY <2>1, <2>2, <2>3, <2>4, <2>5, <2>6, <2>7, <2>8, <2>9, <2>10, <2>11, <2>12,
         <2>13, <2>14, <2>15 DEF ChildNext
  <1>3. EvalInv => EvaluationIsContained
    BY PlanChildAssumption
       DEF EvalInv, EvaluationIsContained, ResponseIsWhole, LiveIsBounded
  <1> QED
    BY <1>1, <1>2, <1>3, PTL DEF ChildSpec

\* What holds of i whenever it holds of all that comes after it, holds up to n.
LEMMA DownInduction ==
  ASSUME NEW n \in Nat, NEW S, \A i \in 1..n : (\A j \in 1..n : j > i => j \in S) => i \in S
  PROVE  \A i \in 1..n : i \in S
  <1> SUFFICES ASSUME NEW i \in 1..n, i \notin S PROVE FALSE
    OBVIOUS
  <1> DEFINE T == {k \in Nat : k < n /\ n - k \notin S}
  <1>1. n - i \in T
    OBVIOUS
  <1>2. PICK m \in T : \A k \in T : m <= k
    <2>1. T \subseteq Nat /\ T # {}
      BY <1>1
    <2> HIDE DEF T
    <2> QED
      BY <2>1, LeastElement
  <1>3. ASSUME NEW j \in 1..n, j > n - m PROVE j \in S
    <2>1. n - j \in Nat /\ n - j < n /\ n - (n - j) = j /\ n - j < m
      BY <1>3, <1>2
    <2> QED
      BY <2>1, <1>2
  <1>4. n - m \in 1..n
    BY <1>2
  <1> QED
    BY <1>2, <1>3, <1>4

-----------------------------------------------------------------------------
\* Masking.

\* What the masked output is made of.
Marks == Bytes \cup {Star}

\* out is the loop of replace_all on s, from the place i on.
Replaces(out, s, v, i) ==
  out[i] = IF i > Len(s) THEN <<>>
           ELSE IF OccursAt(v, s, i) THEN <<Star>> \o out[i + Len(v)]
           ELSE <<s[i]>> \o out[i + 1]

LEMMA ReplaceTyped ==
  ASSUME NEW s \in Seq(Marks), NEW v \in Seq(Bytes), Len(v) > 0, NEW R,
         \A i \in 1..Len(s) + 1 : Replaces(R, s, v, i)
  PROVE  \A i \in 1..Len(s) + 1 : R[i] \in Seq(Marks)
  <1> DEFINE T == {i \in 1..Len(s) + 1 : R[i] \in Seq(Marks)}
  <1>0. Len(s) \in Nat /\ Len(s) + 1 \in Nat /\ Len(v) \in Nat
    OBVIOUS
  <1>1. ASSUME NEW i \in 1..Len(s) + 1, \A j \in 1..Len(s) + 1 : j > i => j \in T PROVE i \in T
    <2>0. Replaces(R, s, v, i)
      OBVIOUS
    <2>1. CASE i > Len(s)
      <3>1. R[i] = <<>>
        BY <2>0, <2>1 DEF Replaces
      <3>2. <<>> \in Seq(Marks)
        OBVIOUS
      <3>9. R[i] \in Seq(Marks)
        BY <3>1, <3>2, Zenon
      <3> QED
        BY <3>9
    <2>2. CASE i <= Len(s) /\ OccursAt(v, s, i)
      <3>1. i + Len(v) \in 1..Len(s) + 1 /\ i + Len(v) > i
        BY <2>2, <1>0 DEF OccursAt
      <3>2. R[i + Len(v)] \in Seq(Marks) /\ <<Star>> \in Seq(Marks)
        BY <3>1, <1>1 DEF Marks
      <3>3. R[i] = <<Star>> \o R[i + Len(v)]
        BY <2>0, <2>2, <1>0 DEF Replaces
      <3>9. R[i] \in Seq(Marks)
        BY <3>2, <3>3, ConcatProperties, Zenon
      <3> QED
        BY <3>9
    <2>3. CASE i <= Len(s) /\ ~OccursAt(v, s, i)
      <3>1. i + 1 \in 1..Len(s) + 1 /\ i + 1 > i
        BY <2>3, <1>0
      <3>2. R[i + 1] \in Seq(Marks) /\ <<s[i]>> \in Seq(Marks)
        BY <3>1, <1>1, <2>3, <1>0
      <3>3. R[i] = <<s[i]>> \o R[i + 1]
        BY <2>0, <2>3, <1>0 DEF Replaces
      <3>9. R[i] \in Seq(Marks)
        BY <3>2, <3>3, ConcatProperties, Zenon
      <3> QED
        BY <3>9
    <2> QED
      BY <2>1, <2>2, <2>3, <1>0
  <1>2. \A i \in 1..Len(s) + 1 : i \in T
    <2> HIDE DEF T
    <2> QED
      BY <1>0, <1>1, DownInduction
  <1> QED
    BY <1>2

\* The loop ends, as it moves on in every turn.
LEMMA ReplaceEnds ==
  ASSUME NEW s \in Seq(Marks), NEW v \in Seq(Bytes), Len(v) > 0
  PROVE  /\ ReplaceFrom(s, v) \in [1..Len(s) + 1 -> Seq(Marks)]
         /\ \A i \in 1..Len(s) + 1 : Replaces(ReplaceFrom(s, v), s, v, i)
  <1> DEFINE D == 1..Len(s) + 1
             N == Len(s) + 1
             Good(out, k) == out \in [D -> Seq(Marks)] /\ \A i \in D : i > N - k => Replaces(out, s, v, i)
             S == {k \in Nat : \E out : Good(out, k)}
  <1>0. Len(s) \in Nat /\ N \in Nat /\ Len(v) \in Nat /\ s \in [1..Len(s) -> Marks]
    OBVIOUS
  <1>1. 0 \in S
    <2>1. Good([i \in D |-> <<>>], 0)
      BY <1>0
    <2> QED
      BY <2>1
  <1>2. ASSUME NEW k \in Nat, k \in S PROVE k + 1 \in S
    <2>1. PICK out : Good(out, k)
      BY <1>2
    <2>2. CASE k >= N
      <3>1. Good(out, k + 1)
        BY <2>1, <2>2, <1>0
      <3> QED
        BY <3>1
    <2>3. CASE k < N
      <3> DEFINE j == N - k
                 one == IF j > Len(s) THEN <<>>
                        ELSE IF OccursAt(v, s, j) THEN <<Star>> \o out[j + Len(v)]
                        ELSE <<s[j]>> \o out[j + 1]
                 more == [out EXCEPT ![j] = one]
      <3>1. j \in D /\ j \in Nat
        BY <2>3, <1>0
      <3>2. OccursAt(v, s, j) => j + Len(v) \in D
        BY <3>1, <1>0 DEF OccursAt
      <3>3. one \in Seq(Marks)
        <4>1. CASE j > Len(s)
          BY <4>1
        <4>2. CASE j <= Len(s) /\ OccursAt(v, s, j)
          <5>1. out[j + Len(v)] \in Seq(Marks)
            BY <3>2, <4>2, <2>1
          <5>2. <<Star>> \in Seq(Marks)
            BY DEF Marks
          <5> QED
            BY <4>2, <5>1, <5>2, <3>1, <1>0
        <4>3. CASE j <= Len(s) /\ ~OccursAt(v, s, j)
          <5>0. j + 1 \in D
            BY <3>1, <4>3, <1>0
          <5>1. out[j + 1] \in Seq(Marks)
            BY <5>0, <2>1
          <5>2. <<s[j]>> \in Seq(Marks)
            BY <4>3, <3>1, <1>0
          <5> QED
            BY <4>3, <5>1, <5>2, <3>1, <1>0
        <4> QED
          BY <4>1, <4>2, <4>3, <3>1, <1>0
      <3>4. more \in [D -> Seq(Marks)]
        BY <3>3, <3>1, <2>1
      <3>5. ASSUME NEW i \in D, i > j PROVE more[i] = out[i] /\ Replaces(out, s, v, i)
        BY <3>5, <2>1, <3>1, <1>0
      <3>6. ASSUME NEW i \in D, i > N - (k + 1) PROVE Replaces(more, s, v, i)
        <4>1. CASE i = j
          <5>1. more[j] = one
            BY <3>1, <2>1
          <5>2. OccursAt(v, s, j) => more[j + Len(v)] = out[j + Len(v)]
            BY <3>2, <3>5, <3>1, <1>0
          <5>3. j <= Len(s) => more[j + 1] = out[j + 1]
            BY <3>5, <3>1, <1>0
          <5> HIDE DEF more
          <5> QED
            BY <4>1, <5>1, <5>2, <5>3, <3>1, <1>0 DEF Replaces
        <4>2. CASE i > j
          <5>1. OccursAt(v, s, i) => more[i + Len(v)] = out[i + Len(v)]
            <6>1. OccursAt(v, s, i) => i + Len(v) \in D /\ i + Len(v) > j
              BY <4>2, <1>0, <3>1 DEF OccursAt
            <6> QED
              BY <6>1, <3>5
          <5>2. i <= Len(s) => more[i + 1] = out[i + 1]
            BY <3>5, <4>2, <3>1, <1>0
          <5>3. more[i] = out[i] /\ Replaces(out, s, v, i)
            BY <3>5, <4>2
          <5> HIDE DEF more
          <5> QED
            BY <5>1, <5>2, <5>3, <1>0 DEF Replaces
        <4>3. i = j \/ i > j
          BY <3>6, <2>3, <1>0
        <4> QED
          BY <4>1, <4>2, <4>3
      <3>7. Good(more, k + 1)
        <4> HIDE DEF more
        <4> QED
          BY <3>4, <3>6
      <3>8. k + 1 \in Nat
        OBVIOUS
      <3> HIDE DEF more, Good
      <3> QED
        BY <3>7, <3>8
    <2> QED
      BY <2>2, <2>3, <1>0
  <1>3. N \in S
    <2> HIDE DEF S
    <2> QED
      BY <1>0, <1>1, <1>2, SetInduction
  <1>4. PICK out : out \in [D -> Seq(Marks)] /\ \A i \in D : Replaces(out, s, v, i)
    <2>1. PICK out : Good(out, N)
      BY <1>3
    <2>2. \A i \in D : i > N - N
      BY <1>0
    <2> QED
      BY <2>1, <2>2
  <1>5. out = [i \in D |-> IF i > Len(s) THEN <<>>
                           ELSE IF OccursAt(v, s, i) THEN <<Star>> \o out[i + Len(v)]
                           ELSE <<s[i]>> \o out[i + 1]]
    BY <1>4 DEF Replaces
  <1>6. ReplaceFrom(s, v) = [i \in D |-> IF i > Len(s) THEN <<>>
                           ELSE IF OccursAt(v, s, i) THEN <<Star>> \o ReplaceFrom(s, v)[i + Len(v)]
                           ELSE <<s[i]>> \o ReplaceFrom(s, v)[i + 1]]
    BY <1>5 DEF ReplaceFrom
  <1> DEFINE R == ReplaceFrom(s, v)
  <1>7. ASSUME NEW i \in D PROVE Replaces(R, s, v, i)
    <2> HIDE DEF R
    <2> QED
      BY <1>6 DEF Replaces, R
  <1>8. R = [i \in D |-> R[i]]
    BY <1>6
  <1>9. \A i \in D : R[i] \in Seq(Marks)
    <2> HIDE DEF R
    <2> QED
      BY <1>7, ReplaceTyped
  <1> HIDE DEF R
  <1>10. R \in [D -> Seq(Marks)]
    BY <1>8, <1>9
  <1> QED
    BY <1>7, <1>10 DEF R

\* m marks of t from p on, none of them a star.
Plain(t, p, m) ==
  p >= 1 /\ m >= 1 /\ p + m - 1 <= Len(t) /\ \A q \in 0..m - 1 : t[p + q] # Star

\* They stand in s from j on, where the loop found no v.
Stand(t, p, m, s, v, j) ==
  /\ j \in 1..Len(s) /\ j + m - 1 <= Len(s) /\ ~OccursAt(v, s, j)
  /\ \A q \in 0..m - 1 : t[p + q] = s[j + q]

\* What is not a star was copied from s, together with what it is next to.
LEMMA PlainIsCopied ==
  ASSUME NEW s \in Seq(Marks), NEW v \in Seq(Bytes), Len(v) > 0, NEW R,
         R \in [1..Len(s) + 1 -> Seq(Marks)],
         \A i \in 1..Len(s) + 1 : Replaces(R, s, v, i)
  PROVE  \A i \in 1..Len(s) + 1 : \A p, m \in Nat :
           Plain(R[i], p, m) => \E j \in 1..Len(s) : Stand(R[i], p, m, s, v, j) /\ (p = 1 => j = i)
  <1> DEFINE D == 1..Len(s) + 1
             Copied(i) == \A p, m \in Nat : Plain(R[i], p, m) =>
                            \E j \in 1..Len(s) : Stand(R[i], p, m, s, v, j) /\ (p = 1 => j = i)
             T == {i \in D : Copied(i)}
  <1>0. Len(s) \in Nat /\ Len(s) + 1 \in Nat /\ Len(v) \in Nat /\ s \in [1..Len(s) -> Marks]
    OBVIOUS
  <1>1. ASSUME NEW i \in D, NEW k \in D, NEW x \in Marks, R[i] = <<x>> \o R[k], Copied(k),
               NEW p \in Nat, NEW m \in Nat, Plain(R[i], p, m), p # 1
        PROVE  \E j \in 1..Len(s) : Stand(R[i], p, m, s, v, j)
    <2>1. R[k] \in Seq(Marks) /\ Len(R[k]) \in Nat /\ <<x>> \in Seq(Marks) /\ Len(<<x>>) = 1
      OBVIOUS
    <2>2. Len(R[i]) = Len(R[k]) + 1 /\ \A q \in 2..Len(R[i]) : R[i][q] = R[k][q - 1]
      <3>1. /\ Len(<<x>> \o R[k]) = 1 + Len(R[k])
            /\ \A q \in 1..1 + Len(R[k]) : (<<x>> \o R[k])[q] = IF q <= 1 THEN <<x>>[q] ELSE R[k][q - 1]
        BY <2>1, ConcatProperties
      <3> QED
        BY <3>1, <2>1, <1>1
    <2>3. p >= 2 /\ p - 1 \in Nat /\ \A q \in 0..m - 1 : p + q \in 2..Len(R[i]) /\ R[i][p + q] = R[k][p - 1 + q]
      BY <1>1, <2>1, <2>2 DEF Plain
    <2>4. Plain(R[k], p - 1, m)
      <3>1. \A q \in 0..m - 1 : R[k][p - 1 + q] # Star
        BY <2>3, <1>1 DEF Plain
      <3>2. m >= 1 /\ p + m - 1 <= Len(R[i])
        BY <1>1 DEF Plain
      <3>3. p - 1 >= 1 /\ (p - 1) + m - 1 <= Len(R[k])
        BY <3>2, <2>1, <2>2, <2>3
      <3> QED
        BY <3>1, <3>2, <3>3 DEF Plain
    <2>5. PICK j \in 1..Len(s) : Stand(R[k], p - 1, m, s, v, j)
      BY <2>3, <2>4, <1>1
    <2>6. Stand(R[i], p, m, s, v, j)
      BY <2>5, <2>3 DEF Stand
    <2> QED
      BY <2>6
  <1>2. ASSUME NEW i \in D, \A j \in D : j > i => j \in T PROVE i \in T
    <2> SUFFICES ASSUME NEW p \in Nat, NEW m \in Nat, Plain(R[i], p, m)
                 PROVE  \E j \in 1..Len(s) : Stand(R[i], p, m, s, v, j) /\ (p = 1 => j = i)
      OBVIOUS
    <2>0. Replaces(R, s, v, i) /\ R[i] \in Seq(Marks)
      OBVIOUS
    <2>1. i <= Len(s)
      <3>1. i > Len(s) => R[i] = <<>>
        BY <2>0 DEF Replaces
      <3>2. Len(R[i]) >= 1
        BY <2>0 DEF Plain
      <3> QED
        BY <3>1, <3>2, <1>0
    <2>2. CASE OccursAt(v, s, i)
      <3>1. i + Len(v) \in D /\ i + Len(v) > i
        BY <2>1, <2>2, <1>0 DEF OccursAt
      <3>2. Copied(i + Len(v)) /\ R[i + Len(v)] \in Seq(Marks) /\ Star \in Marks
        BY <3>1, <1>2 DEF Marks
      <3>3. R[i] = <<Star>> \o R[i + Len(v)]
        <4>1. ~(i > Len(s))
          BY <2>1, <1>0
        <4> QED
          BY <2>0, <2>2, <4>1, Zenon DEF Replaces
      <3>4. R[i][1] = Star
        BY <3>2, <3>3
      <3>5. p # 1
        <4>1. m >= 1 /\ (0 \in 0..m - 1 => R[i][p + 0] # Star)
          BY DEF Plain
        <4>2. p + 0 = p /\ 0 \in 0..m - 1
          BY <4>1
        <4> QED
          BY <3>4, <4>1, <4>2
      <3> HIDE DEF Copied, D
      <3> QED
        BY <3>1, <3>2, <3>3, <3>5, <1>1
    <2>3. CASE ~OccursAt(v, s, i)
      <3>1. i + 1 \in D /\ i + 1 > i
        BY <2>1, <1>0
      <3>2. Copied(i + 1) /\ R[i + 1] \in Seq(Marks) /\ s[i] \in Marks
        BY <3>1, <1>2, <2>1, <1>0
      <3>3. R[i] = <<s[i]>> \o R[i + 1]
        <4>1. ~(i > Len(s))
          BY <2>1, <1>0
        <4> QED
          BY <2>0, <2>3, <4>1, Zenon DEF Replaces
      <3>4. CASE p # 1
        <4> HIDE DEF Copied, D
        <4> QED
          BY <3>1, <3>2, <3>3, <3>4, <1>1
      <3>5. CASE p = 1
        <4>1. /\ Len(R[i]) = Len(R[i + 1]) + 1 /\ R[i][1] = s[i]
              /\ \A q \in 2..Len(R[i]) : R[i][q] = R[i + 1][q - 1]
          <5>0. <<s[i]>> \in Seq(Marks) /\ Len(<<s[i]>>) = 1 /\ <<s[i]>>[1] = s[i] /\ Len(R[i + 1]) \in Nat
            BY <3>2
          <5>1. /\ Len(<<s[i]>> \o R[i + 1]) = 1 + Len(R[i + 1])
                /\ \A q \in 1..1 + Len(R[i + 1]) :
                     (<<s[i]>> \o R[i + 1])[q] = IF q <= 1 THEN <<s[i]>>[q] ELSE R[i + 1][q - 1]
            BY <5>0, <3>2, ConcatProperties
          <5> QED
            BY <5>0, <5>1, <3>3
        <4>2. CASE m = 1
          <5>1. Stand(R[i], 1, 1, s, v, i)
            BY <4>1, <2>1, <2>3, <1>0 DEF Stand
          <5> QED
            BY <5>1, <3>5, <4>2, <2>1
        <4>3. CASE m # 1
          <5>0. m >= 2 /\ m - 1 \in Nat /\ m <= Len(R[i]) /\ Len(R[i + 1]) \in Nat
            BY <4>3, <3>5, <3>2 DEF Plain
          <5>1. ASSUME NEW q \in 0..m - 2 PROVE R[i + 1][1 + q] = R[i][2 + q]
            <6>1. 2 + q \in 2..Len(R[i]) /\ (2 + q) - 1 = 1 + q
              BY <5>0
            <6> QED
              BY <6>1, <4>1
          <5>2. Plain(R[i + 1], 1, m - 1)
            <6>1. ASSUME NEW q \in 0..m - 2 PROVE R[i + 1][1 + q] # Star
              <7>1. 1 + q \in 0..m - 1 /\ 1 + (1 + q) = 2 + q
                BY <5>0
              <7>2. R[i][p + (1 + q)] # Star
                BY <7>1 DEF Plain
              <7> QED
                BY <7>1, <7>2, <3>5, <5>1
            <6>2. (m - 1) - 1 = m - 2 /\ m - 1 >= 1 /\ 1 + (m - 1) - 1 <= Len(R[i + 1])
              BY <5>0, <4>1
            <6> QED
              BY <6>1, <6>2 DEF Plain
          <5>3. PICK j \in 1..Len(s) : Stand(R[i + 1], 1, m - 1, s, v, j) /\ j = i + 1
            BY <5>0, <5>2, <3>2
          <5>4. ASSUME NEW q \in 0..m - 1 PROVE R[i][1 + q] = s[i + q]
            <6>1. CASE q = 0
              BY <6>1, <4>1
            <6>2. CASE q # 0
              <7>1. q - 1 \in 0..m - 2 /\ 2 + (q - 1) = 1 + q /\ (i + 1) + (q - 1) = i + q /\ 1 + (q - 1) = q
                BY <6>2, <5>0
              <7>2. R[i + 1][1 + (q - 1)] = R[i][2 + (q - 1)]
                BY <7>1, <5>1
              <7>3. R[i + 1][1 + (q - 1)] = s[(i + 1) + (q - 1)]
                <8>1. (m - 1) - 1 = m - 2
                  BY <5>0
                <8>2. \A n \in 0..m - 2 : R[i + 1][1 + n] = s[(i + 1) + n]
                  BY <8>1, <5>3 DEF Stand
                <8> QED
                  BY <8>2, <7>1
              <7> QED
                BY <7>1, <7>2, <7>3
            <6> QED
              BY <6>1, <6>2
          <5>5. Stand(R[i], 1, m, s, v, i)
            BY <5>3, <5>4, <2>1, <2>3, <5>0, <1>0 DEF Stand
          <5> QED
            BY <5>5, <3>5, <2>1
        <4> QED
          BY <4>2, <4>3
      <3> QED
        BY <3>4, <3>5
    <2> QED
      BY <2>2, <2>3
  <1>3. \A i \in D : i \in T
    <2> HIDE DEF T
    <2> QED
      BY <1>0, <1>2, DownInduction
  <1> QED
    BY <1>3

\* An occurrence, mark by mark.
LEMMA OccursByMarks ==
  ASSUME NEW t \in Seq(Marks), NEW w \in Seq(Bytes), Len(w) > 0, NEW p \in Nat, p >= 1
  PROVE  OccursAt(w, t, p) <=> p + Len(w) - 1 <= Len(t) /\ \A q \in 0..Len(w) - 1 : t[p + q] = w[q + 1]
  <1> DEFINE n == p + Len(w) - 1
             sub == SubSeq(t, p, n)
  <1>0. Len(w) \in Nat /\ Len(t) \in Nat /\ n \in Nat /\ w \in Seq(Marks) /\ t \in [1..Len(t) -> Marks]
    BY SeqMonotonic DEF Marks
  <1> SUFFICES ASSUME n <= Len(t)
               PROVE  sub = w <=> \A q \in 0..Len(w) - 1 : t[p + q] = w[q + 1]
    BY <1>0 DEF OccursAt
  <1>1. \A i \in p..n : t[i] \in Marks
    BY <1>0
  <1>2. /\ sub \in Seq(Marks) /\ Len(sub) = Len(w)
        /\ \A i \in 1..Len(w) : sub[i] = t[p + i - 1]
    <2>1. /\ sub \in Seq(Marks) /\ Len(sub) = IF p <= n THEN n - p + 1 ELSE 0
          /\ \A i \in 1..n - p + 1 : sub[i] = t[p + i - 1]
      BY <1>0, <1>1, SubSeqProperties
    <2>2. p <= n /\ n - p + 1 = Len(w)
      BY <1>0
    <2> HIDE DEF sub, n
    <2> QED
      BY <2>1, <2>2
  <1> HIDE DEF sub, n
  <1>3. ASSUME sub = w, NEW q \in 0..Len(w) - 1 PROVE t[p + q] = w[q + 1]
    <2>1. q + 1 \in 1..Len(w) /\ p + (q + 1) - 1 = p + q
      BY <1>0
    <2> QED
      BY <2>1, <1>2, <1>3
  <1>4. ASSUME \A q \in 0..Len(w) - 1 : t[p + q] = w[q + 1] PROVE sub = w
    <2>1. ASSUME NEW i \in 1..Len(sub) PROVE sub[i] = w[i]
      <3>1. i - 1 \in 0..Len(w) - 1 /\ p + (i - 1) = p + i - 1 /\ (i - 1) + 1 = i /\ i \in 1..Len(w)
        BY <1>0, <1>2
      <3>2. t[p + (i - 1)] = w[(i - 1) + 1]
        BY <3>1, <1>4
      <3> QED
        BY <3>1, <3>2, <1>2
    <2> QED
      BY <2>1, <1>0, <1>2, SeqEqual
  <1> QED
    BY <1>3, <1>4

\* The loop makes nothing longer, and copies what has no v in it.
LEMMA ReplaceCopies ==
  ASSUME NEW s \in Seq(Marks), NEW v \in Seq(Bytes), Len(v) > 0, NEW R,
         R \in [1..Len(s) + 1 -> Seq(Marks)],
         \A i \in 1..Len(s) + 1 : Replaces(R, s, v, i)
  PROVE  \A i \in 1..Len(s) + 1 :
           /\ Len(R[i]) <= Len(s) + 1 - i
           /\ ~Occurs(v, s) => R[i] = SubSeq(s, i, Len(s))
  <1> DEFINE D == 1..Len(s) + 1
             T == {i \in D : Len(R[i]) <= Len(s) + 1 - i /\ (~Occurs(v, s) => R[i] = SubSeq(s, i, Len(s)))}
  <1>0. Len(s) \in Nat /\ Len(s) + 1 \in Nat /\ Len(v) \in Nat /\ s \in [1..Len(s) -> Marks]
    OBVIOUS
  <1>1. ASSUME NEW i \in D, \A j \in D : j > i => j \in T PROVE i \in T
    <2>0. Replaces(R, s, v, i) /\ R[i] \in Seq(Marks)
      OBVIOUS
    <2>1. CASE i > Len(s)
      <3>1. R[i] = <<>>
        BY <2>0, <2>1 DEF Replaces
      <3>2. Len(R[i]) = 0 /\ i = Len(s) + 1
        BY <3>1, <2>1, <1>0
      <3>3. SubSeq(s, i, Len(s)) = <<>>
        BY <2>1, <1>0, SubSeqEmpty
      <3> QED
        BY <3>1, <3>2, <3>3, <1>0
    <2>2. CASE i <= Len(s) /\ OccursAt(v, s, i)
      <3>1. i + Len(v) \in D /\ i + Len(v) > i /\ i \in 1..Len(s)
        BY <2>2, <1>0 DEF OccursAt
      <3>2. R[i + Len(v)] \in Seq(Marks) /\ Len(R[i + Len(v)]) <= Len(s) + 1 - (i + Len(v)) /\ <<Star>> \in Seq(Marks)
        <4>1. i + Len(v) \in T
          BY <3>1, <1>1
        <4>2. R[i + Len(v)] \in Seq(Marks)
          BY <3>1
        <4>3. <<Star>> \in Seq(Marks)
          BY DEF Marks
        <4> QED
          BY <4>1, <4>2, <4>3
      <3>3. R[i] = <<Star>> \o R[i + Len(v)]
        BY <2>0, <2>2, <1>0 DEF Replaces
      <3>4. Len(R[i]) = 1 + Len(R[i + Len(v)])
        BY <3>2, <3>3
      <3>5. Len(R[i]) <= Len(s) + 1 - i
        BY <3>1, <3>2, <3>4, <1>0
      <3>6. Occurs(v, s)
        BY <2>2, <3>1 DEF Occurs
      <3> QED
        BY <3>5, <3>6
    <2>3. CASE i <= Len(s) /\ ~OccursAt(v, s, i)
      <3>1. i + 1 \in D /\ i + 1 > i /\ i \in 1..Len(s)
        BY <2>3, <1>0
      <3>2. R[i + 1] \in Seq(Marks) /\ Len(R[i + 1]) <= Len(s) + 1 - (i + 1) /\ <<s[i]>> \in Seq(Marks)
        <4>1. i + 1 \in T /\ s[i] \in Marks
          BY <3>1, <1>1, <1>0
        <4> QED
          BY <4>1, <3>1
      <3>3. R[i] = <<s[i]>> \o R[i + 1]
        BY <2>0, <2>3, <1>0 DEF Replaces
      <3>4. Len(R[i]) = 1 + Len(R[i + 1])
        BY <3>2, <3>3
      <3>5. Len(R[i]) <= Len(s) + 1 - i
        BY <3>1, <3>2, <3>4, <1>0
      <3>6. ASSUME ~Occurs(v, s) PROVE R[i] = SubSeq(s, i, Len(s))
        <4>1. R[i + 1] = SubSeq(s, i + 1, Len(s))
          BY <3>1, <3>6, <1>1
        <4>2. Len(s) \in i..Len(s)
          BY <3>1, <1>0
        <4> QED
          BY <4>1, <4>2, <3>1, <3>3, SubSeqRecursiveFirst
      <3> QED
        BY <3>5, <3>6
    <2> QED
      BY <2>1, <2>2, <2>3, <1>0
  <1>2. \A i \in D : i \in T
    <2> HIDE DEF T
    <2> QED
      BY <1>0, <1>1, DownInduction
  <1> QED
    BY <1>2

\* replace_all leaves no v, adds nothing of any w, and leaves alone what has no v.
LEMMA MaskedFacts ==
  ASSUME NEW s \in Seq(Marks), NEW v \in Seq(Bytes), Len(v) > 0
  PROVE  /\ Masked(s, v) \in Seq(Marks)
         /\ Len(Masked(s, v)) <= Len(s)
         /\ ~Occurs(v, Masked(s, v))
         /\ \A w \in Seq(Bytes) : Len(w) > 0 /\ Occurs(w, Masked(s, v)) => Occurs(w, s)
         /\ ~Occurs(v, s) => Masked(s, v) = s
  <1> DEFINE R == ReplaceFrom(s, v)
  <1>0. Len(s) \in Nat /\ 1 \in 1..Len(s) + 1 /\ Star \notin Bytes
    BY OutputCaptureAssumption
  <1>1. R \in [1..Len(s) + 1 -> Seq(Marks)] /\ \A i \in 1..Len(s) + 1 : Replaces(R, s, v, i)
    BY ReplaceEnds
  <1>2. Masked(s, v) = R[1]
    BY DEF Masked
  <1> HIDE DEF R
  <1>3. R[1] \in Seq(Marks)
    BY <1>0, <1>1
  <1>4. /\ Len(R[1]) <= Len(s) + 1 - 1
        /\ ~Occurs(v, s) => R[1] = SubSeq(s, 1, Len(s))
    BY <1>0, <1>1, ReplaceCopies
  <1>5. ASSUME NEW w \in Seq(Bytes), Len(w) > 0, Occurs(w, R[1])
        PROVE  \E j \in 1..Len(s) : OccursAt(w, s, j) /\ ~OccursAt(v, s, j)
    <2>1. PICK p \in 1..Len(R[1]) : OccursAt(w, R[1], p)
      BY <1>5 DEF Occurs
    <2>2. p \in Nat /\ p >= 1 /\ Len(w) \in Nat /\ \A q \in 1..Len(w) : w[q] \in Bytes
      BY <1>3
    <2>3. p + Len(w) - 1 <= Len(R[1]) /\ \A q \in 0..Len(w) - 1 : R[1][p + q] = w[q + 1]
      BY <2>1, <2>2, <1>3, <1>5, OccursByMarks
    <2>4. \A q \in 0..Len(w) - 1 : R[1][p + q] # Star
      <3> SUFFICES ASSUME NEW q \in 0..Len(w) - 1 PROVE w[q + 1] # Star
        BY <2>3
      <3>1. q + 1 \in 1..Len(w)
        BY <2>2
      <3> QED
        BY <3>1, <2>2, <1>0
    <2>5. Plain(R[1], p, Len(w))
      BY <2>2, <2>3, <2>4, <1>5 DEF Plain
    <2>6. PICK j \in 1..Len(s) : Stand(R[1], p, Len(w), s, v, j)
      BY <2>2, <2>5, <1>0, <1>1, PlainIsCopied
    <2>7. \A q \in 0..Len(w) - 1 : s[j + q] = w[q + 1]
      BY <2>3, <2>6 DEF Stand
    <2>8. j + Len(w) - 1 <= Len(s) /\ ~OccursAt(v, s, j) /\ j \in Nat /\ j >= 1
      BY <2>6, <1>0 DEF Stand
    <2>9. OccursAt(w, s, j)
      BY <2>7, <2>8, <1>5, OccursByMarks
    <2> QED
      BY <2>8, <2>9
  <1>6. ~Occurs(v, R[1])
    BY <1>5
  <1>7. \A w \in Seq(Bytes) : Len(w) > 0 /\ Occurs(w, R[1]) => Occurs(w, s)
    BY <1>5 DEF Occurs
  <1>8. SubSeq(s, 1, Len(s)) = s
    BY SubSeqFull
  <1>9. Len(R[1]) <= Len(s)
    BY <1>4, <1>0, <1>3
  <1> QED
    BY <1>2, <1>3, <1>4, <1>6, <1>7, <1>8, <1>9

\* A value is masked to a star, and a value that is not longer has no other one in it.
LEMMA MaskedValue ==
  ASSUME NEW v \in Seq(Bytes), NEW w \in Seq(Bytes), Len(v) > 0, Len(w) > 0
  PROVE  /\ Masked(v, v) = <<Star>>
         /\ Occurs(w, v) /\ Len(v) <= Len(w) => v = w
         /\ ~Occurs(w, <<Star>>)
  <1>0. Len(v) \in Nat /\ Len(w) \in Nat /\ v \in Seq(Marks) /\ Star \notin Bytes /\ 1 \in 1..Len(w) /\ w[1] \in Bytes
    BY OutputCaptureAssumption, SeqMonotonic DEF Marks
  <1>1. SubSeq(v, 1, Len(v)) = v
    BY SubSeqFull
  <1>2. Masked(v, v) = <<Star>>
    <2> DEFINE R == ReplaceFrom(v, v)
    <2>1. R \in [1..Len(v) + 1 -> Seq(Marks)] /\ \A i \in 1..Len(v) + 1 : Replaces(R, v, v, i)
      BY <1>0, ReplaceEnds
    <2>2. Masked(v, v) = R[1]
      BY DEF Masked
    <2> HIDE DEF R
    <2>3. 1 + Len(v) - 1 = Len(v) /\ 1 + Len(v) = Len(v) + 1 /\ ~(1 > Len(v)) /\ Len(v) + 1 > Len(v)
      BY <1>0
    <2>4. OccursAt(v, v, 1)
      BY <1>0, <1>1, <2>3 DEF OccursAt
    <2>5. Replaces(R, v, v, 1) /\ Replaces(R, v, v, Len(v) + 1)
      BY <1>0, <2>1
    <2>6. R[Len(v) + 1] = <<>>
      BY <2>3, <2>5 DEF Replaces
    <2>7. R[1] = <<Star>> \o R[Len(v) + 1]
      BY <2>3, <2>4, <2>5 DEF Replaces
    <2>8. <<Star>> \in Seq(Marks)
      BY DEF Marks
    <2> QED
      BY <2>2, <2>6, <2>7, <2>8, ConcatEmptySeq
  <1>3. ASSUME Occurs(w, v), Len(v) <= Len(w) PROVE v = w
    <2>1. PICK p \in 1..Len(v) : OccursAt(w, v, p)
      BY <1>3 DEF Occurs
    <2>2. p + Len(w) - 1 <= Len(v) /\ SubSeq(v, p, p + Len(w) - 1) = w
      BY <2>1 DEF OccursAt
    <2>3. p = 1 /\ p + Len(w) - 1 = Len(v)
      BY <2>2, <1>0, <1>3
    <2> QED
      BY <2>2, <2>3, <1>1
  <1>4. ~Occurs(w, <<Star>>)
    <2> SUFFICES ASSUME Occurs(w, <<Star>>) PROVE FALSE
      OBVIOUS
    <2>0. <<Star>> \in Seq(Marks) /\ Len(<<Star>>) = 1 /\ <<Star>>[1] = Star
      BY DEF Marks
    <2>1. PICK p \in 1..1 : OccursAt(w, <<Star>>, p)
      BY <2>0 DEF Occurs
    <2>2. \A q \in 0..Len(w) - 1 : <<Star>>[p + q] = w[q + 1]
      <3>1. p \in Nat /\ p >= 1
        OBVIOUS
      <3> QED
        BY <3>1, <2>0, <2>1, OccursByMarks
    <2>3. 0 \in 0..Len(w) - 1 /\ p + 0 = 1 /\ 0 + 1 = 1
      BY <1>0
    <2>4. <<Star>>[p + 0] = w[0 + 1]
      BY <2>2, <2>3
    <2> QED
      BY <2>0, <2>3, <2>4, <1>0
  <1> QED
    BY <1>2, <1>3, <1>4

\* order has every member of S once, the longest first.
LongestFirst(order, S, n) ==
  /\ order \in [1..n -> S]
  /\ \A i, j \in 1..n : i # j => order[i] # order[j]
  /\ \A i, j \in 1..n : i < j => Len(order[i]) >= Len(order[j])

\* Every finite set of values can be put in that order.
LEMMA OrderExists ==
  ASSUME NEW S, S \subseteq Seq(Bytes), IsFiniteSet(S)
  PROVE  \E order : LongestFirst(order, S, Cardinality(S))
  <1> DEFINE P == {n \in Nat : \A U \in SUBSET S : Cardinality(U) = n => \E order : LongestFirst(order, U, n)}
  <1>1. 0 \in P
    <2> SUFFICES ASSUME NEW U \in SUBSET S PROVE LongestFirst([i \in 1..0 |-> i], U, 0)
      OBVIOUS
    <2> QED
      BY DEF LongestFirst
  <1>2. ASSUME NEW n \in Nat, n \in P PROVE n + 1 \in P
    <2> SUFFICES ASSUME NEW U \in SUBSET S, Cardinality(U) = n + 1 PROVE \E order : LongestFirst(order, U, n + 1)
      OBVIOUS
    <2>0. IsFiniteSet(U) /\ U # {}
      <3>1. IsFiniteSet(U)
        BY FS_Subset
      <3> QED
        BY <3>1, FS_EmptySet
    <2>1. PICK x \in U : \A y \in U : Len(x) <= Len(y)
      <3> DEFINE lens == {Len(y) : y \in U}
      <3>0. \A y \in U : Len(y) \in Nat
        <4>1. \A y \in U : y \in Seq(Bytes)
          OBVIOUS
        <4> QED
          BY <4>1, LenProperties
      <3>1. lens \subseteq Nat /\ lens # {}
        BY <2>0, <3>0
      <3>2. PICK m \in lens : \A k \in lens : m <= k
        <4> HIDE DEF lens
        <4> QED
          BY <3>1, LeastElement
      <3> QED
        BY <3>2
    <2>2. Cardinality(U \ {x}) = n /\ U \ {x} \in SUBSET S
      <3>1. Cardinality(U \ {x}) = Cardinality(U) - 1
        BY <2>0, FS_RemoveElement
      <3> QED
        BY <3>1
    <2>3. PICK order : LongestFirst(order, U \ {x}, n)
      BY <1>2, <2>2
    <2> DEFINE more == [i \in 1..n + 1 |-> IF i <= n THEN order[i] ELSE x]
    <2>4. ASSUME NEW i \in 1..n + 1
          PROVE  /\ i <= n => i \in 1..n /\ more[i] = order[i] /\ more[i] \in U /\ more[i] # x
                 /\ ~(i <= n) => i = n + 1 /\ more[i] = x
      BY <2>3 DEF LongestFirst
    <2>5. \A i, j \in 1..n : (i # j => order[i] # order[j]) /\ (i < j => Len(order[i]) >= Len(order[j]))
      BY <2>3 DEF LongestFirst
    <2>6. more \in [1..n + 1 -> U]
      BY <2>4
    <2> HIDE DEF more
    <2>7. \A y \in U : Len(y) \in Nat
      OBVIOUS
    <2>8. ASSUME NEW i \in 1..n + 1, NEW j \in 1..n + 1, i < j PROVE more[i] # more[j] /\ Len(more[i]) >= Len(more[j])
      <3>1. CASE j <= n
        <4>1. i \in 1..n /\ j \in 1..n /\ more[i] = order[i] /\ more[j] = order[j]
          BY <3>1, <2>4, <2>8
        <4> QED
          BY <4>1, <2>5, <2>8
      <3>2. CASE ~(j <= n)
        <4>1. i <= n /\ more[j] = x /\ more[i] \in U /\ more[i] # x
          BY <3>2, <2>4, <2>8
        <4> QED
          BY <4>1, <2>1, <2>7
      <3> QED
        BY <3>1, <3>2
    <2>9. \A i, j \in 1..n + 1 : i # j => more[i] # more[j]
      BY <2>8
    <2>10. LongestFirst(more, U, n + 1)
      BY <2>6, <2>8, <2>9 DEF LongestFirst
    <2> QED
      BY <2>10
  <1>3. \A n \in Nat : n \in P
    <2> HIDE DEF P
    <2> QED
      BY <1>1, <1>2, SetInduction
  <1>4. Cardinality(S) \in Nat
    BY FS_CardinalityType
  <1> QED
    BY <1>3, <1>4

\* What register keeps: the values that can be masked, the longest first.
LEMMA MaskOrderFacts ==
  /\ Maskable(Values) \subseteq Seq(Bytes) /\ \A v \in Maskable(Values) : Len(v) > 0
  /\ \E n \in Nat :
       /\ n = Len(MaskOrder(Values)) /\ LongestFirst(MaskOrder(Values), Maskable(Values), n)
       /\ \A v \in Maskable(Values) : \E k \in 1..n : MaskOrder(Values)[k] = v
  <1> DEFINE S == Maskable(Values)
             n == Cardinality(S)
             order == MaskOrder(Values)
  <1>1. S \subseteq Seq(Bytes) /\ S \subseteq Values /\ \A v \in S : Len(v) > 0
    BY OutputCaptureAssumption DEF Maskable
  <1>2. IsFiniteSet(S) /\ n \in Nat
    BY <1>1, OutputCaptureAssumption, FS_Subset, FS_CardinalityType
  <1> HIDE DEF S
  <1>3. \E o : LongestFirst(o, S, n)
    BY <1>1, <1>2, OrderExists
  <1>4. ASSUME NEW o, LongestFirst(o, S, n)
        PROVE  o \in SetToSeqs(S) /\ \A i, j \in DOMAIN o : i < j => Len(o[i]) >= Len(o[j])
    BY <1>4 DEF SetToSeqs, LongestFirst
  <1>5. order = CHOOSE o \in SetToSeqs(S) : \A i, j \in DOMAIN o : i < j => Len(o[i]) >= Len(o[j])
    BY DEF MaskOrder, S
  <1> HIDE DEF order
  <1>6. order \in SetToSeqs(S) /\ \A i, j \in DOMAIN order : i < j => Len(order[i]) >= Len(order[j])
    BY <1>3, <1>4, <1>5
  <1>7. order \in [1..n -> S] /\ \A i, j \in 1..n : i # j => order[i] # order[j]
    BY <1>6 DEF SetToSeqs
  <1> HIDE DEF n
  <1>8. LongestFirst(order, S, n)
    BY <1>6, <1>7 DEF LongestFirst
  <1>9. n = Len(order)
    <2>1. order \in Seq(S)
      BY <1>2, <1>7, SeqDef
    <2>2. DOMAIN order = 1..Len(order) /\ Len(order) \in Nat /\ DOMAIN order = 1..n
      BY <2>1, <1>7
    <2>3. ~(n > Len(order))
      <3>1. n > Len(order) => n \in 1..n /\ n \notin 1..Len(order)
        BY <2>2, <1>2
      <3> QED
        BY <2>2, <3>1
    <2>4. ~(Len(order) > n)
      <3>1. Len(order) > n => Len(order) \in 1..Len(order) /\ Len(order) \notin 1..n
        BY <2>2, <1>2
      <3> QED
        BY <2>2, <3>1
    <2>5. Len(order) \in Nat /\ n \in Nat
      BY <2>2, <1>2
    <2> QED
      BY <2>3, <2>4, <2>5
  <1>10. ASSUME NEW v \in S PROVE \E k \in 1..n : order[k] = v
    <2>1. order \in Injection(1..n, S)
      BY <1>7 DEF Injection, IsInjective
    <2>2. Cardinality(1..n) = n
      BY <1>2, FS_Interval
    <2>3. order \in Surjection(1..n, S)
      BY <2>1, <2>2, <1>2, FS_Injection DEF n
    <2> QED
      BY <2>3 DEF Surjection
  <1> QED
    BY <1>1, <1>2, <1>8, <1>9, <1>10 DEF S, order

\* M[i] is what the first i values of order leave of s.
MasksEach(M, s, order, n) ==
  /\ M[0] = s
  /\ \A i \in 1..n : M[i] = Masked(M[i - 1], order[i])
  /\ \A i \in 0..n : M[i] \in Seq(Marks)

\* The loop of mask_bytes, value by value.
LEMMA MaskEachFacts ==
  ASSUME NEW s \in Seq(Marks), NEW order, NEW n \in Nat, Len(order) = n,
         \A i \in 1..n : order[i] \in Seq(Bytes) /\ Len(order[i]) > 0
  PROVE  MasksEach(MaskEach(s, order), s, order, n)
  <1> DEFINE Good(f, k) ==
               /\ f \in [0..n -> Seq(Marks)] /\ f[0] = s
               /\ \A i \in 1..n : i <= k => f[i] = Masked(f[i - 1], order[i])
             P == {k \in Nat : \E f : Good(f, k)}
  <1>1. 0 \in P
    <2>1. Good([i \in 0..n |-> s], 0)
      OBVIOUS
    <2> QED
      BY <2>1
  <1>2. ASSUME NEW k \in Nat, k \in P PROVE k + 1 \in P
    <2>1. PICK f : Good(f, k)
      BY <1>2
    <2>2. CASE k >= n
      <3>1. Good(f, k + 1)
        BY <2>1, <2>2
      <3> QED
        BY <3>1
    <2>3. CASE k < n
      <3> DEFINE one == Masked(f[k], order[k + 1])
                 more == [f EXCEPT ![k + 1] = one]
      <3>1. k + 1 \in 1..n /\ k \in 0..n /\ k + 1 \in 0..n
        BY <2>3
      <3>2. one \in Seq(Marks)
        BY <3>1, <2>1, MaskedFacts
      <3> HIDE DEF one
      <3>3. more \in [0..n -> Seq(Marks)] /\ more[k + 1] = one /\ \A i \in 0..n : i # k + 1 => more[i] = f[i]
        BY <3>1, <3>2, <2>1
      <3> HIDE DEF more
      <3>4. ASSUME NEW i \in 1..n, i <= k + 1 PROVE more[i] = Masked(more[i - 1], order[i])
        <4>1. CASE i = k + 1
          <5>1. i - 1 = k /\ more[i - 1] = f[k] /\ more[i] = one
            BY <4>1, <3>1, <3>3
          <5> QED
            BY <5>1, <4>1 DEF one
        <4>2. CASE i # k + 1
          <5>1. i <= k /\ i \in 0..n /\ i - 1 \in 0..n /\ i - 1 # k + 1
            BY <4>2, <3>4
          <5>2. more[i] = f[i] /\ more[i - 1] = f[i - 1]
            BY <5>1, <3>3, <4>2
          <5> QED
            BY <5>1, <5>2, <2>1
        <4> QED
          BY <4>1, <4>2
      <3>5. more[0] = s
        BY <2>1, <3>3
      <3>6. Good(more, k + 1) /\ k + 1 \in Nat
        BY <3>3, <3>4, <3>5
      <3> HIDE DEF Good
      <3> QED
        BY <3>6
    <2>4. k >= n \/ k < n
      OBVIOUS
    <2> HIDE DEF P, Good
    <2> QED
      BY <2>2, <2>3, <2>4
  <1>3. n \in P
    <2> HIDE DEF P
    <2> QED
      BY <1>1, <1>2, SetInduction
  <1>4. PICK f : Good(f, n)
    BY <1>3
  <1>5. f = [i \in 0..n |-> IF i = 0 THEN s ELSE Masked(f[i - 1], order[i])]
    <2>1. ASSUME NEW i \in 0..n PROVE f[i] = IF i = 0 THEN s ELSE Masked(f[i - 1], order[i])
      <3>1. i # 0 => i \in 1..n /\ i <= n
        OBVIOUS
      <3> QED
        BY <3>1, <1>4
    <2>2. f = [i \in 0..n |-> f[i]]
      BY <1>4
    <2> QED
      BY <2>1, <2>2
  <1> DEFINE M == MaskEach(s, order)
  <1>6. M = [i \in 0..n |-> IF i = 0 THEN s ELSE Masked(M[i - 1], order[i])]
    BY <1>5 DEF MaskEach
  <1> HIDE DEF M
  <1>7. M[0] = s
    BY <1>6
  <1>8. ASSUME NEW i \in 1..n PROVE M[i] = Masked(M[i - 1], order[i])
    <2>1. i \in 0..n /\ i # 0
      OBVIOUS
    <2> QED
      BY <2>1, <1>6
  <1> DEFINE T == {i \in Nat : i <= n => M[i] \in Seq(Marks)}
  <1>9. 0 \in T
    BY <1>7
  <1>10. ASSUME NEW i \in Nat, i \in T PROVE i + 1 \in T
    <2> SUFFICES ASSUME i + 1 <= n PROVE M[i + 1] \in Seq(Marks)
      OBVIOUS
    <2>1. i + 1 \in 1..n /\ (i + 1) - 1 = i /\ M[i] \in Seq(Marks)
      BY <1>10
    <2>2. M[i + 1] = Masked(M[i], order[i + 1])
      BY <2>1, <1>8
    <2> QED
      BY <2>1, <2>2, MaskedFacts
  <1>11. \A i \in Nat : i \in T
    <2> HIDE DEF T
    <2> QED
      BY <1>9, <1>10, SetInduction
  <1> QED
    BY <1>7, <1>8, <1>11 DEF M, MasksEach

\* No value that can be masked is left in masked output, the longer ones included; the
\* output did not become longer; and of a value itself only a star is left.
LEMMA MaskHides ==
  ASSUME NEW s \in Seq(Marks)
  PROVE  /\ Len(Mask(s)) <= Len(s)
         /\ \A v \in Values : Len(v) >= MinMaskable => ~Occurs(v, Mask(s)) /\ Mask(v) = <<Star>>
  <1> DEFINE order == MaskOrder(Values)
             S == Maskable(Values)
  <1>1. PICK n \in Nat : /\ n = Len(order) /\ LongestFirst(order, S, n)
                         /\ \A v \in S : \E k \in 1..n : order[k] = v
    BY MaskOrderFacts
  <1>2. S \subseteq Seq(Bytes) /\ \A v \in S : Len(v) > 0
    BY MaskOrderFacts
  <1>3. \A t : Mask(t) = MaskEach(t, order)[n]
    BY <1>1 DEF Mask
  <1>4. \A v \in Values : Len(v) >= MinMaskable => v \in S
    BY DEF Maskable
  <1> HIDE DEF order, S
  <1>5. \A i \in 1..n : order[i] \in S /\ order[i] \in Seq(Bytes) /\ Len(order[i]) > 0
    BY <1>1, <1>2 DEF LongestFirst
  <1>6. ASSUME NEW t \in Seq(Marks)
        PROVE  MasksEach(MaskEach(t, order), t, order, n)
    <2>1. Len(order) = n /\ \A i \in 1..n : order[i] \in Seq(Bytes) /\ Len(order[i]) > 0
      BY <1>1, <1>5
    <2> QED
      BY <2>1, MaskEachFacts
  <1>7. Len(MaskEach(s, order)[n]) <= Len(s) /\ \A k \in 1..n : ~Occurs(order[k], MaskEach(s, order)[n])
    <2> DEFINE M == MaskEach(s, order)
               T == {i \in Nat : i <= n => Len(M[i]) <= Len(s) /\ \A k \in 1..i : ~Occurs(order[k], M[i])}
    <2>1. /\ M[0] = s
          /\ \A i \in 1..n : M[i] = Masked(M[i - 1], order[i])
          /\ \A i \in 0..n : M[i] \in Seq(Marks)
      BY <1>6 DEF MasksEach
    <2> HIDE DEF M
    <2>2. 0 \in T
      BY <2>1
    <2>3. ASSUME NEW i \in Nat, i \in T PROVE i + 1 \in T
      <3> SUFFICES ASSUME i + 1 <= n
                   PROVE  Len(M[i + 1]) <= Len(s) /\ \A k \in 1..i + 1 : ~Occurs(order[k], M[i + 1])
        OBVIOUS
      <3>1. i + 1 \in 1..n /\ (i + 1) - 1 = i /\ i \in 0..n /\ M[i] \in Seq(Marks) /\ i + 1 \in 0..n /\ M[i + 1] \in Seq(Marks)
        BY <2>1
      <3>2. M[i + 1] = Masked(M[i], order[i + 1])
        BY <3>1, <2>1
      <3>3. /\ Len(M[i + 1]) <= Len(M[i])
            /\ ~Occurs(order[i + 1], M[i + 1])
            /\ \A w \in Seq(Bytes) : Len(w) > 0 /\ Occurs(w, M[i + 1]) => Occurs(w, M[i])
        BY <3>1, <3>2, <1>5, MaskedFacts
      <3>4. Len(M[i]) <= Len(s) /\ \A k \in 1..i : ~Occurs(order[k], M[i])
        BY <2>3
      <3>5. Len(M[i + 1]) <= Len(s)
        BY <3>1, <3>3, <3>4
      <3>6. ASSUME NEW k \in 1..i + 1 PROVE ~Occurs(order[k], M[i + 1])
        <4>1. CASE k = i + 1
          BY <4>1, <3>3
        <4>2. CASE k # i + 1
          <5>1. k \in 1..i /\ k \in 1..n
            BY <4>2
          <5> QED
            BY <5>1, <3>3, <3>4, <1>5
        <4> QED
          BY <4>1, <4>2
      <3> QED
        BY <3>5, <3>6
    <2>4. \A i \in Nat : i \in T
      <3> HIDE DEF T
      <3> QED
        BY <2>2, <2>3, SetInduction
    <2> QED
      BY <2>4 DEF M
  <1>8. ASSUME NEW v \in S PROVE Mask(v) = <<Star>>
    <2>1. PICK k \in 1..n : order[k] = v
      BY <1>1
    <2>0. v \in Seq(Marks) /\ v \in Seq(Bytes) /\ Len(v) > 0
      BY <1>2, SeqMonotonic DEF Marks
    <2> DEFINE M == MaskEach(v, order)
               T == {i \in Nat : i <= n => M[i] = IF i < k THEN v ELSE <<Star>>}
    <2>2. M[0] = v /\ \A i \in 1..n : M[i] = Masked(M[i - 1], order[i])
      BY <1>6, <2>0 DEF MasksEach
    <2> HIDE DEF M
    <2>3. 0 \in T
      BY <2>2
    <2>4. ASSUME NEW i \in Nat, i \in T PROVE i + 1 \in T
      <3> SUFFICES ASSUME i + 1 <= n PROVE M[i + 1] = IF i + 1 < k THEN v ELSE <<Star>>
        OBVIOUS
      <3>1. i + 1 \in 1..n /\ (i + 1) - 1 = i /\ M[i] = IF i < k THEN v ELSE <<Star>>
        BY <2>4
      <3>2. M[i + 1] = Masked(M[i], order[i + 1]) /\ order[i + 1] \in Seq(Bytes) /\ Len(order[i + 1]) > 0
        BY <3>1, <2>2, <1>5
      <3>3. CASE i + 1 = k
        <4>1. M[i + 1] = Masked(v, v)
          BY <3>1, <3>2, <3>3, <2>1
        <4> QED
          BY <4>1, <3>3, <2>0, MaskedValue
      <3>4. CASE i + 1 < k
        <4>1. order[i + 1] # v /\ Len(order[i + 1]) >= Len(v)
          BY <3>1, <3>4, <2>1, <1>1 DEF LongestFirst
        <4>2. Len(v) <= Len(order[i + 1])
          BY <4>1, <3>2, <2>0
        <4>3. ~Occurs(order[i + 1], v)
          BY <4>1, <4>2, <3>2, <2>0, MaskedValue
        <4>4. Masked(v, order[i + 1]) = v
          BY <4>3, <3>2, <2>0, MaskedFacts
        <4> QED
          BY <4>4, <3>1, <3>2, <3>4
      <3>5. CASE i + 1 > k
        <4>0. <<Star>> \in Seq(Marks) /\ M[i] = <<Star>>
          BY <3>1, <3>5 DEF Marks
        <4>1. ~Occurs(order[i + 1], <<Star>>)
          BY <3>2, <2>0, MaskedValue
        <4>2. Masked(<<Star>>, order[i + 1]) = <<Star>>
          BY <4>0, <4>1, <3>2, MaskedFacts
        <4> QED
          BY <4>0, <4>2, <3>2, <3>5
      <3> QED
        BY <3>3, <3>4, <3>5
    <2>5. \A i \in Nat : i \in T
      <3> HIDE DEF T
      <3> QED
        BY <2>3, <2>4, SetInduction
    <2>6. M[n] = <<Star>>
      BY <2>5
    <2> QED
      BY <2>6, <1>3 DEF M
  <1>9. \A v \in S : ~Occurs(v, MaskEach(s, order)[n])
    BY <1>1, <1>7
  <1> QED
    BY <1>3, <1>4, <1>7, <1>8, <1>9

-----------------------------------------------------------------------------
\* Counting lines.

\* The line ends of s from a to b.
Ends(s, a, b) == {i \in a..b : s[i] = NL}
Count(s, a, b) == Cardinality(Ends(s, a, b))

LEMMA CountType ==
  ASSUME NEW s, NEW a \in Nat, NEW b \in Nat
  PROVE  IsFiniteSet(Ends(s, a, b)) /\ Count(s, a, b) \in Nat
  <1>1. IsFiniteSet(a..b)
    BY FS_Interval
  <1>2. IsFiniteSet(Ends(s, a, b))
    BY <1>1, FS_Subset DEF Ends
  <1> QED
    BY <1>2, FS_CardinalityType DEF Count

LEMMA CountFacts ==
  ASSUME NEW s, NEW a \in Nat, NEW k \in Nat, NEW b \in Nat, k <= b, a <= k + 1
  PROVE  Count(s, a, b) = Count(s, a, k) + Count(s, k + 1, b)
  <1>2. IsFiniteSet(Ends(s, a, k)) /\ IsFiniteSet(Ends(s, k + 1, b)) /\ IsFiniteSet(Ends(s, a, b))
    BY CountType
  <1>3. Ends(s, a, b) = Ends(s, a, k) \cup Ends(s, k + 1, b)
    BY DEF Ends
  <1>4. Ends(s, a, k) \cap Ends(s, k + 1, b) = {}
    BY DEF Ends
  <1>5. /\ Cardinality(Ends(s, a, k)) \in Nat /\ Cardinality(Ends(s, k + 1, b)) \in Nat
        /\ Cardinality(Ends(s, a, b)) \in Nat
    BY <1>2, FS_CardinalityType
  <1>6. Cardinality(Ends(s, a, k) \cap Ends(s, k + 1, b)) = 0
    BY <1>4, FS_EmptySet
  <1>7. Cardinality(Ends(s, a, b)) =
          Cardinality(Ends(s, a, k)) + Cardinality(Ends(s, k + 1, b)) - Cardinality(Ends(s, a, k) \cap Ends(s, k + 1, b))
    BY <1>2, <1>3, FS_Union
  <1> QED
    BY <1>5, <1>6, <1>7 DEF Count

LEMMA CountOne ==
  ASSUME NEW s, NEW k \in Nat
  PROVE  /\ Count(s, k, k) = IF s[k] = NL THEN 1 ELSE 0
         /\ Count(s, k + 1, k) = 0
  <1>1. Ends(s, k + 1, k) = {}
    BY DEF Ends
  <1>2. s[k] = NL => Ends(s, k, k) = {k}
    BY DEF Ends
  <1>3. s[k] # NL => Ends(s, k, k) = {}
    BY DEF Ends
  <1> QED
    BY <1>1, <1>2, <1>3, FS_EmptySet, FS_Singleton DEF Count

\* The lines of a part of s are those that end in it.
LEMMA NewlinesOfPart ==
  ASSUME NEW s \in Seq(Bytes), NEW a \in Nat, NEW b \in Nat, 1 <= a, a <= b + 1, b <= Len(s)
  PROVE  /\ SubSeq(s, a, b) \in Seq(Bytes) /\ Len(SubSeq(s, a, b)) = b - a + 1
         /\ \A i \in 1..b - a + 1 : SubSeq(s, a, b)[i] = s[a + i - 1]
         /\ Newlines(SubSeq(s, a, b)) = Count(s, a, b)
  <1> DEFINE t == SubSeq(s, a, b)
             A == Ends(s, a, b)
             B == {i \in 1..Len(t) : t[i] = NL}
             f == [i \in A |-> i - a + 1]
  <1>0. Len(s) \in Nat /\ \A i \in a..b : s[i] \in Bytes
    OBVIOUS
  <1>1. t \in Seq(Bytes) /\ Len(t) = b - a + 1 /\ \A i \in 1..b - a + 1 : t[i] = s[a + i - 1]
    <2>1. t \in Seq(Bytes) /\ (Len(t) = IF a <= b THEN b - a + 1 ELSE 0) /\ \A i \in 1..b - a + 1 : t[i] = s[a + i - 1]
      BY <1>0, SubSeqProperties
    <2>2. a <= b \/ b - a + 1 = 0
      OBVIOUS
    <2> HIDE DEF t
    <2> QED
      BY <2>1, <2>2
  <1> HIDE DEF t
  <1>2. IsFiniteSet(A)
    BY CountType
  <1>3. f \in Bijection(A, B)
    <2>1. ASSUME NEW i \in A PROVE i - a + 1 \in B /\ i \in Int
      <3>1. i \in a..b /\ s[i] = NL /\ i - a + 1 \in 1..b - a + 1 /\ a + (i - a + 1) - 1 = i
        BY DEF Ends
      <3>2. t[i - a + 1] = s[a + (i - a + 1) - 1]
        BY <3>1, <1>1
      <3> QED
        BY <3>1, <3>2, <1>1
    <2>2. ASSUME NEW j \in B PROVE \E i \in A : f[i] = j
      <3>1. j \in 1..b - a + 1 /\ a + j - 1 \in a..b /\ s[a + j - 1] = NL
        BY <1>1
      <3>2. a + j - 1 \in A /\ (a + j - 1) - a + 1 = j
        BY <3>1 DEF Ends
      <3> QED
        BY <3>2
    <2>3. f \in [A -> B]
      BY <2>1
    <2>4. \A i, j \in A : f[i] = f[j] => i = j
      BY <2>1
    <2> HIDE DEF f, A, B
    <2> QED
      BY <2>2, <2>3, <2>4 DEF Bijection, Injection, Surjection, IsInjective
  <1>4. Cardinality(B) = Cardinality(A)
    <2> HIDE DEF f, A, B
    <2> QED
      BY <1>2, <1>3, FS_Bijection DEF ExistsBijection
  <1>5. Newlines(t) = Count(s, a, b)
    BY <1>4 DEF Newlines, Count
  <1> QED
    BY <1>1, <1>5 DEF t

\* The whole of s, its parts before and after a place, and what is put together of two.
LEMMA NewlinesFacts ==
  ASSUME NEW s \in Seq(Bytes)
  PROVE  /\ Newlines(s) = Count(s, 1, Len(s)) /\ Newlines(s) \in Nat
         /\ \A k \in 0..Len(s) :
              /\ SubSeq(s, 1, k) \in Seq(Bytes) /\ From(s, k) \in Seq(Bytes) /\ Len(From(s, k)) = Len(s) - k
              /\ Newlines(SubSeq(s, 1, k)) = Count(s, 1, k) /\ Newlines(From(s, k)) = Count(s, k + 1, Len(s))
              /\ Newlines(SubSeq(s, 1, k)) \in Nat /\ Newlines(From(s, k)) \in Nat
              /\ Newlines(s) = Newlines(SubSeq(s, 1, k)) + Newlines(From(s, k))
              /\ \A i \in 1..Len(s) - k : From(s, k)[i] = s[k + i]
  <1>0. Len(s) \in Nat
    OBVIOUS
  <1>1. Newlines(s) = Count(s, 1, Len(s))
    BY DEF Newlines, Count, Ends
  <1>2. Count(s, 1, Len(s)) \in Nat
    BY <1>0, CountType
  <1>3. ASSUME NEW k \in 0..Len(s)
        PROVE  /\ SubSeq(s, 1, k) \in Seq(Bytes) /\ From(s, k) \in Seq(Bytes) /\ Len(From(s, k)) = Len(s) - k
               /\ Newlines(SubSeq(s, 1, k)) = Count(s, 1, k) /\ Newlines(From(s, k)) = Count(s, k + 1, Len(s))
               /\ Newlines(SubSeq(s, 1, k)) \in Nat /\ Newlines(From(s, k)) \in Nat
               /\ Newlines(s) = Newlines(SubSeq(s, 1, k)) + Newlines(From(s, k))
               /\ \A i \in 1..Len(s) - k : From(s, k)[i] = s[k + i]
    <2>0. k \in Nat /\ k + 1 \in Nat /\ 1 \in Nat /\ 1 <= k + 1 /\ k + 1 <= Len(s) + 1 /\ k <= Len(s)
      BY <1>0
    <2>1. SubSeq(s, 1, k) \in Seq(Bytes) /\ Newlines(SubSeq(s, 1, k)) = Count(s, 1, k)
      <3>1. 1 \in Nat /\ k \in Nat /\ 1 <= 1 /\ 1 <= k + 1 /\ k <= Len(s)
        BY <2>0
      <3> QED
        BY <3>1, NewlinesOfPart, Zenon
    <2>2. /\ From(s, k) \in Seq(Bytes) /\ Len(From(s, k)) = Len(s) - (k + 1) + 1
          /\ \A i \in 1..Len(s) - (k + 1) + 1 : From(s, k)[i] = s[(k + 1) + i - 1]
          /\ Newlines(From(s, k)) = Count(s, k + 1, Len(s))
      <3>1. k + 1 \in Nat /\ Len(s) \in Nat /\ 1 <= k + 1 /\ k + 1 <= Len(s) + 1 /\ Len(s) <= Len(s)
        BY <2>0, <1>0
      <3>2. From(s, k) = SubSeq(s, k + 1, Len(s))
        BY DEF From
      <3> DEFINE a == k + 1
                 b == Len(s)
      <3>3. a \in Nat /\ b \in Nat /\ 1 <= a /\ a <= b + 1 /\ b <= Len(s)
        BY <3>1
      <3>4. From(s, k) = SubSeq(s, a, b)
        BY <3>2
      <3> HIDE DEF a, b
      <3>5. /\ From(s, k) \in Seq(Bytes) /\ Len(From(s, k)) = b - a + 1
            /\ \A i \in 1..b - a + 1 : From(s, k)[i] = s[a + i - 1]
            /\ Newlines(From(s, k)) = Count(s, a, b)
        BY <3>3, <3>4, NewlinesOfPart
      <3> QED
        BY <3>5 DEF a, b
    <2>3. Count(s, 1, k) \in Nat /\ Count(s, k + 1, Len(s)) \in Nat /\ Count(s, 1, Len(s)) = Count(s, 1, k) + Count(s, k + 1, Len(s))
      <3>1. k + 1 <= Len(s) + 1
        BY <2>0
      <3>2. Count(s, 1, k) \in Nat
        BY <2>0, CountType
      <3>3. Count(s, k + 1, Len(s)) \in Nat
        BY <2>0, <1>0, CountType
      <3> QED
        BY <2>0, <1>0, <3>2, <3>3, CountFacts
    <2>4. Len(s) - (k + 1) + 1 = Len(s) - k /\ \A i \in 1..Len(s) - k : (k + 1) + i - 1 = k + i
      BY <1>0
    <2>5. \A i \in 1..Len(s) - k : From(s, k)[i] = s[k + i]
      BY <2>2, <2>4
    <2> QED
      BY <2>1, <2>2, <2>3, <2>4, <2>5, <1>1
  <1> QED
    BY <1>1, <1>2, <1>3

\* What two buffers put together are.
LEMMA NewlinesConcat ==
  ASSUME NEW s \in Seq(Bytes), NEW t \in Seq(Bytes)
  PROVE  /\ s \o t \in Seq(Bytes) /\ Len(s \o t) = Len(s) + Len(t)
         /\ \A i \in 1..Len(s) : (s \o t)[i] = s[i]
         /\ Newlines(s \o t) = Newlines(s) + Newlines(t)
         /\ \A k \in 0..Len(s) : From(s \o t, k) = From(s, k) \o t
  <1> DEFINE u == s \o t
  <1>0. Len(s) \in Nat /\ Len(t) \in Nat
    OBVIOUS
  <1>1. /\ u \in Seq(Bytes) /\ Len(u) = Len(s) + Len(t)
        /\ \A i \in 1..Len(s) + Len(t) : u[i] = IF i <= Len(s) THEN s[i] ELSE t[i - Len(s)]
    BY ConcatProperties
  <1> HIDE DEF u
  <1>2. \A i \in 1..Len(s) : u[i] = s[i]
    BY <1>0, <1>1
  <1>3. ASSUME NEW k \in 0..Len(s) PROVE From(u, k) = From(s, k) \o t
    <2>0. k \in 0..Len(u)
      BY <1>0, <1>1
    <2>1. From(u, k) \in Seq(Bytes) /\ Len(From(u, k)) = Len(u) - k /\ \A i \in 1..Len(u) - k : From(u, k)[i] = u[k + i]
      BY <1>1, <2>0, NewlinesFacts
    <2>2. From(s, k) \in Seq(Bytes) /\ Len(From(s, k)) = Len(s) - k /\ \A i \in 1..Len(s) - k : From(s, k)[i] = s[k + i]
      BY NewlinesFacts
    <2>3. /\ From(s, k) \o t \in Seq(Bytes) /\ Len(From(s, k) \o t) = (Len(s) - k) + Len(t)
          /\ \A i \in 1..(Len(s) - k) + Len(t) :
               (From(s, k) \o t)[i] = IF i <= Len(s) - k THEN From(s, k)[i] ELSE t[i - (Len(s) - k)]
      <3> DEFINE x == From(s, k)
      <3>1. x \in Seq(Bytes) /\ Len(x) = Len(s) - k
        BY <2>2
      <3> HIDE DEF x
      <3>2. /\ x \o t \in Seq(Bytes) /\ Len(x \o t) = Len(x) + Len(t)
            /\ \A i \in 1..Len(x) + Len(t) : (x \o t)[i] = IF i <= Len(x) THEN x[i] ELSE t[i - Len(x)]
        BY <3>1, ConcatProperties
      <3>3. /\ x \o t \in Seq(Bytes) /\ Len(x \o t) = (Len(s) - k) + Len(t)
            /\ \A i \in 1..(Len(s) - k) + Len(t) : (x \o t)[i] = IF i <= Len(s) - k THEN x[i] ELSE t[i - (Len(s) - k)]
        BY <3>1, <3>2
      <3> QED
        BY <3>3 DEF x
    <2>4. ASSUME NEW i \in 1..Len(From(u, k)) PROVE From(u, k)[i] = (From(s, k) \o t)[i]
      <3>0. i \in 1..(Len(s) - k) + Len(t) /\ k + i \in 1..Len(s) + Len(t) /\ i \in 1..Len(u) - k
        BY <2>1, <1>0, <1>1
      <3>1. From(u, k)[i] = u[k + i]
        BY <3>0, <2>1
      <3>2. CASE i <= Len(s) - k
        <4>1. i \in 1..Len(s) - k /\ k + i <= Len(s)
          BY <3>0, <3>2, <1>0
        <4>2. (From(s, k) \o t)[i] = From(s, k)[i]
          BY <4>1, <3>0, <3>2, <2>3
        <4>3. From(s, k)[i] = s[k + i]
          BY <4>1, <2>2
        <4>4. u[k + i] = s[k + i]
          BY <4>1, <3>0, <1>1
        <4> QED
          BY <4>2, <4>3, <4>4, <3>1
      <3>3. CASE ~(i <= Len(s) - k)
        <4>1. ~(k + i <= Len(s)) /\ i - (Len(s) - k) = (k + i) - Len(s)
          BY <3>0, <3>3, <1>0
        <4> QED
          BY <4>1, <3>0, <3>1, <3>3, <2>3, <1>1
      <3> QED
        BY <3>2, <3>3
    <2>5. Len(From(u, k)) = Len(From(s, k) \o t)
      BY <2>1, <2>3, <1>0, <1>1
    <2> QED
      BY <2>1, <2>3, <2>4, <2>5, SeqEqual
  <1>4. SubSeq(u, 1, Len(s)) = s
    <2>0. 1 \in Nat /\ 1 <= Len(s) + 1 /\ Len(s) <= Len(u) /\ Len(s) - 1 + 1 = Len(s)
      BY <1>0, <1>1
    <2>1. /\ SubSeq(u, 1, Len(s)) \in Seq(Bytes) /\ Len(SubSeq(u, 1, Len(s))) = Len(s)
          /\ \A i \in 1..Len(s) : SubSeq(u, 1, Len(s))[i] = u[1 + i - 1]
      <3>1. /\ SubSeq(u, 1, Len(s)) \in Seq(Bytes) /\ Len(SubSeq(u, 1, Len(s))) = Len(s) - 1 + 1
            /\ \A i \in 1..Len(s) - 1 + 1 : SubSeq(u, 1, Len(s))[i] = u[1 + i - 1]
        BY <2>0, <1>0, <1>1, NewlinesOfPart
      <3> QED
        BY <3>1, <2>0
    <2>2. \A i \in 1..Len(SubSeq(u, 1, Len(s))) : SubSeq(u, 1, Len(s))[i] = s[i]
      <3> SUFFICES ASSUME NEW i \in 1..Len(s) PROVE SubSeq(u, 1, Len(s))[i] = s[i]
        BY <2>1
      <3>1. 1 + i - 1 = i
        BY <1>0
      <3> QED
        BY <3>1, <2>1, <1>2
    <2> QED
      BY <2>1, <2>2, SeqEqual
  <1>5. From(u, Len(s)) = t
    <2>1. From(s, Len(s)) = <<>>
      BY <1>0, SubSeqEmpty DEF From
    <2>2. Len(s) \in 0..Len(s)
      BY <1>0
    <2>3. From(u, Len(s)) = From(s, Len(s)) \o t
      BY <2>2, <1>3
    <2> QED
      BY <2>1, <2>3, ConcatEmptySeq
  <1>6. Newlines(u) = Newlines(s) + Newlines(t)
    <2>1. Len(s) \in 0..Len(u)
      BY <1>0, <1>1
    <2>2. Newlines(u) = Newlines(SubSeq(u, 1, Len(s))) + Newlines(From(u, Len(s)))
      BY <2>1, <1>1, NewlinesFacts
    <2> QED
      BY <2>2, <1>4, <1>5
  <1> QED
    BY <1>1, <1>2, <1>3, <1>6 DEF u

\* The end of what is left after a cut, cut again.
LEMMA FromFrom ==
  ASSUME NEW s \in Seq(Bytes), NEW k \in 0..Len(s), NEW c \in 0..Len(s) - k
  PROVE  From(From(s, k), c) = From(s, k + c)
  <1> DEFINE t == From(s, k)
  <1>0. Len(s) \in Nat /\ k + c \in 0..Len(s)
    OBVIOUS
  <1>1. t \in Seq(Bytes) /\ Len(t) = Len(s) - k /\ \A i \in 1..Len(s) - k : t[i] = s[k + i]
    BY NewlinesFacts
  <1> HIDE DEF t
  <1>2. From(t, c) \in Seq(Bytes) /\ Len(From(t, c)) = Len(t) - c /\ \A i \in 1..Len(t) - c : From(t, c)[i] = t[c + i]
    <2>1. c \in 0..Len(t)
      BY <1>1
    <2> QED
      BY <1>1, <2>1, NewlinesFacts
  <1>3. /\ From(s, k + c) \in Seq(Bytes) /\ Len(From(s, k + c)) = Len(s) - (k + c)
        /\ \A i \in 1..Len(s) - (k + c) : From(s, k + c)[i] = s[(k + c) + i]
    BY <1>0, NewlinesFacts
  <1>4. Len(From(t, c)) = Len(From(s, k + c))
    <2>1. Len(t) - c = Len(s) - (k + c)
      <3>1. Len(t) = Len(s) - k
        BY <1>1
      <3> QED
        BY <1>0, <3>1
    <2> QED
      BY <2>1, <1>2, <1>3, Zenon
  <1>5. ASSUME NEW i \in 1..Len(From(t, c)) PROVE From(t, c)[i] = From(s, k + c)[i]
    <2>1. i \in 1..Len(t) - c /\ c + i \in 1..Len(s) - k /\ i \in 1..Len(s) - (k + c) /\ k + (c + i) = (k + c) + i
      BY <1>0, <1>1, <1>2
    <2>2. t[c + i] = s[k + (c + i)]
      BY <2>1, <1>1
    <2>3. From(t, c)[i] = t[c + i]
      BY <2>1, <1>2
    <2>4. From(s, k + c)[i] = s[(k + c) + i]
      BY <2>1, <1>3
    <2> QED
      BY <2>1, <2>2, <2>3, <2>4
  <1>6. From(t, c) = From(s, k + c)
    BY <1>2, <1>3, <1>4, <1>5, SeqEqual
  <1> QED
    BY <1>6 DEF t

\* trim cuts where a line ends, or where everything does, and no more than it must.
LEMMA TrimFacts ==
  ASSUME NEW s \in Seq(Bytes)
  PROVE  /\ TrimAt(s) \in 0..Len(s)
         /\ Len(From(s, TrimAt(s))) <= MaxBytes /\ Newlines(From(s, TrimAt(s))) <= MaxLines
         /\ Len(s) <= MaxBytes /\ Newlines(s) <= MaxLines => TrimAt(s) = 0
         /\ TrimAt(s) > 0 => s[TrimAt(s)] = NL \/ (Len(s) > MaxBytes /\ ByteCut(s) = Len(s))
  <1> DEFINE c == ByteCut(s)
             giantLine == Len(s) > MaxBytes /\ ByteCut(s) = Len(s)
  <1>0. Len(s) \in Nat /\ MaxBytes \in Nat /\ MaxLines \in Nat
    BY OutputCaptureAssumption
  <1>1. /\ c \in 0..Len(s) /\ Len(s) - c <= MaxBytes
        /\ Len(s) <= MaxBytes => c = 0
        /\ c > 0 => s[c] = NL \/ giantLine
    <2>1. CASE Len(s) <= MaxBytes
      BY <2>1, <1>0 DEF ByteCut
    <2>2. CASE ~(Len(s) <= MaxBytes)
      <3> DEFINE over == Len(s) - MaxBytes
                 ends == {i \in over + 1..Len(s) : s[i] = NL}
      <3>0. over \in Nat /\ over >= 1
        BY <2>2, <1>0
      <3>1. CASE ends = {}
        <4>1. c = Len(s)
          BY <2>2, <3>1 DEF ByteCut
        <4> QED
          BY <4>1, <2>2, <1>0
      <3>2. CASE ends # {}
        <4>1. ends \subseteq Nat
          BY <3>0
        <4>2. PICK m \in ends : \A n \in ends : m <= n
          <5> HIDE DEF ends
          <5> QED
            BY <3>2, <4>1, LeastElement
        <4>3. c = CHOOSE i \in ends : \A j \in ends : i <= j
          BY <2>2, <3>2 DEF ByteCut
        <4>4. c \in ends
          <5> HIDE DEF ends, c
          <5> QED
            BY <4>2, <4>3
        <4>5. c \in over + 1..Len(s) /\ s[c] = NL
          BY <4>4
        <4> QED
          BY <4>5, <3>0, <2>2, <1>0
      <3> QED
        BY <3>1, <3>2
    <2> QED
      BY <2>1, <2>2
  <1> HIDE DEF c, giantLine
  <1> DEFINE rest == Newlines(From(s, c))
             d == LineCut(s, c)
  <1>2. rest = Count(s, c + 1, Len(s)) /\ rest \in Nat /\ Len(From(s, c)) = Len(s) - c
    BY <1>1, NewlinesFacts
  <1>3. CASE rest <= MaxLines
    <2>1. d = c
      BY <1>3 DEF LineCut
    <2>2. Len(s) <= MaxBytes /\ Newlines(s) <= MaxLines => d = 0
      BY <2>1, <1>1
    <2> HIDE DEF d
    <2>3. TrimAt(s) = c
      BY <2>1 DEF TrimAt, c, d
    <2> QED
      BY <2>1, <2>2, <2>3, <1>1, <1>2, <1>3 DEF giantLine, c
  <1>4. CASE ~(rest <= MaxLines)
    <2> DEFINE excess == rest - MaxLines
               K == {k \in Nat : c + 1 <= k /\ k <= Len(s) /\ Count(s, c + 1, k) >= excess}
    <2>0. c \in Nat /\ excess \in Nat /\ excess >= 1 /\ excess <= rest
      BY <1>0, <1>1, <1>2, <1>4
    <2>01. c < Len(s)
      <3>1. c = Len(s) => Count(s, c + 1, Len(s)) = 0
        BY <2>0, CountOne
      <3> QED
        BY <3>1, <1>0, <1>1, <1>2, <1>4
    <2> HIDE DEF rest
    <2>1. Len(s) \in K
      BY <2>0, <2>01, <1>0, <1>2
    <2>2. PICK i \in K : \A k \in K : i <= k
      <3>1. K \subseteq Nat
        OBVIOUS
      <3> HIDE DEF K
      <3> QED
        BY <2>1, <3>1, LeastElement
    <2>3. i \in Nat /\ c + 1 <= i /\ i <= Len(s) /\ Count(s, c + 1, i) >= excess
      BY <2>2
    <2>4. /\ i - 1 \in Nat /\ (i - 1) + 1 = i /\ c + 1 <= (i - 1) + 1 /\ i - 1 <= i /\ c + 1 \in Nat
          /\ i \in c + 1..Len(s)
      BY <2>0, <2>3, <1>0
    <2>5. /\ Count(s, c + 1, i) = Count(s, c + 1, i - 1) + Count(s, i, i)
          /\ Count(s, c + 1, i - 1) \in Nat
      <3>1. Count(s, c + 1, i) = Count(s, c + 1, i - 1) + Count(s, (i - 1) + 1, i)
        BY <2>3, <2>4, CountFacts
      <3> QED
        BY <3>1, <2>4, CountType
    <2>6. Count(s, c + 1, i - 1) < excess
      <3>1. CASE i = c + 1
        <4>1. Count(s, c + 1, c) = 0
          BY <2>0, CountOne
        <4>2. i - 1 = c
          BY <3>1, <2>0
        <4> QED
          BY <4>1, <4>2, <2>0
      <3>2. CASE i # c + 1
        <4>1. i - 1 \notin K /\ c + 1 <= i - 1 /\ i - 1 <= Len(s)
          BY <3>2, <2>0, <2>2, <2>3, <2>4, <1>0
        <4>2. ~(Count(s, c + 1, i - 1) >= excess)
          BY <4>1, <2>4
        <4> QED
          BY <4>2, <2>0, <2>5
      <3> QED
        BY <3>1, <3>2
    <2>7. s[i] = NL /\ Count(s, c + 1, i) = excess
      <3>1. Count(s, i, i) = IF s[i] = NL THEN 1 ELSE 0
        BY <2>3, CountOne
      <3> QED
        BY <3>1, <2>0, <2>3, <2>5, <2>6
    <2>8. ASSUME NEW j \in c + 1..Len(s) PROVE Newlines(SubSeq(s, c + 1, j)) = Count(s, c + 1, j)
      <3>1. j \in Nat /\ c + 1 \in Nat /\ 1 <= c + 1 /\ c + 1 <= j + 1 /\ j <= Len(s)
        BY <2>0, <1>0
      <3> QED
        BY <3>1, NewlinesOfPart
    <2>9. \E j \in c + 1..Len(s) : s[j] = NL /\ Newlines(SubSeq(s, c + 1, j)) = excess
      BY <2>4, <2>7, <2>8
    <2>10. d = CHOOSE j \in c + 1..Len(s) : s[j] = NL /\ Newlines(SubSeq(s, c + 1, j)) = excess
      BY <1>4 DEF LineCut, rest
    <2> HIDE DEF d
    <2>11. d \in c + 1..Len(s) /\ s[d] = NL /\ Newlines(SubSeq(s, c + 1, d)) = excess
      <3> HIDE DEF excess
      <3> QED
        BY <2>9, <2>10
    <2>12. Newlines(From(s, d)) = MaxLines
      <3>0. d \in Nat /\ d \in 0..Len(s) /\ d <= Len(s) /\ c + 1 <= d + 1
        BY <2>0, <2>11, <1>0
      <3>1. Newlines(From(s, d)) = Count(s, d + 1, Len(s)) /\ Newlines(From(s, d)) \in Nat
        BY <3>0, NewlinesFacts
      <3>2. Count(s, c + 1, Len(s)) = Count(s, c + 1, d) + Count(s, d + 1, Len(s))
        BY <3>0, <2>4, <1>0, CountFacts
      <3>3. Count(s, c + 1, d) = excess
        BY <2>8, <2>11
      <3> QED
        BY <3>1, <3>2, <3>3, <1>0, <1>2
    <2>13. Len(From(s, d)) = Len(s) - d /\ d \in 0..Len(s)
      <3>1. d \in 0..Len(s)
        BY <2>0, <2>11, <1>0
      <3> QED
        BY <3>1, NewlinesFacts
    <2>14. ~(Len(s) <= MaxBytes /\ Newlines(s) <= MaxLines)
      <3>1. Newlines(s) = Newlines(SubSeq(s, 1, c)) + rest /\ Newlines(SubSeq(s, 1, c)) \in Nat
        BY <1>1, NewlinesFacts DEF rest
      <3> QED
        BY <3>1, <1>0, <1>2, <1>4 DEF rest
    <2>15. TrimAt(s) = d
      BY DEF TrimAt, c, d
    <2>16. Len(From(s, d)) <= MaxBytes
      BY <2>0, <2>11, <2>13, <1>0, <1>1
    <2> QED
      BY <2>11, <2>12, <2>13, <2>14, <2>15, <2>16, <1>0
  <1> QED
    BY <1>3, <1>4

-----------------------------------------------------------------------------
\* The capture as a whole.

\* What was dropped and what is kept are what was printed, cut where a line ends.
KeptInv ==
  /\ printed \in Seq(Bytes) /\ droppedBytes \in 0..Len(printed) /\ TailIsKept
  /\ Len(printed) <= MaxBytes /\ Newlines(printed) <= MaxLines => droppedBytes = 0
  /\ giant \in BOOLEAN
  /\ droppedBytes > 0 /\ ~giant => printed[droppedBytes] = NL

\* The inductive invariant: what is shown is what was sealed, masked.
CaptureInv ==
  /\ KeptInv
  /\ Len(buf) <= MaxBytes + ByteSlack /\ lines <= MaxLines + LineSlack
  /\ sealed \in {"open", "sealed"}
  /\ sealed = "sealed" => Len(buf) <= MaxBytes /\ lines <= MaxLines /\ shown = Mask(buf)
  /\ sealed = "open" => shown = <<>>

\* trim keeps the account.
LEMMA TrimmedKeeps ==
  ASSUME printed' \in Seq(Bytes), droppedBytes \in 0..Len(printed'), giant \in BOOLEAN,
         NEW s, s = From(printed', droppedBytes), NEW l, l = Newlines(s),
         droppedLines = Newlines(printed') - l,
         Len(printed') <= MaxBytes /\ Newlines(printed') <= MaxLines => droppedBytes = 0,
         droppedBytes > 0 /\ ~giant => printed'[droppedBytes] = NL,
         Trimmed(s, l)
  PROVE  KeptInv' /\ Len(buf') <= MaxBytes /\ lines' <= MaxLines
  <1> DEFINE P == printed'
             c == TrimAt(s)
             d == droppedBytes
  <1>0. /\ buf' = From(s, c) /\ lines' = l - Newlines(SubSeq(s, 1, c)) /\ droppedBytes' = d + c
        /\ droppedLines' = droppedLines + Newlines(SubSeq(s, 1, c))
        /\ giant' = (giant \/ (Len(s) > MaxBytes /\ ByteCut(s) = Len(s)))
    BY DEF Trimmed
  <1>1. s \in Seq(Bytes) /\ Len(s) = Len(P) - d /\ Len(P) \in Nat /\ \A i \in 1..Len(P) - d : s[i] = P[d + i]
    <2> DEFINE t == From(P, d)
    <2>1. t \in Seq(Bytes) /\ Len(t) = Len(P) - d /\ \A i \in 1..Len(P) - d : t[i] = P[d + i]
      BY NewlinesFacts
    <2>2. s = t
      OBVIOUS
    <2> HIDE DEF t
    <2> QED
      BY <2>1, <2>2
  <1>2. /\ c \in 0..Len(s) /\ Len(From(s, c)) <= MaxBytes /\ Newlines(From(s, c)) <= MaxLines
        /\ Len(s) <= MaxBytes /\ Newlines(s) <= MaxLines => c = 0
        /\ c > 0 => s[c] = NL \/ (Len(s) > MaxBytes /\ ByteCut(s) = Len(s))
    BY <1>1, TrimFacts
  <1> HIDE DEF c
  <1>3. /\ Newlines(s) = Newlines(SubSeq(s, 1, c)) + Newlines(From(s, c))
        /\ Newlines(SubSeq(s, 1, c)) \in Nat /\ Newlines(From(s, c)) \in Nat /\ Newlines(s) \in Nat
    BY <1>1, <1>2, NewlinesFacts
  <1>4. From(s, c) = From(P, d + c) /\ d + c \in 0..Len(P)
    <2>1. c \in 0..Len(P) - d
      BY <1>1, <1>2
    <2>2. From(From(P, d), c) = From(P, d + c)
      BY <2>1, FromFrom
    <2> QED
      BY <2>1, <2>2
  <1>5. lines' = Newlines(buf') /\ lines' <= MaxLines /\ Len(buf') <= MaxBytes
    BY <1>0, <1>2, <1>3
  <1>6. Newlines(P) \in Nat
    BY NewlinesFacts
  <1>7. droppedLines' = Newlines(P) - lines'
    <2>1. droppedLines = Newlines(P) - l /\ l = Newlines(s)
      OBVIOUS
    <2> DEFINE n == Newlines(SubSeq(s, 1, c))
               a == Newlines(P)
    <2>2. droppedLines' = (a - l) + n /\ lines' = l - n
      BY <1>0, <2>1
    <2>3. n \in Nat /\ a \in Nat /\ l \in Nat
      BY <1>3, <1>6, <2>1
    <2> HIDE DEF n, a
    <2>4. droppedLines' = a - lines'
      BY <2>2, <2>3
    <2> QED
      BY <2>4 DEF a
  <1>8. ASSUME Len(P) <= MaxBytes, Newlines(P) <= MaxLines PROVE d + c = 0
    <2>1. d = 0
      BY <1>8
    <2>2. Newlines(P) = Newlines(SubSeq(P, 1, d)) + Newlines(From(P, d)) /\ Newlines(SubSeq(P, 1, d)) \in Nat
      BY NewlinesFacts
    <2>3. Len(s) <= MaxBytes /\ Newlines(s) <= MaxLines
      <3>1. s = From(P, d) /\ Newlines(s) \in Nat
        BY <1>3
      <3>2. Len(s) = Len(P)
        BY <2>1, <1>1
      <3> HIDE DEF P, d
      <3>3. Newlines(s) <= Newlines(P)
        BY <2>2, <3>1
      <3>4. Newlines(P) \in Nat
        BY <1>6
      <3> QED
        BY <1>8, <3>1, <3>2, <3>3, <3>4, OutputCaptureAssumption
    <2> QED
      BY <2>1, <2>3, <1>2
  <1>9. ASSUME d + c > 0, ~giant' PROVE P[d + c] = NL
    <2>1. ~giant /\ ~(Len(s) > MaxBytes /\ ByteCut(s) = Len(s))
      BY <1>0, <1>9
    <2>2. CASE c = 0
      <3>1. d + c = d /\ d > 0
        BY <2>2, <1>9
      <3> QED
        BY <2>1, <3>1
    <2>3. CASE c # 0
      <3>1. c \in 1..Len(P) - d /\ s[c] = NL
        BY <2>1, <2>3, <1>1, <1>2
      <3> QED
        BY <3>1, <1>1
    <2> QED
      BY <2>2, <2>3
  <1>10. giant' \in BOOLEAN
    BY <1>0
  <1> QED
    BY <1>0, <1>4, <1>5, <1>7, <1>8, <1>9, <1>10 DEF KeptInv, TailIsKept

LEMMA CaptureStarts ==
  ASSUME CaptureInit
  PROVE  CaptureInv
  <1>1. <<>> \in Seq(Bytes) /\ Len(<<>>) = 0
    OBVIOUS
  <1>2. From(<<>>, 0) = <<>>
    BY <1>1, SubSeqEmpty DEF From
  <1>3. Newlines(<<>>) = 0
    <2>1. {i \in 1..Len(<<>>) : <<>>[i] = NL} = {}
      BY <1>1
    <2> QED
      BY <2>1, FS_EmptySet DEF Newlines
  <1>4. KeptInv
    <2>1. /\ printed = <<>> /\ buf = <<>> /\ lines = 0 /\ droppedBytes = 0 /\ droppedLines = 0 /\ giant = FALSE
      BY DEF CaptureInit
    <2>2. TailIsKept
      BY <2>1, <1>2, <1>3 DEF TailIsKept
    <2>3. droppedBytes \in 0..Len(printed) /\ printed \in Seq(Bytes) /\ ~(droppedBytes > 0)
      BY <2>1, <1>1
    <2> QED
      BY <2>1, <2>2, <2>3 DEF KeptInv
  <1> QED
    BY <1>1, <1>4, OutputCaptureAssumption DEF CaptureInit, CaptureInv

LEMMA CaptureStep ==
  ASSUME CaptureInv, [CaptureNext]_captureVars
  PROVE  CaptureInv'
  <1>0. /\ MaxBytes \in Nat /\ ByteSlack \in Nat /\ MaxLines \in Nat /\ LineSlack \in Nat /\ MaxChunk \in Nat
        /\ printed \in Seq(Bytes) /\ Len(printed) \in Nat /\ droppedBytes \in 0..Len(printed)
        /\ buf = From(printed, droppedBytes) /\ lines = Newlines(buf) /\ droppedLines = Newlines(printed) - lines
        /\ giant \in BOOLEAN
    BY OutputCaptureAssumption DEF CaptureInv, KeptInv, TailIsKept
  <1>1. buf \in Seq(Bytes) /\ lines \in Nat /\ Len(buf) = Len(printed) - droppedBytes
    BY <1>0, NewlinesFacts
  <1>2. ASSUME Finish PROVE CaptureInv'
    <2>1. sealed' = "sealed" /\ Trimmed(buf, lines) /\ shown' = Mask(buf') /\ printed' = printed
      BY <1>2 DEF Finish
    <2>2. KeptInv' /\ Len(buf') <= MaxBytes /\ lines' <= MaxLines
      <3>1. /\ printed' \in Seq(Bytes) /\ droppedBytes \in 0..Len(printed')
            /\ buf = From(printed', droppedBytes) /\ droppedLines = Newlines(printed') - lines
            /\ Len(printed') <= MaxBytes /\ Newlines(printed') <= MaxLines => droppedBytes = 0
            /\ droppedBytes > 0 /\ ~giant => printed'[droppedBytes] = NL
        BY <2>1, <1>0 DEF CaptureInv, KeptInv
      <3> QED
        BY <3>1, <2>1, <1>0, TrimmedKeeps
    <2>3. Len(buf') \in Nat /\ lines' \in Nat
      <3>1. /\ printed' \in Seq(Bytes) /\ droppedBytes' \in 0..Len(printed')
            /\ buf' = From(printed', droppedBytes') /\ lines' = Newlines(buf')
        BY <2>2 DEF KeptInv, TailIsKept
      <3>2. buf' \in Seq(Bytes)
        BY <3>1, NewlinesFacts
      <3> QED
        BY <3>1, <3>2, NewlinesFacts
    <2>4. Len(buf') <= MaxBytes + ByteSlack /\ lines' <= MaxLines + LineSlack
      BY <2>2, <2>3, <1>0
    <2> QED
      BY <2>1, <2>2, <2>4 DEF CaptureInv
  <1>3. ASSUME NEW n \in 1..MaxChunk, NEW chunk \in [1..n -> Bytes], Push(chunk) PROVE CaptureInv'
    <2> DEFINE s == buf \o chunk
               l == lines + Newlines(chunk)
    <2>1. /\ sealed = "open" /\ printed' = printed \o chunk /\ sealed' = sealed /\ shown' = shown
          /\ IF OverSlack(s, l) THEN Trimmed(s, l)
             ELSE /\ buf' = s /\ lines' = l
                  /\ droppedBytes' = droppedBytes /\ droppedLines' = droppedLines /\ giant' = giant
      BY <1>3 DEF Push
    <2>2. chunk \in Seq(Bytes) /\ Newlines(chunk) \in Nat
      <3>1. chunk \in Seq(Bytes)
        BY <1>0, SeqDef
      <3> QED
        BY <3>1, NewlinesFacts
    <2>3. /\ printed' \in Seq(Bytes) /\ Len(printed') = Len(printed) + Len(chunk)
          /\ \A i \in 1..Len(printed) : printed'[i] = printed[i]
          /\ Newlines(printed') = Newlines(printed) + Newlines(chunk)
          /\ From(printed', droppedBytes) = s
      BY <2>1, <2>2, <1>0, NewlinesConcat
    <2>4. s \in Seq(Bytes) /\ Newlines(s) = l
      BY <2>2, <1>0, <1>1, NewlinesConcat
    <2>5. /\ Len(chunk) \in Nat /\ Newlines(printed) \in Nat /\ droppedBytes \in 0..Len(printed')
          /\ droppedLines = Newlines(printed') - l
      <3>1. Len(chunk) \in Nat /\ Newlines(printed) \in Nat
        BY <2>2, <1>0, NewlinesFacts
      <3>2. droppedBytes \in 0..Len(printed')
        BY <3>1, <2>3, <1>0
      <3>3. droppedLines = Newlines(printed) - lines
        BY <1>0
      <3>4. lines \in Nat
        BY <1>0, <1>1
      <3>5. droppedLines = Newlines(printed') - l
        BY <3>1, <3>3, <3>4, <2>2, <2>3
      <3> QED
        BY <3>1, <3>2, <3>5
    <2>6. Len(printed') <= MaxBytes /\ Newlines(printed') <= MaxLines => droppedBytes = 0
      <3>1. Len(printed) <= MaxBytes /\ Newlines(printed) <= MaxLines => droppedBytes = 0
        BY DEF CaptureInv, KeptInv
      <3>2. Len(printed) \in Nat /\ Len(printed) <= Len(printed') /\ Newlines(printed) <= Newlines(printed')
        BY <2>2, <2>3, <2>5, <1>0
      <3>3. Len(printed') \in Nat /\ Newlines(printed') \in Nat
        BY <2>2, <2>3, <2>5, <3>2
      <3> QED
        BY <2>5, <3>1, <3>2, <3>3, OutputCaptureAssumption
    <2>7. droppedBytes > 0 /\ ~giant => printed'[droppedBytes] = NL
      BY <2>3, <1>0 DEF CaptureInv, KeptInv
    <2>71. shown = <<>>
      BY <2>1 DEF CaptureInv
    <2> HIDE DEF s, l
    <2>8. CASE OverSlack(s, l)
      <3>0. Trimmed(s, l)
        BY <2>1, <2>8
      <3>1. KeptInv' /\ Len(buf') <= MaxBytes /\ lines' <= MaxLines
        BY <3>0, <2>3, <2>4, <2>5, <2>6, <2>7, <1>0, TrimmedKeeps
      <3>2. Len(buf') \in Nat /\ lines' \in Nat
        <4>1. /\ droppedBytes' \in 0..Len(printed')
              /\ buf' = From(printed', droppedBytes') /\ lines' = Newlines(buf')
          BY <3>1 DEF KeptInv, TailIsKept
        <4>2. buf' \in Seq(Bytes)
          BY <4>1, <2>3, NewlinesFacts
        <4> QED
          BY <4>1, <4>2, NewlinesFacts
      <3>3. Len(buf') <= MaxBytes + ByteSlack /\ lines' <= MaxLines + LineSlack
        BY <3>1, <3>2, <1>0
      <3> QED
        BY <3>1, <3>3, <2>1, <2>71 DEF CaptureInv
    <2>9. CASE ~OverSlack(s, l)
      <3>1. /\ buf' = s /\ lines' = l
            /\ droppedBytes' = droppedBytes /\ droppedLines' = droppedLines /\ giant' = giant
        BY <2>1, <2>9
      <3>2. Len(s) <= MaxBytes + ByteSlack /\ l <= MaxLines + LineSlack
        <4>1. Len(s) \in Nat /\ l \in Nat
          BY <2>4, NewlinesFacts
        <4> QED
          BY <4>1, <2>9, <1>0 DEF OverSlack
      <3>3. KeptInv'
        BY <3>1, <2>3, <2>4, <2>5, <2>6, <2>7, <1>0 DEF KeptInv, TailIsKept
      <3> QED
        BY <3>1, <3>2, <3>3, <2>1, <2>71 DEF CaptureInv
    <2> QED
      BY <2>8, <2>9
  <1>4. ASSUME UNCHANGED captureVars PROVE CaptureInv'
    BY <1>4 DEF captureVars, CaptureInv, KeptInv, TailIsKept
  <1> QED
    BY <1>2, <1>3, <1>4 DEF CaptureNext

\* What a step reports of its output is the end of it, within the caps and counted, from
\* the beginning of a line on unless a line was longer than the window, with every secret
\* that can be masked hidden: for every output, in whatever pieces pump read it, and every
\* set of secrets.
THEOREM CapturesAreSound ==
  CaptureSpec => []CaptureIsSound
  <1>1. CaptureInit => CaptureInv
    BY CaptureStarts
  <1>2. CaptureInv /\ [CaptureNext]_captureVars => CaptureInv'
    BY CaptureStep
  <1>3. CaptureInv => CaptureIsSound
    <2> SUFFICES ASSUME CaptureInv PROVE CaptureIsSound
      OBVIOUS
    <2>0. buf \in Seq(Bytes) /\ buf \in Seq(Marks) /\ Len(buf) \in Nat
      <3>1. buf \in Seq(Bytes)
        BY NewlinesFacts DEF CaptureInv, KeptInv, TailIsKept
      <3> QED
        BY <3>1, SeqMonotonic DEF Marks
    <2>1. TailIsKept /\ CaptureIsBounded /\ NoHalfLine
      BY DEF CaptureInv, KeptInv, CaptureIsBounded, NoHalfLine
    <2>2. /\ Len(Mask(buf)) <= Len(buf)
          /\ \A v \in Values : Len(v) >= MinMaskable => ~Occurs(v, Mask(buf)) /\ Mask(v) = <<Star>>
      BY <2>0, MaskHides
    <2>3. CASE sealed = "sealed"
      <3>1. shown = Mask(buf)
        BY <2>3 DEF CaptureInv
      <3> QED
        BY <2>1, <2>2, <3>1 DEF CaptureIsSound, MaskedIsHidden
    <2>4. CASE sealed = "open"
      <3>1. shown = <<>> /\ Len(shown) = 0
        BY <2>4 DEF CaptureInv
      <3>2. \A v : ~Occurs(v, shown)
        BY <3>1 DEF Occurs
      <3> QED
        BY <2>0, <2>1, <2>2, <3>1, <3>2 DEF CaptureIsSound, MaskedIsHidden
    <2> QED
      BY <2>3, <2>4 DEF CaptureInv
  <1> QED
    BY <1>1, <1>2, <1>3, PTL DEF CaptureSpec

-----------------------------------------------------------------------------
\* The client of the key service.

KmsKeys == [id : Nat, ver : Nat]
KmsRecords ==
  [op : {"none", "seal", "wrap", "provision", "rotate", "shred"},
   at : {"none", "lookup", "reread", "found", "use", "deleted", "lost"},
   got : SUBSET KmsKeys, want : Nat, cached : BOOLEAN, began : SUBSET Nat, met : SUBSET {"deleted", "rotated"}]

KmsTypeInv ==
  /\ kmsKey \in SUBSET KmsKeys /\ kmsIds \in Nat
  /\ keyIds \in [{ReplicaOf[c] : c \in KmsCallers} -> SUBSET Nat]
  /\ kmsCall \in [KmsCallers -> KmsRecords]

\* The ids a call knows were given out by then.
KmsKnown(call, ids) == (\A i \in call.began : i <= ids) /\ (\A k \in call.got : k.id <= ids)

\* An id is given out once.
KmsIdInv ==
  /\ \A k \in kmsKey : k.id <= kmsIds
  /\ \A c \in KmsCallers : KmsKnown(kmsCall[c], kmsIds)
  /\ \A r \in DOMAIN keyIds : \A i \in keyIds[r] : i <= kmsIds

\* What a call may rely on, with key in the service, whatever the others did.
KmsCallInv(call, key) ==
  /\ call.at \in {"deleted", "lost"} => call.op = "shred"
  /\ call.op = "provision" /\ call.at = "reread" /\ key = {} => "deleted" \in call.met
  /\ call.op = "shred" /\ ~call.cached /\ call.at \in {"found", "use"} =>
       \A k \in key : k.id \in call.began => \E g \in call.got : g.id = k.id
  /\ call.op = "shred" /\ ~call.cached /\ call.at = "deleted" => \A k \in key : k.id \notin call.began
  /\ call.op = "wrap" /\ call.at \in {"found", "use"} =>
       \A k \in key : (\E g \in call.got : g.id = k.id) => k \in call.got \/ "rotated" \in call.met
  /\ call.op = "wrap" /\ call.at = "use" => \A g \in call.got : g.ver = call.want

KmsInv ==
  /\ KmsTypeInv /\ KmsIdInv
  /\ \A c \in KmsCallers : KmsCallInv(kmsCall[c], kmsKey)
  /\ KmsIsHonest

\* What the service may make of the key, and what the calls under way hear of it.
KeyMoves(key) ==
  /\ key \in SUBSET KmsKeys
  /\ \/ key = kmsKey
     \/ kmsKey = {} /\ \E k \in KmsKeys : k.id = kmsIds + 1 /\ key = {k}
     \/ kmsKey # {} /\ key # {} /\ \A k \in key : \E o \in kmsKey : o.id = k.id
     \/ kmsKey # {} /\ key \subseteq kmsKey

LEMMA ServedMoves ==
  ASSUME KmsTypeInv, NEW c \in KmsCallers
  PROVE  KeyMoves(ServedKey(c)) /\ KeyMoves(kmsKey)
  <1>0. kmsKey \in SUBSET KmsKeys /\ kmsIds \in Nat /\ kmsCall[c] \in KmsRecords
    BY DEF KmsTypeInv
  <1>1. CASE kmsCall[c].op = "provision"
    <2>1. ServedKey(c) = IF kmsKey = {} THEN {[id |-> kmsIds + 1, ver |-> 1]} ELSE kmsKey
      BY <1>1 DEF ServedKey
    <2>2. [id |-> kmsIds + 1, ver |-> 1] \in KmsKeys
      BY <1>0 DEF KmsKeys
    <2> QED
      BY <2>1, <2>2, <1>0 DEF KeyMoves
  <1>2. CASE kmsCall[c].op = "rotate"
    <2> DEFINE Turned(k) == IF k.id \in NamedIds(c) THEN [k EXCEPT !.ver = @ + 1] ELSE k
    <2>1. ServedKey(c) = {Turned(k) : k \in kmsKey}
      BY <1>2 DEF ServedKey
    <2>2. ASSUME NEW k \in kmsKey PROVE Turned(k) \in KmsKeys /\ Turned(k).id = k.id
      <3>1. k \in KmsKeys /\ k.ver \in Nat
        BY <1>0 DEF KmsKeys
      <3> QED
        BY <3>1 DEF KmsKeys
    <2> HIDE DEF Turned
    <2>3. ServedKey(c) \in SUBSET KmsKeys /\ \A k \in ServedKey(c) : \E o \in kmsKey : o.id = k.id
      BY <2>1, <2>2
    <2>4. kmsKey # {} => ServedKey(c) # {}
      BY <2>1
    <2>5. kmsKey = {} => ServedKey(c) = kmsKey
      BY <2>1
    <2> QED
      BY <2>3, <2>4, <2>5, <1>0 DEF KeyMoves
  <1>3. CASE kmsCall[c].op = "shred"
    <2>1. ServedKey(c) = {k \in kmsKey : k.id \notin NamedIds(c)}
      BY <1>3 DEF ServedKey
    <2> QED
      BY <2>1, <1>0 DEF KeyMoves
  <1>4. CASE kmsCall[c].op \notin {"provision", "rotate", "shred"}
    <2>1. ServedKey(c) = kmsKey
      BY <1>4 DEF ServedKey
    <2> QED
      BY <2>1, <1>0 DEF KeyMoves
  <1> QED
    BY <1>1, <1>2, <1>3, <1>4

\* The key service's ids grow with it.
LEMMA KeyIsKnown ==
  ASSUME KmsTypeInv, KmsIdInv, NEW key, KeyMoves(key), Becomes(key)
  PROVE  /\ kmsKey' = key /\ kmsKey' \in SUBSET KmsKeys /\ kmsIds' \in Nat /\ kmsIds <= kmsIds'
         /\ \A k \in kmsKey' : k.id <= kmsIds'
  <1>0. kmsKey \in SUBSET KmsKeys /\ kmsIds \in Nat /\ \A k \in kmsKey : k.id <= kmsIds
    BY DEF KmsTypeInv, KmsIdInv
  <1>1. kmsKey' = key /\ kmsIds' = IF kmsKey = {} /\ key # {} THEN kmsIds + 1 ELSE kmsIds
    BY DEF Becomes
  <1>2. key \in SUBSET KmsKeys
    BY DEF KeyMoves
  <1>3. kmsIds' \in Nat /\ kmsIds <= kmsIds'
    BY <1>0, <1>1
  <1>4. ASSUME NEW k \in key PROVE k.id <= kmsIds'
    <2>1. CASE key = kmsKey
      BY <2>1, <1>0, <1>1
    <2>2. CASE kmsKey = {} /\ \E n \in KmsKeys : n.id = kmsIds + 1 /\ key = {n}
      <3>1. k.id = kmsIds + 1 /\ kmsIds' = kmsIds + 1
        BY <2>2, <1>1
      <3> QED
        BY <3>1, <1>0
    <2>3. CASE kmsKey # {} /\ \A n \in key : \E o \in kmsKey : o.id = n.id
      BY <2>3, <1>0, <1>1
    <2>4. CASE kmsKey # {} /\ key \subseteq kmsKey
      BY <2>4, <1>0, <1>1
    <2> QED
      BY <2>1, <2>2, <2>3, <2>4 DEF KeyMoves
  <1> QED
    BY <1>1, <1>2, <1>3, <1>4

\* A call stands by what it relies on when it hears what became of the key, and needs not
\* hear that one was made.
LEMMA HearingKeeps ==
  ASSUME KmsTypeInv, KmsIdInv, NEW call \in KmsRecords, KmsCallInv(call, kmsKey), KmsKnown(call, kmsIds),
         NEW key, KeyMoves(key), NEW heard \in KmsRecords,
         heard = [call EXCEPT !.met = heard.met], call.met \subseteq heard.met,
         key # kmsKey /\ kmsKey # {} => (IF key = {} THEN "deleted" ELSE "rotated") \in heard.met
  PROVE  KmsCallInv(heard, key)
  <1>0. /\ heard.op = call.op /\ heard.at = call.at /\ heard.got = call.got /\ heard.want = call.want
        /\ heard.cached = call.cached /\ heard.began = call.began
    BY DEF KmsRecords
  <1>1. kmsKey \in SUBSET KmsKeys /\ kmsIds \in Nat
    BY DEF KmsTypeInv
  <1>2. CASE key = kmsKey
    BY <1>0, <1>2 DEF KmsCallInv
  <1>3. CASE kmsKey = {} /\ \E n \in KmsKeys : n.id = kmsIds + 1 /\ key = {n}
    <2>1. PICK n \in KmsKeys : n.id = kmsIds + 1 /\ key = {n}
      BY <1>3
    <2>2. n.id \notin call.began /\ \A g \in call.got : g.id # n.id
      BY <2>1, <1>1 DEF KmsKnown
    <2> QED
      BY <2>1, <2>2, <1>0 DEF KmsCallInv
  <1>4. CASE kmsKey # {} /\ key # kmsKey /\ key # {} /\ \A k \in key : \E o \in kmsKey : o.id = k.id
    <2>1. "rotated" \in heard.met
      BY <1>4
    <2> QED
      BY <2>1, <1>4, <1>0 DEF KmsCallInv
  <1>5. CASE kmsKey # {} /\ key # kmsKey /\ key \subseteq kmsKey
    <2>1. key # {} => "rotated" \in heard.met
      BY <1>5
    <2>2. key = {} => "deleted" \in heard.met
      BY <1>5
    <2> QED
      BY <2>1, <2>2, <1>5, <1>0 DEF KmsCallInv
  <1> QED
    BY <1>2, <1>3, <1>4, <1>5 DEF KeyMoves

\* Everybody is told.
LEMMA ToldKeeps ==
  ASSUME KmsInv, NEW key, KeyMoves(key), NEW d \in KmsCallers
  PROVE  KmsTold(key)[d] \in KmsRecords /\ KmsCallInv(KmsTold(key)[d], key) /\ KmsKnown(KmsTold(key)[d], kmsIds)
  <1> DEFINE call == kmsCall[d]
             heard == KmsTold(key)[d]
             word == IF key = kmsKey THEN {} ELSE IF key = {} THEN {"deleted"} ELSE {"rotated"}
  <1>0. call \in KmsRecords /\ KmsCallInv(call, kmsKey) /\ KmsKnown(call, kmsIds) /\ KmsTypeInv /\ KmsIdInv
    BY DEF KmsInv, KmsTypeInv, KmsIdInv
  <1>1. heard = IF call.op = "none" THEN KmsResting ELSE [call EXCEPT !.met = @ \cup word]
    BY DEF KmsTold
  <1>2. CASE call.op = "none"
    <2>1. heard = KmsResting
      BY <1>1, <1>2
    <2>2. KmsResting \in KmsRecords /\ KmsKnown(KmsResting, kmsIds) /\ KmsCallInv(KmsResting, key)
      BY DEF KmsResting, KmsRecords, KmsKnown, KmsCallInv
    <2> QED
      BY <2>1, <2>2
  <1>3. CASE call.op # "none"
    <2>1. heard = [call EXCEPT !.met = @ \cup word]
      BY <1>1, <1>3
    <2>2. word \subseteq {"deleted", "rotated"}
      OBVIOUS
    <2>3. heard \in KmsRecords /\ heard.met = call.met \cup word /\ heard.began = call.began /\ heard.got = call.got
      <3> HIDE DEF word, call, heard
      <3> QED
        BY <2>1, <2>2, <1>0 DEF KmsRecords
    <2>4. heard = [call EXCEPT !.met = heard.met]
      <3> HIDE DEF word, call, heard
      <3> QED
        BY <2>1, <2>3, <1>0 DEF KmsRecords
    <2>5. key # kmsKey => (IF key = {} THEN "deleted" ELSE "rotated") \in word
      OBVIOUS
    <2> HIDE DEF word, call, heard
    <2>6. KmsCallInv(heard, key)
      BY <2>3, <2>4, <2>5, <1>0, HearingKeeps
    <2> QED
      BY <2>3, <2>6, <1>0 DEF KmsKnown, heard
  <1> QED
    BY <1>2, <1>3

\* A call that goes on or returns while the key stays.
LEMMA OwnStep ==
  ASSUME KmsInv, NEW c \in KmsCallers, NEW rec \in KmsRecords, KmsCallInv(rec, kmsKey), KmsKnown(rec, kmsIds),
         kmsCall' = [kmsCall EXCEPT ![c] = rec], kmsKey' = kmsKey, kmsIds' = kmsIds,
         keyIds' = keyIds \/ (\E ids \in SUBSET Nat : (\A i \in ids : i <= kmsIds) /\ keyIds' = [keyIds EXCEPT ![ReplicaOf[c]] = ids]),
         KmsIsHonest'
  PROVE  KmsInv'
  <1>0. KmsTypeInv /\ KmsIdInv /\ \A d \in KmsCallers : KmsCallInv(kmsCall[d], kmsKey)
    BY DEF KmsInv
  <1>1. keyIds' \in [{ReplicaOf[d] : d \in KmsCallers} -> SUBSET Nat] /\ \A r \in DOMAIN keyIds' : \A i \in keyIds'[r] : i <= kmsIds
    BY <1>0 DEF KmsTypeInv, KmsIdInv
  <1>2. ASSUME NEW d \in KmsCallers
        PROVE  kmsCall'[d] \in KmsRecords /\ KmsCallInv(kmsCall'[d], kmsKey) /\ KmsKnown(kmsCall'[d], kmsIds)
    <2>1. kmsCall'[d] = IF d = c THEN rec ELSE kmsCall[d]
      BY <1>0 DEF KmsTypeInv
    <2> QED
      BY <2>1, <1>0 DEF KmsTypeInv, KmsIdInv
  <1>3. kmsCall' \in [KmsCallers -> KmsRecords]
    BY <1>0 DEF KmsTypeInv
  <1>4. KmsTypeInv'
    BY <1>0, <1>1, <1>3 DEF KmsTypeInv
  <1>5. KmsIdInv'
    BY <1>0, <1>1, <1>2 DEF KmsIdInv
  <1>6. ASSUME NEW d \in KmsCallers PROVE KmsCallInv(kmsCall[d], kmsKey)'
    BY <1>2
  <1> QED
    BY <1>4, <1>5, <1>6 DEF KmsInv

\* The key becomes another one, the calls are told of it, and c goes on with rec.
LEMMA KeyStep ==
  ASSUME KmsInv, NEW c \in KmsCallers, NEW key, KeyMoves(key), Becomes(key), keyIds' = keyIds,
         NEW rec \in KmsRecords, KmsCallInv(rec, key), KmsKnown(rec, kmsIds'),
         \/ kmsCall' = [KmsTold(key) EXCEPT ![c] = rec]
         \/ kmsCall' = [kmsCall EXCEPT ![c] = rec] /\ (key = kmsKey \/ kmsKey = {}),
         kmsDone' = kmsDone, blobs' = blobs
  PROVE  KmsInv'
  <1>0. KmsTypeInv /\ KmsIdInv /\ (\A d \in KmsCallers : KmsCallInv(kmsCall[d], kmsKey)) /\ KmsIsHonest
    BY DEF KmsInv
  <1>1. /\ kmsKey' = key /\ kmsKey' \in SUBSET KmsKeys /\ kmsIds' \in Nat /\ kmsIds <= kmsIds'
        /\ \A k \in kmsKey' : k.id <= kmsIds'
    BY <1>0, KeyIsKnown
  <1>2. ASSUME NEW call \in KmsRecords, KmsKnown(call, kmsIds) PROVE KmsKnown(call, kmsIds')
    <2>1. kmsIds \in Nat /\ (\A i \in call.began : i \in Nat) /\ (\A k \in call.got : k.id \in Nat)
      BY <1>0 DEF KmsTypeInv, KmsRecords, KmsKeys
    <2> QED
      BY <2>1, <1>1, <1>2 DEF KmsKnown
  <1>3. ASSUME NEW d \in KmsCallers
        PROVE  kmsCall'[d] \in KmsRecords /\ KmsCallInv(kmsCall'[d], key) /\ KmsKnown(kmsCall'[d], kmsIds')
    <2>1. CASE kmsCall' = [KmsTold(key) EXCEPT ![c] = rec]
      <3>1. kmsCall'[d] = IF d = c THEN rec ELSE KmsTold(key)[d]
        BY <2>1 DEF KmsTold
      <3>2. KmsTold(key)[d] \in KmsRecords /\ KmsCallInv(KmsTold(key)[d], key) /\ KmsKnown(KmsTold(key)[d], kmsIds)
        BY ToldKeeps
      <3> QED
        BY <3>1, <3>2, <1>2
    <2>2. CASE kmsCall' = [kmsCall EXCEPT ![c] = rec] /\ (key = kmsKey \/ kmsKey = {})
      <3> DEFINE call == kmsCall[d]
      <3>1. kmsCall'[d] = IF d = c THEN rec ELSE call
        BY <2>2, <1>0 DEF KmsTypeInv
      <3>2. call \in KmsRecords /\ KmsCallInv(call, kmsKey) /\ KmsKnown(call, kmsIds)
        BY <1>0 DEF KmsTypeInv, KmsIdInv
      <3> HIDE DEF call
      <3>3. call = [call EXCEPT !.met = call.met]
        BY <3>2 DEF KmsRecords
      <3>4. KmsCallInv(call, key)
        BY <3>2, <3>3, <2>2, <1>0, HearingKeeps
      <3> QED
        BY <3>1, <3>2, <3>4, <1>2
    <2> QED
      BY <2>1, <2>2
  <1>4. kmsCall' \in [KmsCallers -> KmsRecords]
    <2>1. CASE kmsCall' = [KmsTold(key) EXCEPT ![c] = rec]
      <3>1. kmsCall' = [d \in KmsCallers |-> kmsCall'[d]]
        BY <2>1 DEF KmsTold
      <3> QED
        BY <3>1, <1>3
    <2>2. CASE kmsCall' = [kmsCall EXCEPT ![c] = rec]
      BY <2>2, <1>0 DEF KmsTypeInv
    <2> QED
      BY <2>1, <2>2
  <1>5. KmsTypeInv'
    BY <1>0, <1>1, <1>4 DEF KmsTypeInv
  <1>6. KmsIdInv'
    <2>1. \A r \in DOMAIN keyIds : \A i \in keyIds[r] : i <= kmsIds'
      <3>1. \A r \in DOMAIN keyIds : \A i \in keyIds[r] : i \in Nat /\ i <= kmsIds
        BY <1>0 DEF KmsTypeInv, KmsIdInv
      <3> QED
        BY <3>1, <1>0, <1>1 DEF KmsTypeInv
    <2> QED
      BY <2>1, <1>1, <1>3 DEF KmsIdInv
  <1>7. KmsIsHonest'
    BY <1>0 DEF KmsIsHonest
  <1>8. ASSUME NEW d \in KmsCallers PROVE KmsCallInv(kmsCall[d], kmsKey)'
    BY <1>1, <1>3
  <1> QED
    BY <1>5, <1>6, <1>7, <1>8 DEF KmsInv

LEMMA RestingFacts ==
  ASSUME NEW key, NEW ids
  PROVE  KmsResting \in KmsRecords /\ KmsKnown(KmsResting, ids) /\ KmsCallInv(KmsResting, key)
  BY DEF KmsResting, KmsRecords, KmsKnown, KmsCallInv

LEMMA KmsStarts ==
  ASSUME KmsInit
  PROVE  KmsInv
  <1>1. KmsTypeInv
    <2>1. [id |-> 1, ver |-> 1] \in KmsKeys
      BY DEF KmsKeys
    <2> QED
      BY <2>1, RestingFacts DEF KmsInit, KmsTypeInv
  <1>2. \A k \in kmsKey : k.id <= kmsIds
    BY DEF KmsInit
  <1>3. \A c \in KmsCallers : kmsCall[c] = KmsResting
    BY DEF KmsInit
  <1>4. KmsIdInv
    BY <1>2, <1>3, RestingFacts DEF KmsInit, KmsIdInv
  <1>5. KmsIsHonest
    BY DEF KmsInit, KmsIsHonest
  <1> QED
    BY <1>1, <1>3, <1>4, <1>5, RestingFacts DEF KmsInv

\* A call as it begins.
LEMMA FreshCall ==
  ASSUME NEW o, NEW b, NEW r, r = [KmsResting EXCEPT !.op = o, !.began = b]
  PROVE  r = [op |-> o, at |-> "none", got |-> {}, want |-> 0, cached |-> FALSE, began |-> b, met |-> {}]
  BY DEF KmsResting

LEMMA KmsStep ==
  ASSUME KmsInv, [KmsNext]_kmsVars
  PROVE  KmsInv'
  <1>0. KmsTypeInv /\ KmsIdInv /\ (\A d \in KmsCallers : KmsCallInv(kmsCall[d], kmsKey)) /\ KmsIsHonest
    BY DEF KmsInv
  <1>1. kmsKey \in SUBSET KmsKeys /\ kmsIds \in Nat /\ \A k \in kmsKey : k.id <= kmsIds /\ k.id \in Nat
    BY <1>0 DEF KmsTypeInv, KmsIdInv, KmsKeys
  <1>2. ASSUME NEW c \in KmsCallers
        PROVE  kmsCall[c] \in KmsRecords /\ KmsCallInv(kmsCall[c], kmsKey) /\ KmsKnown(kmsCall[c], kmsIds)
    BY <1>0 DEF KmsTypeInv, KmsIdInv
  <1>3. KmsKnown(KmsResting, kmsIds) /\ KmsResting \in KmsRecords /\ KmsCallInv(KmsResting, kmsKey)
    BY RestingFacts
  <1>4. ASSUME NEW c \in KmsCallers, NEW op \in {"seal", "provision", "rotate", "shred"}, CallsKms(c, op) PROVE KmsInv'
    <2> DEFINE fresh == [KmsResting EXCEPT !.op = op, !.began = CurrentId]
               cached == keyIds[ReplicaOf[c]]
               found == {[id |-> i, ver |-> 0] : i \in cached}
               rec == IF op \in {"rotate", "shred"} /\ cached # {}
                      THEN [fresh EXCEPT !.at = "use", !.got = found, !.cached = TRUE]
                      ELSE [fresh EXCEPT !.at = "lookup"]
    <2>1. kmsCall' = [kmsCall EXCEPT ![c] = rec] /\ kmsDone' = kmsDone /\ UNCHANGED <<kmsKey, kmsIds, keyIds, blobs>>
      BY <1>4 DEF CallsKms, KmsGoesOn
    <2>2. CurrentId \in SUBSET Nat /\ \A i \in CurrentId : i <= kmsIds
      BY <1>1 DEF CurrentId
    <2>3. cached \in SUBSET Nat /\ \A i \in cached : i <= kmsIds
      BY <1>0 DEF KmsTypeInv, KmsIdInv
    <2>4. found \in SUBSET KmsKeys /\ \A k \in found : k.id <= kmsIds
      BY <2>3 DEF KmsKeys
    <2> HIDE DEF found, cached
    <2>5. fresh = [op |-> op, at |-> "none", got |-> {}, want |-> 0, cached |-> FALSE, began |-> CurrentId, met |-> {}]
      <3>1. ASSUME NEW r, r = fresh PROVE r = [op |-> op, at |-> "none", got |-> {}, want |-> 0, cached |-> FALSE, began |-> CurrentId, met |-> {}]
        BY <3>1, FreshCall
      <3> HIDE DEF fresh
      <3> QED
        BY <3>1
    <2> HIDE DEF fresh
    <2>6. CASE op \in {"rotate", "shred"} /\ cached # {}
      <3>1. rec = [op |-> op, at |-> "use", got |-> found, want |-> 0, cached |-> TRUE, began |-> CurrentId, met |-> {}]
        BY <2>5, <2>6
      <3> HIDE DEF rec
      <3>2. rec \in KmsRecords /\ KmsKnown(rec, kmsIds)
        BY <3>1, <2>2, <2>4 DEF KmsRecords, KmsKnown
      <3>3. KmsCallInv(rec, kmsKey)
        BY <3>1, <2>6 DEF KmsCallInv
      <3>4. KmsIsHonest'
        BY <2>1, <1>0 DEF KmsIsHonest
      <3> QED
        BY <3>2, <3>3, <3>4, <2>1, OwnStep
    <2>7. CASE ~(op \in {"rotate", "shred"} /\ cached # {})
      <3>1. rec = [op |-> op, at |-> "lookup", got |-> {}, want |-> 0, cached |-> FALSE, began |-> CurrentId, met |-> {}]
        BY <2>5, <2>7
      <3> HIDE DEF rec
      <3>2. rec \in KmsRecords /\ KmsKnown(rec, kmsIds)
        BY <3>1, <2>2 DEF KmsRecords, KmsKnown
      <3>3. KmsCallInv(rec, kmsKey)
        BY <3>1 DEF KmsCallInv
      <3>4. KmsIsHonest'
        BY <2>1, <1>0 DEF KmsIsHonest
      <3> QED
        BY <3>2, <3>3, <3>4, <2>1, OwnStep
    <2> QED
      BY <2>6, <2>7
  <1>5. ASSUME NEW c \in KmsCallers, LookupKey(c) PROVE KmsInv'
    <2> DEFINE call == kmsCall[c]
    <2>0. call \in KmsRecords /\ KmsCallInv(call, kmsKey) /\ KmsKnown(call, kmsIds)
      BY <1>2
    <2>1. call.at \in {"lookup", "reread"} /\ UNCHANGED <<kmsKey, kmsIds, keyIds, blobs>>
      BY <1>5 DEF LookupKey
    <2>2. CASE kmsKey # {}
      <3> DEFINE rec == [call EXCEPT !.at = "found", !.got = kmsKey, !.met = IF call.op = "wrap" THEN {} ELSE @]
      <3>1. kmsCall' = [kmsCall EXCEPT ![c] = rec] /\ kmsDone' = kmsDone
        BY <1>5, <2>2 DEF LookupKey, KmsGoesOn
      <3> HIDE DEF call
      <3>2. /\ rec \in KmsRecords /\ rec.at = "found" /\ rec.got = kmsKey /\ rec.began = call.began
            /\ rec.op = call.op
        BY <2>0, <1>1 DEF KmsRecords
      <3> HIDE DEF rec
      <3>3. KmsKnown(rec, kmsIds) /\ KmsCallInv(rec, kmsKey)
        BY <3>2, <2>0, <1>1 DEF KmsKnown, KmsCallInv
      <3>4. KmsIsHonest'
        BY <2>1, <3>1, <1>0 DEF KmsIsHonest
      <3> QED
        BY <3>1, <3>2, <3>3, <3>4, <2>1, OwnStep
    <2>3. CASE kmsKey = {} /\ call.op = "provision" /\ call.at = "lookup"
      <3> DEFINE rec == [call EXCEPT !.at = "use"]
      <3>1. kmsCall' = [kmsCall EXCEPT ![c] = rec] /\ kmsDone' = kmsDone
        BY <1>5, <2>3 DEF LookupKey, KmsGoesOn
      <3> HIDE DEF call
      <3>2. rec \in KmsRecords /\ rec.at = "use" /\ rec.got = call.got /\ rec.began = call.began /\ rec.op = "provision"
        BY <2>0, <2>3 DEF KmsRecords
      <3> HIDE DEF rec
      <3>3. KmsKnown(rec, kmsIds) /\ KmsCallInv(rec, kmsKey)
        BY <3>2, <2>0 DEF KmsKnown, KmsCallInv
      <3>4. KmsIsHonest'
        BY <2>1, <3>1, <1>0 DEF KmsIsHonest
      <3> QED
        BY <3>1, <3>2, <3>3, <3>4, <2>1, OwnStep
    <2>4. CASE kmsKey = {} /\ ~(call.op = "provision" /\ call.at = "lookup")
      <3>1. KmsReturns(c, FALSE)
        BY <1>5, <2>4 DEF LookupKey
      <3>2. kmsCall' = [kmsCall EXCEPT ![c] = KmsResting]
        BY <3>1 DEF KmsReturns
      <3>3. ASSUME NEW d \in kmsDone', d \notin kmsDone
            PROVE  d.op = call.op /\ d.ok = FALSE /\ d.met = call.met
        BY <3>1, <3>3 DEF KmsReturns
      <3>4. call.op = "provision" => "deleted" \in call.met
        BY <2>0, <2>1, <2>4 DEF KmsCallInv
      <3>5. KmsIsHonest'
        <4>1. \A d \in kmsDone' : d.op = "provision" /\ ~d.ok => "deleted" \in d.met
          BY <3>3, <3>4, <1>0 DEF KmsIsHonest
        <4>2. \A d \in kmsDone' : d.op = "shred" /\ d.ok /\ ~d.cached => ~d.left
          BY <3>3, <1>0 DEF KmsIsHonest
        <4> QED
          BY <4>1, <4>2, <2>1, <1>0 DEF KmsIsHonest
      <3> QED
        BY <3>2, <3>5, <2>1, <1>3, OwnStep
    <2> QED
      BY <2>2, <2>3, <2>4, <2>1
  <1>6. ASSUME NEW c \in KmsCallers, FoundKey(c) PROVE KmsInv'
    <2> DEFINE call == kmsCall[c]
    <2>0. call \in KmsRecords /\ KmsCallInv(call, kmsKey) /\ KmsKnown(call, kmsIds)
      BY <1>2
    <2>1. call.at = "found" /\ UNCHANGED <<kmsKey, kmsIds, blobs>> /\ keyIds' = [keyIds EXCEPT ![ReplicaOf[c]] = NamedIds(c)]
      BY <1>6 DEF FoundKey
    <2>2. NamedIds(c) \in SUBSET Nat /\ \A i \in NamedIds(c) : i <= kmsIds
      BY <2>0 DEF NamedIds, KmsRecords, KmsKeys, KmsKnown
    <2>3. CASE call.op = "seal"
      <3>1. PICK k \in call.got : KmsGoesOn(c, [call EXCEPT !.op = "wrap", !.at = "lookup", !.want = k.ver])
        BY <1>6, <2>3 DEF FoundKey
      <3> DEFINE rec == [call EXCEPT !.op = "wrap", !.at = "lookup", !.want = k.ver]
      <3>2. kmsCall' = [kmsCall EXCEPT ![c] = rec] /\ kmsDone' = kmsDone
        BY <3>1 DEF KmsGoesOn
      <3> HIDE DEF call
      <3>3. k.ver \in Nat
        BY <2>0, <3>1 DEF KmsRecords, KmsKeys
      <3>4. rec \in KmsRecords /\ rec.at = "lookup" /\ rec.op = "wrap" /\ rec.got = call.got /\ rec.began = call.began
        BY <3>3, <2>0 DEF KmsRecords
      <3> HIDE DEF rec
      <3>5. KmsKnown(rec, kmsIds) /\ KmsCallInv(rec, kmsKey)
        BY <3>4, <2>0 DEF KmsKnown, KmsCallInv
      <3>6. KmsIsHonest'
        BY <2>1, <3>2, <1>0 DEF KmsIsHonest
      <3> QED
        BY <3>2, <3>4, <3>5, <3>6, <2>1, <2>2, OwnStep
    <2>4. CASE call.op = "provision"
      <3>1. KmsReturns(c, TRUE)
        BY <1>6, <2>4 DEF FoundKey
      <3>2. kmsCall' = [kmsCall EXCEPT ![c] = KmsResting]
        BY <3>1 DEF KmsReturns
      <3>3. ASSUME NEW d \in kmsDone', d \notin kmsDone PROVE d.op = "provision" /\ d.ok = TRUE
        BY <3>1, <3>3, <2>4 DEF KmsReturns
      <3>5. KmsIsHonest'
        BY <3>3, <2>1, <1>0 DEF KmsIsHonest
      <3> QED
        BY <3>2, <3>5, <2>1, <2>2, <1>3, OwnStep
    <2>5. CASE call.op = "wrap" /\ ~WrapsVersion(c)
      <3>1. KmsReturns(c, FALSE)
        BY <1>6, <2>5 DEF FoundKey
      <3>2. kmsCall' = [kmsCall EXCEPT ![c] = KmsResting] /\ kmsDone' = kmsDone
        BY <3>1, <2>5 DEF KmsReturns
      <3>5. KmsIsHonest'
        BY <3>2, <2>1, <1>0 DEF KmsIsHonest
      <3> QED
        BY <3>2, <3>5, <2>1, <2>2, <1>3, OwnStep
    <2>6. CASE call.op \notin {"seal", "provision"} /\ ~(call.op = "wrap" /\ ~WrapsVersion(c))
      <3> DEFINE rec == [call EXCEPT !.at = "use"]
      <3>1. KmsGoesOn(c, rec)
        BY <1>6, <2>6 DEF FoundKey
      <3>2. kmsCall' = [kmsCall EXCEPT ![c] = rec] /\ kmsDone' = kmsDone
        BY <3>1 DEF KmsGoesOn
      <3>3. call.op = "wrap" => \A g \in call.got : g.ver = call.want
        BY <2>6 DEF WrapsVersion
      <3> HIDE DEF call
      <3>4. /\ rec \in KmsRecords /\ rec.at = "use" /\ rec.op = call.op /\ rec.got = call.got /\ rec.began = call.began
            /\ rec.want = call.want /\ rec.cached = call.cached /\ rec.met = call.met
        BY <2>0 DEF KmsRecords
      <3> HIDE DEF rec
      <3>5. KmsKnown(rec, kmsIds) /\ KmsCallInv(rec, kmsKey)
        BY <3>3, <3>4, <2>0, <2>1, <2>6 DEF KmsKnown, KmsCallInv
      <3>6. KmsIsHonest'
        BY <2>1, <3>2, <1>0 DEF KmsIsHonest
      <3> QED
        BY <3>2, <3>4, <3>5, <3>6, <2>1, <2>2, OwnStep
    <2> QED
      BY <2>3, <2>4, <2>5, <2>6
  <1>7. ASSUME NEW c \in KmsCallers, Encrypts(c) PROVE KmsInv'
    <2> DEFINE call == kmsCall[c]
    <2>0. call \in KmsRecords /\ KmsCallInv(call, kmsKey)
      BY <1>2
    <2>1. /\ call.at = "use" /\ call.op = "wrap" /\ UNCHANGED <<kmsKey, kmsIds, keyIds>>
          /\ kmsCall' = [kmsCall EXCEPT ![c] = KmsResting] /\ kmsDone' = kmsDone
          /\ blobs' = blobs \cup {[says |-> call.want, under |-> k.ver, met |-> call.met] : k \in {x \in kmsKey : x.id \in NamedIds(c)}}
      BY <1>7 DEF Encrypts, KmsReturns
    <2>2. ASSUME NEW k \in kmsKey, k.id \in NamedIds(c) PROVE call.want = k.ver \/ "rotated" \in call.met
      <3>1. \E g \in call.got : g.id = k.id
        BY <2>2 DEF NamedIds
      <3> HIDE DEF call
      <3> QED
        BY <3>1, <2>0, <2>1 DEF KmsCallInv
    <2>3. KmsIsHonest'
      BY <2>1, <2>2, <1>0 DEF KmsIsHonest
    <2> QED
      BY <2>1, <2>3, <1>3, OwnStep
  <1>8. ASSUME NEW c \in KmsCallers, Creates(c) PROVE KmsInv'
    <2> DEFINE call == kmsCall[c]
               key == ServedKey(c)
    <2>0. call \in KmsRecords /\ KmsCallInv(call, kmsKey) /\ KmsKnown(call, kmsIds) /\ KeyMoves(key)
      BY <1>0, <1>2, ServedMoves
    <2>1. call.at = "use" /\ call.op = "provision" /\ Becomes(key) /\ UNCHANGED <<keyIds, blobs>>
      BY <1>8 DEF Creates
    <2>11. key = IF kmsKey = {} THEN {[id |-> kmsIds + 1, ver |-> 1]} ELSE kmsKey
      BY <2>1 DEF ServedKey
    <2> HIDE DEF key
    <2>2. /\ kmsKey' = key /\ kmsKey' \in SUBSET KmsKeys /\ kmsIds' \in Nat /\ kmsIds <= kmsIds'
          /\ \A k \in kmsKey' : k.id <= kmsIds'
      BY <2>0, <2>1, <1>0, KeyIsKnown
    <2>3. \A i \in call.began : i \in Nat /\ i <= kmsIds'
      BY <2>0, <2>2, <1>1 DEF KmsRecords, KmsKnown
    <2>4. CASE kmsKey # {}
      <3> DEFINE rec == [call EXCEPT !.at = "reread"]
      <3>1. kmsCall' = [kmsCall EXCEPT ![c] = rec] /\ kmsDone' = kmsDone
        BY <1>8, <2>4 DEF Creates, Conflict, KmsGoesOn
      <3> HIDE DEF call
      <3>2. rec \in KmsRecords /\ rec.at = "reread" /\ rec.op = call.op /\ rec.got = call.got /\ rec.began = call.began
        BY <2>0 DEF KmsRecords
      <3> HIDE DEF rec
      <3>3. key = kmsKey /\ kmsIds' = kmsIds
        BY <2>1, <2>4, <2>11 DEF Becomes
      <3>4. KmsKnown(rec, kmsIds') /\ KmsCallInv(rec, key)
        BY <3>2, <3>3, <2>0, <2>1, <2>4 DEF KmsKnown, KmsCallInv
      <3> QED
        BY <3>1, <3>2, <3>3, <3>4, <2>0, <2>1, KeyStep
    <2>5. CASE kmsKey = {}
      <3> DEFINE rec == [call EXCEPT !.at = "found", !.got = kmsKey']
      <3>1. kmsCall' = [kmsCall EXCEPT ![c] = rec] /\ kmsDone' = kmsDone
        BY <1>8, <2>5 DEF Creates, KmsGoesOn
      <3> HIDE DEF call
      <3>2. rec \in KmsRecords /\ rec.at = "found" /\ rec.op = call.op /\ rec.got = kmsKey' /\ rec.began = call.began
        BY <2>0, <2>2 DEF KmsRecords
      <3> HIDE DEF rec
      <3>4. KmsKnown(rec, kmsIds') /\ KmsCallInv(rec, key)
        BY <3>2, <2>1, <2>2, <2>3 DEF KmsKnown, KmsCallInv
      <3> QED
        BY <3>1, <3>2, <3>4, <2>0, <2>1, <2>5, KeyStep
    <2> QED
      BY <2>4, <2>5
  <1>9. ASSUME NEW c \in KmsCallers, RotatesKey(c) PROVE KmsInv'
    <2> DEFINE key == ServedKey(c)
    <2>0. KeyMoves(key)
      BY <1>0, ServedMoves
    <2>1. Becomes(key) /\ kmsCall' = [KmsTold(key) EXCEPT ![c] = KmsResting] /\ UNCHANGED <<keyIds, kmsDone, blobs>>
      BY <1>9 DEF RotatesKey
    <2> HIDE DEF key
    <2>2. KmsResting \in KmsRecords /\ KmsKnown(KmsResting, kmsIds') /\ KmsCallInv(KmsResting, key)
      BY RestingFacts
    <2> QED
      BY <2>0, <2>1, <2>2, KeyStep
  <1>10. ASSUME NEW c \in KmsCallers, Deletes(c) PROVE KmsInv'
    <2> DEFINE key == ServedKey(c)
               told == KmsTold(key)[c]
               rec == [told EXCEPT !.at = "deleted"]
               call == kmsCall[c]
    <2>0. KeyMoves(key) /\ call \in KmsRecords /\ KmsCallInv(call, kmsKey)
      BY <1>0, <1>2, ServedMoves
    <2>1. /\ call.at = "use" /\ call.op = "shred" /\ Becomes(key) /\ UNCHANGED <<keyIds, kmsDone, blobs>>
          /\ kmsCall' = [KmsTold(key) EXCEPT ![c].at = "deleted"]
      BY <1>10 DEF Deletes
    <2>2. kmsCall' = [KmsTold(key) EXCEPT ![c] = rec]
      BY <2>1 DEF KmsTold
    <2>3. key = {k \in kmsKey : k.id \notin NamedIds(c)}
      BY <2>1 DEF ServedKey
    <2>31. \A k \in key : k \in kmsKey /\ ~\E g \in call.got : g.id = k.id
      BY <2>3 DEF NamedIds
    <2>32. told.op = "shred" /\ told.got = call.got /\ told.began = call.began /\ told.cached = call.cached
      <3>1. told = [call EXCEPT !.met = @ \cup (IF key = kmsKey THEN {} ELSE IF key = {} THEN {"deleted"} ELSE {"rotated"})]
        BY <2>1 DEF KmsTold
      <3> HIDE DEF told, call, key
      <3> QED
        BY <3>1, <2>0, <2>1 DEF KmsRecords
    <2> HIDE DEF key
    <2>4. told \in KmsRecords /\ KmsKnown(told, kmsIds)
      BY <2>0, ToldKeeps
    <2>5. kmsIds' \in Nat /\ kmsIds <= kmsIds'
      BY <2>0, <2>1, <1>0, KeyIsKnown
    <2> HIDE DEF told, call
    <2>6. rec \in KmsRecords /\ rec.at = "deleted" /\ rec.op = "shred" /\ rec.got = told.got /\ rec.began = told.began /\ rec.cached = told.cached
      BY <2>4, <2>32 DEF KmsRecords
    <2> HIDE DEF rec
    <2>7. KmsKnown(rec, kmsIds')
      <3>1. (\A i \in rec.began : i \in Nat /\ i <= kmsIds) /\ (\A k \in rec.got : k.id \in Nat /\ k.id <= kmsIds)
        BY <2>4, <2>6 DEF KmsRecords, KmsKeys, KmsKnown
      <3> QED
        BY <3>1, <2>5, <1>1 DEF KmsKnown
    <2>8. KmsCallInv(rec, key)
      BY <2>0, <2>1, <2>31, <2>32, <2>6 DEF KmsCallInv
    <2> QED
      BY <2>0, <2>1, <2>2, <2>6, <2>7, <2>8, KeyStep
  <1>11. ASSUME NEW c \in KmsCallers, EvictsId(c) PROVE KmsInv'
    <2> DEFINE call == kmsCall[c]
    <2>0. call \in KmsRecords /\ KmsCallInv(call, kmsKey)
      BY <1>2
    <2>1. /\ call.at \in {"deleted", "lost"} /\ UNCHANGED <<kmsKey, kmsIds, blobs>>
          /\ keyIds' = [keyIds EXCEPT ![ReplicaOf[c]] = {}] /\ KmsReturns(c, call.at = "deleted")
      BY <1>11 DEF EvictsId
    <2>2. kmsCall' = [kmsCall EXCEPT ![c] = KmsResting]
      BY <2>1 DEF KmsReturns
    <2>3. ASSUME NEW d \in kmsDone', d \notin kmsDone
          PROVE  d.op = "shred" /\ (d.ok => call.at = "deleted") /\ d.cached = call.cached
                 /\ (d.left => \E k \in kmsKey : k.id \in call.began)
      <3>1. call.op = "shred"
        BY <2>0, <2>1 DEF KmsCallInv
      <3>2. d = [op |-> call.op, ok |-> call.at = "deleted", met |-> call.met, cached |-> call.cached,
                 left |-> call.began \cap CurrentId # {}]
        BY <3>1, <2>1, <2>3 DEF KmsReturns
      <3>3. call.began \cap CurrentId # {} => \E k \in kmsKey : k.id \in call.began
        BY DEF CurrentId
      <3> HIDE DEF call
      <3> QED
        BY <3>1, <3>2, <3>3
    <2>4. KmsIsHonest'
      <3>1. \A d \in kmsDone' : d.op = "provision" /\ ~d.ok => "deleted" \in d.met
        BY <2>3, <1>0 DEF KmsIsHonest
      <3>2. ASSUME NEW d \in kmsDone', d.op = "shred", d.ok, ~d.cached PROVE ~d.left
        <4>1. CASE d \in kmsDone
          BY <4>1, <3>2, <1>0 DEF KmsIsHonest
        <4>2. CASE d \notin kmsDone
          BY <4>2, <3>2, <2>0, <2>3 DEF KmsCallInv
        <4> QED
          BY <4>1, <4>2
      <3> QED
        BY <3>1, <3>2, <2>1, <1>0 DEF KmsIsHonest
    <2>5. \E ids \in SUBSET Nat : (\A i \in ids : i <= kmsIds) /\ keyIds' = [keyIds EXCEPT ![ReplicaOf[c]] = ids]
      BY <2>1
    <2> QED
      BY <2>1, <2>2, <2>4, <2>5, <1>3, OwnStep
  <1>12. ASSUME NEW c \in KmsCallers, LosesRequest(c) PROVE KmsInv'
    <2> DEFINE call == kmsCall[c]
    <2>1. PICK key \in {kmsKey} \cup (IF call.at = "use" THEN {ServedKey(c)} ELSE {}) :
            /\ Becomes(key)
            /\ kmsCall' = [KmsTold(key) EXCEPT ![c] = IF call.op = "shred" /\ call.at = "use" THEN [@ EXCEPT !.at = "lost"] ELSE KmsResting]
      BY <1>12 DEF LosesRequest
    <2>2. UNCHANGED <<keyIds, kmsDone, blobs>>
      BY <1>12 DEF LosesRequest
    <2>3. KeyMoves(key) /\ call \in KmsRecords
      BY <2>1, <1>0, <1>2, ServedMoves
    <2> DEFINE told == KmsTold(key)[c]
               rec == IF call.op = "shred" /\ call.at = "use" THEN [told EXCEPT !.at = "lost"] ELSE KmsResting
    <2>4. kmsCall' = [KmsTold(key) EXCEPT ![c] = rec]
      BY <2>1 DEF KmsTold
    <2>5. told \in KmsRecords /\ KmsKnown(told, kmsIds)
      BY <2>3, ToldKeeps
    <2>6. kmsIds' \in Nat /\ kmsIds <= kmsIds'
      BY <2>1, <2>3, <1>0, KeyIsKnown
    <2>7. CASE ~(call.op = "shred" /\ call.at = "use")
      <3>1. rec = KmsResting
        BY <2>7
      <3>2. KmsResting \in KmsRecords /\ KmsKnown(KmsResting, kmsIds') /\ KmsCallInv(KmsResting, key)
        BY RestingFacts
      <3> HIDE DEF rec
      <3> QED
        BY <3>1, <3>2, <2>1, <2>2, <2>3, <2>4, KeyStep
    <2>8. CASE call.op = "shred" /\ call.at = "use"
      <3>0. told.op = "shred"
        <4>1. told = [call EXCEPT !.met = @ \cup (IF key = kmsKey THEN {} ELSE IF key = {} THEN {"deleted"} ELSE {"rotated"})]
          BY <2>8 DEF KmsTold
        <4> HIDE DEF told, call
        <4> QED
          BY <4>1, <2>3, <2>8 DEF KmsRecords
      <3>1. rec = [told EXCEPT !.at = "lost"]
        BY <2>8
      <3> HIDE DEF told, rec
      <3>2. rec \in KmsRecords /\ rec.at = "lost" /\ rec.op = "shred" /\ rec.got = told.got /\ rec.began = told.began
        BY <3>0, <3>1, <2>5 DEF KmsRecords
      <3>3. KmsKnown(rec, kmsIds')
        <4>1. (\A i \in rec.began : i \in Nat /\ i <= kmsIds) /\ (\A k \in rec.got : k.id \in Nat /\ k.id <= kmsIds)
          BY <2>5, <3>2 DEF KmsRecords, KmsKeys, KmsKnown
        <4> QED
          BY <4>1, <2>6, <1>1 DEF KmsKnown
      <3>4. KmsCallInv(rec, key)
        BY <3>2 DEF KmsCallInv
      <3> QED
        BY <3>2, <3>3, <3>4, <2>1, <2>2, <2>3, <2>4, KeyStep
    <2> QED
      BY <2>7, <2>8
  <1>13. ASSUME UNCHANGED kmsVars PROVE KmsInv'
    BY <1>13 DEF kmsVars, KmsInv, KmsTypeInv, KmsIdInv, KmsIsHonest
  <1> QED
    BY <1>4, <1>5, <1>6, <1>7, <1>8, <1>9, <1>10, <1>11, <1>12, <1>13 DEF KmsNext

\* Whatever the calls of any number of replicas do to one key and whichever requests are
\* lost, a provision fails for want of a key only when a shred took it, a shred that looked
\* its key up leaves none that was there before it, and a wrapped key says its version
\* unless a rotation came in between.
THEOREM KmsStaysHonest ==
  KmsSpec => []KmsIsHonest
  <1>1. KmsInit => KmsInv
    BY KmsStarts
  <1>2. KmsInv /\ [KmsNext]_kmsVars => KmsInv'
    BY KmsStep
  <1>3. KmsInv => KmsIsHonest
    BY DEF KmsInv
  <1> QED
    BY <1>1, <1>2, <1>3, PTL DEF KmsSpec

-----------------------------------------------------------------------------
\* What is signed, and what binds a sealed value to its context.

\* A text is a sequence of bytes, whatever a byte is.
Text == Seq(Nat)
TextSeqs == Seq(Text)

\* out is the loop of FlattenSeq on fs, at the place i.
Joins(out, fs, i) == out[i] = IF i = 1 THEN fs[i] ELSE out[i - 1] \o fs[i]

LEMMA FlattenLoop ==
  ASSUME NEW fs \in TextSeqs, Len(fs) > 0
  PROVE  \E out \in [1..Len(fs) -> Text] : FlattenSeq(fs) = out[Len(fs)] /\ \A i \in 1..Len(fs) : Joins(out, fs, i)
  <1> DEFINE N == Len(fs)
             D == 1..N
             Good(out, k) == out \in [D -> Text] /\ \A i \in D : i <= k => Joins(out, fs, i)
             S == {k \in Nat : \E out : Good(out, k)}
  <1>0. N \in Nat /\ fs \in [D -> Text]
    BY DEF TextSeqs
  <1>1. 0 \in S
    <2>1. [i \in D |-> fs[i]] \in [D -> Text]
      BY <1>0
    <2>2. Good([i \in D |-> fs[i]], 0)
      BY <2>1
    <2> QED
      BY <2>2
  <1>2. ASSUME NEW k \in Nat, k \in S PROVE k + 1 \in S
    <2>1. PICK out : Good(out, k)
      BY <1>2
    <2>2. CASE k + 1 > N
      <3>1. Good(out, k + 1)
        BY <2>1, <2>2, <1>0
      <3> QED
        BY <3>1
    <2>3. CASE k + 1 <= N
      <3> DEFINE one == IF k + 1 = 1 THEN fs[k + 1] ELSE out[k] \o fs[k + 1]
                 more == [out EXCEPT ![k + 1] = one]
      <3>0. k + 1 \in D /\ fs[k + 1] \in Text /\ (k + 1 # 1 => k \in D /\ out[k] \in Text)
        BY <2>1, <2>3, <1>0
      <3>1. one \in Text
        BY <3>0 DEF Text
      <3> HIDE DEF one
      <3>2. more \in [D -> Text]
        BY <2>1, <3>0, <3>1
      <3>3. ASSUME NEW i \in D, i <= k + 1 PROVE Joins(more, fs, i)
        <4>1. CASE i = k + 1
          <5>1. more[i] = one /\ i - 1 = k
            BY <2>1, <3>0, <4>1
          <5>2. i # 1 => more[i - 1] = out[k]
            BY <2>1, <3>0, <4>1
          <5> QED
            BY <5>1, <5>2, <4>1 DEF Joins, one
        <4>2. CASE i # k + 1
          <5>1. more[i] = out[i] /\ (i # 1 => more[i - 1] = out[i - 1])
            BY <2>1, <3>0, <4>2, <3>3, <1>0
          <5>2. Joins(out, fs, i)
            BY <2>1, <4>2, <3>3, <1>0
          <5> QED
            BY <5>1, <5>2 DEF Joins
        <4> QED
          BY <4>1, <4>2
      <3> HIDE DEF more
      <3>4. Good(more, k + 1)
        BY <3>2, <3>3
      <3> QED
        BY <3>4
    <2> QED
      BY <2>2, <2>3, <1>0
  <1>3. N \in S
    <2> HIDE DEF S, N
    <2> QED
      BY <1>0, <1>1, <1>2, SetInduction
  <1>4. PICK out : out \in [D -> Text] /\ \A i \in D : Joins(out, fs, i)
    BY <1>3, <1>0
  <1>5. \E f : f = [i \in D |-> IF i = 1 THEN fs[i] ELSE f[i - 1] \o fs[i]]
    <2>1. out = [i \in D |-> IF i = 1 THEN fs[i] ELSE out[i - 1] \o fs[i]]
      BY <1>4 DEF Joins
    <2> QED
      BY <2>1
  <1> DEFINE R == CHOOSE f : f = [i \in D |-> IF i = 1 THEN fs[i] ELSE f[i - 1] \o fs[i]]
  <1>6. R = [i \in D |-> IF i = 1 THEN fs[i] ELSE R[i - 1] \o fs[i]]
    BY <1>5, Zenon
  <1>7. FlattenSeq(fs) = R[N]
    BY <1>0 DEF FlattenSeq
  <1> HIDE DEF R
  <1>8. \A i \in D : Joins(R, fs, i)
    BY <1>6 DEF Joins
  <1> DEFINE T == {k \in Nat : k \in D => R[k] \in Text}
  <1>9. \A k \in Nat : k \in T
    <2>1. 0 \in T
      OBVIOUS
    <2>2. ASSUME NEW k \in Nat, k \in T PROVE k + 1 \in T
      <3> SUFFICES ASSUME k + 1 \in D PROVE R[k + 1] \in Text
        OBVIOUS
      <3>1. fs[k + 1] \in Text /\ (k + 1 # 1 => k \in D /\ R[k] \in Text) /\ (k + 1) - 1 = k
        BY <1>0, <2>2
      <3>2. R[k + 1] = IF k + 1 = 1 THEN fs[k + 1] ELSE R[k] \o fs[k + 1]
        BY <1>8, <3>1 DEF Joins
      <3>3. k + 1 # 1 => R[k] \o fs[k + 1] \in Text
        BY <3>1 DEF Text
      <3> QED
        BY <3>1, <3>2, <3>3
    <2> HIDE DEF T
    <2> QED
      BY <2>1, <2>2, SetInduction
  <1>10. \A k \in D : R[k] \in Text
    BY <1>9
  <1>11. R \in [D -> Text]
    BY <1>6, <1>10
  <1> QED
    BY <1>7, <1>8, <1>11

\* The frame of a field, and where the frames of fs end in the text t: e[i] is the end
\* of the i-th.
FrameOf(f) == <<Len(f)>> \o f
FrameAt(e, t, f, i) ==
  /\ e[i] = e[i - 1] + 1 + Len(f) /\ e[i] <= Len(t)
  /\ t[e[i - 1] + 1] = Len(f)
  /\ \A q \in 1..Len(f) : t[e[i - 1] + 1 + q] = f[q]
FrameEnds(e, t, fs) ==
  /\ e \in [0..Len(fs) -> Nat] /\ e[0] = 0 /\ e[Len(fs)] = Len(t)
  /\ \A i \in 1..Len(fs) : FrameAt(e, t, fs[i], i)

\* s begins t.
Begins2(s, t) == Len(s) <= Len(t) /\ \A q \in 1..Len(s) : t[q] = s[q]

LEMMA FrameFacts ==
  ASSUME NEW f \in Text
  PROVE  FrameOf(f) \in Text /\ Len(FrameOf(f)) = 1 + Len(f) /\ FrameOf(f)[1] = Len(f)
         /\ \A q \in 1..Len(f) : FrameOf(f)[1 + q] = f[q]
  <1>1. <<Len(f)>> \in Seq(Nat) /\ f \in Seq(Nat) /\ Len(f) \in Nat
    BY DEF Text
  <1>2. FrameOf(f) \in Seq(Nat) /\ Len(FrameOf(f)) = 1 + Len(f)
    BY <1>1 DEF FrameOf
  <1> QED
    BY <1>1, <1>2 DEF FrameOf, Text

\* What is joined begins with what was joined before, and ends with the field.
LEMMA JoinFacts ==
  ASSUME NEW a \in Text, NEW b \in Text
  PROVE  /\ a \o b \in Text /\ Len(a \o b) = Len(a) + Len(b) /\ Begins2(a, a \o b)
         /\ \A q \in 1..Len(b) : (a \o b)[Len(a) + q] = b[q]
  <1>1. a \o b \in Text /\ Len(a \o b) = Len(a) + Len(b) /\ Len(a) \in Nat /\ Len(b) \in Nat
    BY DEF Text
  <1>2. \A q \in 1..Len(a) : (a \o b)[q] = a[q]
    BY <1>1 DEF Text
  <1>3. ASSUME NEW q \in 1..Len(b) PROVE (a \o b)[Len(a) + q] = b[q]
    BY <1>1 DEF Text
  <1> QED
    BY <1>1, <1>2, <1>3 DEF Begins2

LEMMA BeginsTrans ==
  ASSUME NEW a \in Text, NEW b \in Text, NEW c \in Text, Begins2(a, b), Begins2(b, c)
  PROVE  Begins2(a, c)
  <1>1. Len(a) \in Nat /\ Len(b) \in Nat /\ Len(c) \in Nat
    BY DEF Text
  <1> QED
    BY <1>1 DEF Begins2

\* Every frame is in its place in the whole.
LEMMA FramesInPlace ==
  ASSUME NEW fs \in TextSeqs, Len(fs) > 0
  PROVE  FramesOf(fs) \in Text /\ \E e : FrameEnds(e, FramesOf(fs), fs)
  <1> DEFINE N == Len(fs)
             D == 1..N
             gs == [i \in D |-> FrameOf(fs[i])]
             t == FramesOf(fs)
  <1>0. N \in Nat /\ N > 0 /\ fs \in [D -> Text] /\ DOMAIN fs = D
    BY DEF TextSeqs
  <1>13. N \in Nat /\ N > 0
    BY <1>0
  <1>1. gs \in TextSeqs /\ Len(gs) = N
    <2>1. gs \in [D -> Text]
      BY <1>0, FrameFacts
    <2> HIDE DEF gs
    <2> QED
      BY <2>1, <1>0 DEF TextSeqs
  <1>2. t = FlattenSeq(gs)
    BY <1>0 DEF FramesOf, FrameOf
  <1> HIDE DEF gs, t
  <1>3. PICK out \in [1..Len(gs) -> Text] : FlattenSeq(gs) = out[Len(gs)] /\ \A i \in 1..Len(gs) : Joins(out, gs, i)
    BY <1>0, <1>1, FlattenLoop
  <1>4. out \in [D -> Text] /\ t = out[N] /\ \A i \in D : Joins(out, gs, i)
    BY <1>1, <1>2, <1>3
  <1>5. ASSUME NEW i \in D PROVE gs[i] = FrameOf(fs[i])
    BY DEF gs
  <1>6. ASSUME NEW i \in D, i # 1
        PROVE  i - 1 \in D /\ out[i] = out[i - 1] \o FrameOf(fs[i])
    <2>1. i - 1 \in D
      BY <1>13, <1>6
    <2>2. out[i] = out[i - 1] \o gs[i]
      BY <1>4, <1>6 DEF Joins
    <2> QED
      BY <2>1, <2>2, <1>5
  <1>7. out[1] = FrameOf(fs[1])
    BY <1>0, <1>4, <1>5 DEF Joins
  <1> DEFINE P == {n \in Nat : \A k \in D : N - n <= k => Begins2(out[k], t)}
  <1>8. \A n \in Nat : n \in P
    <2>1. 0 \in P
      <3>1. ASSUME NEW k \in D, N - 0 <= k PROVE Begins2(out[k], t)
        <4>0. k = N
          BY <3>1, <1>13
        <4>1. k = N /\ Len(t) \in Nat
          BY <4>0, <1>4 DEF Text
        <4> QED
          BY <4>1, <1>4 DEF Begins2
      <3> QED
        BY <3>1
    <2>2. ASSUME NEW n \in Nat, n \in P PROVE n + 1 \in P
      <3>1. ASSUME NEW k \in D, N - (n + 1) <= k PROVE Begins2(out[k], t)
        <4>1. CASE N - n <= k
          BY <4>1, <2>2
        <4>2. CASE ~(N - n <= k)
          <5>1. k = N - (n + 1)
            BY <3>1, <4>2, <1>13
          <5>2. CASE k = N
            BY <5>1, <5>2, <1>13
          <5>3. CASE k # N
            <6>1. k + 1 \in D /\ k + 1 # 1 /\ N - n <= k + 1 /\ (k + 1) - 1 = k
              BY <5>1, <5>3, <1>13
            <6>2. Begins2(out[k + 1], t)
              BY <6>1, <2>2
            <6>3. out[k + 1] = out[k] \o FrameOf(fs[k + 1])
              BY <6>1, <1>6
            <6>4. FrameOf(fs[k + 1]) \in Text /\ out[k] \in Text /\ out[k + 1] \in Text /\ t \in Text
              BY <6>1, <1>0, <1>4, FrameFacts
            <6>5. Begins2(out[k], out[k + 1])
              BY <6>3, <6>4, JoinFacts
            <6> QED
              BY <6>2, <6>4, <6>5, BeginsTrans
          <5> QED
            BY <5>2, <5>3
        <4> QED
          BY <4>1, <4>2
      <3> QED
        BY <3>1
    <2> HIDE DEF P
    <2> QED
      BY <2>1, <2>2, SetInduction
  <1>9. ASSUME NEW k \in D PROVE Begins2(out[k], t)
    <2>1. N \in P /\ N - N <= k
      <3>1. N \in P
        BY <1>13, <1>8
      <3>2. N - N <= k
        BY <1>13
      <3> QED
        BY <3>1, <3>2
    <2> QED
      BY <2>1
  <1> DEFINE e == [k \in 0..N |-> IF k = 0 THEN 0 ELSE Len(out[k])]
  <1>10. e \in [0..N -> Nat] /\ e[0] = 0 /\ e[N] = Len(t) /\ t \in Text
    <2>1. ASSUME NEW k \in 0..N, k # 0 PROVE Len(out[k]) \in Nat
      BY <2>1, <1>0, <1>4 DEF Text
    <2> QED
      BY <2>1, <1>0, <1>4
  <1>11. ASSUME NEW i \in D PROVE FrameAt(e, t, fs[i], i)
    <2> DEFINE f == fs[i]
               p == e[i - 1]
    <2>0. f \in Text /\ Len(f) \in Nat /\ i \in 0..N /\ i - 1 \in 0..N /\ i # 0
      BY <1>0 DEF Text
    <2>1. p \in Nat /\ e[i] = Len(out[i])
      BY <2>0, <1>10
    <2>2. FrameOf(f) \in Text /\ Len(FrameOf(f)) = 1 + Len(f) /\ FrameOf(f)[1] = Len(f)
          /\ \A q \in 1..Len(f) : FrameOf(f)[1 + q] = f[q]
      BY <2>0, FrameFacts
    <2> HIDE DEF f, p, e
    <2>3. Len(out[i]) = p + (1 + Len(f)) /\ \A q \in 1..1 + Len(f) : out[i][p + q] = FrameOf(f)[q]
      <3>1. CASE i = 1
        <4>1. p = 0 /\ out[i] = FrameOf(f)
          BY <3>1, <1>7, <1>10 DEF f, p
        <4>2. ASSUME NEW q \in 1..1 + Len(f) PROVE out[i][p + q] = FrameOf(f)[q]
          <5>1. p + q = q
            BY <4>1, <2>0
          <5> QED
            BY <4>1, <5>1
        <4>3. Len(out[i]) = p + (1 + Len(f))
          BY <4>1, <2>2, <2>0
        <4> QED
          BY <4>2, <4>3
      <3>2. CASE i # 1
        <4>1. i - 1 \in D /\ out[i] = out[i - 1] \o FrameOf(f)
          BY <3>2, <1>6 DEF f
        <4>2. out[i - 1] \in Text /\ p = Len(out[i - 1])
          BY <4>1, <1>4, <1>0 DEF p, e
        <4> DEFINE a == out[i - 1]
                   b == FrameOf(f)
        <4>3. /\ Len(a \o b) = Len(a) + Len(b)
              /\ \A q \in 1..Len(b) : (a \o b)[Len(a) + q] = b[q]
          BY <4>2, <2>2, JoinFacts
        <4> QED
          BY <4>1, <4>2, <4>3, <2>2
      <3> QED
        BY <3>1, <3>2
    <2>4. Len(out[i]) <= Len(t) /\ \A q \in 1..Len(out[i]) : t[q] = out[i][q]
      BY <1>9 DEF Begins2
    <2>5. \A q \in 1..1 + Len(f) : t[p + q] = FrameOf(f)[q]
      BY <2>0, <2>1, <2>3, <2>4
    <2>6. t[p + 1] = Len(f)
      BY <2>0, <2>2, <2>5
    <2>7. ASSUME NEW q \in 1..Len(f) PROVE t[p + 1 + q] = f[q]
      <3>1. 1 + q \in 1..1 + Len(f) /\ p + (1 + q) = p + 1 + q
        BY <2>0, <2>1
      <3> QED
        BY <3>1, <2>2, <2>5
    <2>8. e[i] = p + 1 + Len(f) /\ e[i] <= Len(t)
      BY <2>0, <2>1, <2>3, <2>4
    <2> QED
      BY <2>6, <2>7, <2>8 DEF FrameAt, f, p
  <1> HIDE DEF e
  <1>12. FrameEnds(e, t, fs)
    BY <1>10, <1>11 DEF FrameEnds
  <1> QED
    BY <1>10, <1>12 DEF t

\* One text is the frames of one sequence of fields: a length says where the next begins.
LEMMA OneParse ==
  ASSUME NEW t \in Text, NEW fs \in TextSeqs, NEW gs \in TextSeqs, NEW d, NEW e,
         FrameEnds(d, t, fs), FrameEnds(e, t, gs)
  PROVE  \A i \in 1..Len(fs) : i <= Len(gs) => fs[i] = gs[i] /\ d[i] = e[i]
  <1> DEFINE P == {k \in Nat : k <= Len(fs) /\ k <= Len(gs) => d[k] = e[k] /\ (k > 0 => fs[k] = gs[k])}
  <1>0. Len(fs) \in Nat /\ Len(gs) \in Nat /\ Len(t) \in Nat
    BY DEF Text, TextSeqs
  <1>1. 0 \in P
    BY DEF FrameEnds
  <1>2. ASSUME NEW k \in Nat, k \in P PROVE k + 1 \in P
    <2> SUFFICES ASSUME k + 1 <= Len(fs), k + 1 <= Len(gs) PROVE d[k + 1] = e[k + 1] /\ fs[k + 1] = gs[k + 1]
      OBVIOUS
    <2> DEFINE f == fs[k + 1]
               g == gs[k + 1]
               p == d[k]
    <2>1. k + 1 \in 1..Len(fs) /\ k + 1 \in 1..Len(gs) /\ (k + 1) - 1 = k /\ k \in 0..Len(fs)
      BY <1>0
    <2>2. f \in Text /\ g \in Text /\ d[k] = e[k] /\ d[k] \in Nat
      BY <1>0, <1>2, <2>1 DEF TextSeqs, FrameEnds
    <2>3. FrameAt(d, t, f, k + 1) /\ FrameAt(e, t, g, k + 1)
      BY <2>1 DEF FrameEnds
    <2> HIDE DEF f, g, p
    <2>4. /\ d[k + 1] = p + 1 + Len(f) /\ e[k + 1] = p + 1 + Len(g)
          /\ t[p + 1] = Len(f) /\ t[p + 1] = Len(g)
          /\ \A q \in 1..Len(f) : t[p + 1 + q] = f[q]
          /\ \A q \in 1..Len(g) : t[p + 1 + q] = g[q]
      BY <2>1, <2>2, <2>3 DEF FrameAt, p
    <2>5. Len(f) = Len(g)
      BY <2>4
    <2>6. \A q \in 1..Len(f) : f[q] = g[q]
      BY <2>4, <2>5
    <2>7. f = g
      BY <2>2, <2>5, <2>6, SeqEqual DEF Text
    <2> QED
      BY <2>4, <2>5, <2>7 DEF f, g
  <1>3. \A k \in Nat : k \in P
    <2> HIDE DEF P
    <2> QED
      BY <1>1, <1>2, SetInduction
  <1> QED
    BY <1>0, <1>3

\* Nothing follows the last frame.
LEMMA NoShorterParse ==
  ASSUME NEW t \in Text, NEW fs \in TextSeqs, NEW gs \in TextSeqs, NEW d, NEW e, Len(fs) > 0,
         FrameEnds(d, t, fs), FrameEnds(e, t, gs)
  PROVE  Len(gs) <= Len(fs)
  <1>0. Len(fs) \in Nat /\ Len(gs) \in Nat /\ Len(t) \in Nat
    BY DEF Text, TextSeqs
  <1> SUFFICES ASSUME Len(gs) > Len(fs) PROVE FALSE
    BY <1>0
  <1> DEFINE n == Len(fs)
             g == gs[n + 1]
  <1>1. n \in 1..Len(fs) /\ n <= Len(gs) /\ n + 1 \in 1..Len(gs) /\ (n + 1) - 1 = n /\ n \in 0..Len(gs)
    BY <1>0
  <1>2. d[n] = e[n] /\ d[n] = Len(t)
    <2>1. \A i \in 1..Len(fs) : i <= Len(gs) => fs[i] = gs[i] /\ d[i] = e[i]
      BY OneParse
    <2>2. d[n] = Len(t)
      BY DEF FrameEnds
    <2> QED
      BY <2>1, <2>2, <1>1
  <1>3. g \in Text /\ FrameAt(e, t, g, n + 1)
    BY <1>1 DEF TextSeqs, FrameEnds
  <1>4. e[n + 1] = e[n] + 1 + Len(g) /\ e[n + 1] <= Len(t)
    BY <1>1, <1>3 DEF FrameAt
  <1>5. Len(g) \in Nat
    BY <1>3 DEF Text
  <1>6. e[n] \in Nat
    BY <1>0, <1>2
  <1>7. e[n + 1] > e[n] /\ e[n + 1] \in Nat
    <2> HIDE DEF n, g
    <2> QED
      BY <1>4, <1>5, <1>6
  <1> HIDE DEF n, g
  <1> QED
    <2>1. e[n + 1] <= e[n]
      BY <1>2, <1>4
    <2> QED
      BY <1>6, <1>7, <2>1

\* associated_data says which fields it was made of.
LEMMA FramesAreFaithful ==
  ASSUME NEW fs \in TextSeqs, NEW gs \in TextSeqs, Len(fs) > 0, Len(gs) > 0, FramesOf(fs) = FramesOf(gs)
  PROVE  fs = gs
  <1>1. FramesOf(fs) \in Text
    BY FramesInPlace
  <1>2. PICK d : FrameEnds(d, FramesOf(fs), fs)
    BY FramesInPlace
  <1>3. PICK e : FrameEnds(e, FramesOf(fs), gs)
    BY FramesInPlace
  <1>4. Len(fs) = Len(gs)
    <2>1. Len(gs) <= Len(fs) /\ Len(fs) <= Len(gs)
      BY <1>1, <1>2, <1>3, NoShorterParse
    <2>2. Len(fs) \in Nat /\ Len(gs) \in Nat
      BY DEF TextSeqs
    <2> QED
      BY <2>1, <2>2
  <1>5. \A i \in 1..Len(fs) : fs[i] = gs[i]
    <2>1. \A i \in 1..Len(fs) : i <= Len(gs) => fs[i] = gs[i]
      BY <1>1, <1>2, <1>3, OneParse
    <2>2. \A i \in 1..Len(fs) : i <= Len(gs)
      BY <1>4 DEF TextSeqs
    <2> QED
      BY <2>1, <2>2
  <1> QED
    BY <1>4, <1>5, SeqEqual DEF TextSeqs

-----------------------------------------------------------------------------
\* The requests of a node and of a package proxy, whatever is in their fields.
NodeAsks ==
  [family : {"node"}, token : Text, job : Text, nonce : Text, issued : Text, key : Text, requested : TextSeqs]
ProxyAsks ==
  [family : {"proxy"}, token : Text, tenant : Text, job : Text, nonce : Text, issued : Text, key : Text]

FieldsOf(q) ==
  IF q.family = "node" THEN <<DomainNode>> \o (<<q.token, q.job, q.nonce, q.issued, q.key>> \o q.requested)
  ELSE <<DomainProxy>> \o <<q.token, q.tenant, q.job, q.nonce, q.issued, q.key>>

\* Where the members of two sequences are in the one they are joined to.
IsJoined(c, a, b, S) ==
  /\ c \in Seq(S) /\ Len(c) = Len(a) + Len(b)
  /\ \A q \in 1..Len(a) : c[q] = a[q]
  /\ \A q \in 1..Len(b) : c[Len(a) + q] = b[q]

LEMMA Joined ==
  ASSUME NEW S, NEW a \in Seq(S), NEW b \in Seq(S)
  PROVE  IsJoined(a \o b, a, b, S)
  <1>1. a \o b \in Seq(S) /\ Len(a \o b) = Len(a) + Len(b) /\ Len(a) \in Nat /\ Len(b) \in Nat
    OBVIOUS
  <1>2. \A q \in 1..Len(a) : (a \o b)[q] = a[q]
    BY <1>1
  <1>3. ASSUME NEW q \in 1..Len(b) PROVE (a \o b)[Len(a) + q] = b[q]
    BY <1>1
  <1> QED
    BY <1>1, <1>2, <1>3 DEF IsJoined

LEMMA NodeFields ==
  ASSUME NEW q \in NodeAsks
  PROVE  /\ FieldsOf(q) \in TextSeqs /\ Len(FieldsOf(q)) = 6 + Len(q.requested) /\ Len(q.requested) \in Nat
         /\ FieldsOf(q)[1] = DomainNode /\ FieldsOf(q)[2] = q.token /\ FieldsOf(q)[3] = q.job
         /\ FieldsOf(q)[4] = q.nonce /\ FieldsOf(q)[5] = q.issued /\ FieldsOf(q)[6] = q.key
         /\ \A i \in 1..Len(q.requested) : FieldsOf(q)[6 + i] = q.requested[i]
  <1> DEFINE a == <<DomainNode>>
             b == <<q.token, q.job, q.nonce, q.issued, q.key>>
             r == q.requested
             n == Len(r)
  <1>1. DomainNode \in Text
    BY DEF DomainNode, Text
  <1>2. a \in Seq(Text) /\ b \in Seq(Text) /\ r \in Seq(Text) /\ n \in Nat
    BY <1>1 DEF NodeAsks, TextSeqs
  <1>3. Len(a) = 1 /\ Len(b) = 5 /\ a[1] = DomainNode
    OBVIOUS
  <1>4. FieldsOf(q) = a \o (b \o r)
    BY DEF FieldsOf, NodeAsks
  <1>5. b[1] = q.token /\ b[2] = q.job /\ b[3] = q.nonce /\ b[4] = q.issued /\ b[5] = q.key
    OBVIOUS
  <1> HIDE DEF a, b, r, n
  <1> DEFINE c == b \o r
  <1>6. /\ c \in Seq(Text) /\ Len(c) = 5 + n
        /\ \A i \in 1..5 : c[i] = b[i]
        /\ \A i \in 1..n : c[5 + i] = r[i]
    <2>1. IsJoined(c, b, r, Text)
      BY <1>2, Joined
    <2> HIDE DEF c
    <2> QED
      BY <1>3, <2>1 DEF n, IsJoined
  <1> HIDE DEF c
  <1>7. /\ a \o c \in Seq(Text) /\ Len(a \o c) = 1 + Len(c)
        /\ \A i \in 1..1 : (a \o c)[i] = a[i]
        /\ \A i \in 1..Len(c) : (a \o c)[1 + i] = c[i]
    <2>1. IsJoined(a \o c, a, c, Text)
      BY <1>2, <1>6, Joined
    <2> DEFINE d == a \o c
    <2> HIDE DEF d
    <2>2. IsJoined(d, a, c, Text)
      BY <2>1 DEF d
    <2>3. /\ d \in Seq(Text) /\ Len(d) = 1 + Len(c)
          /\ \A i \in 1..1 : d[i] = a[i]
          /\ \A i \in 1..Len(c) : d[1 + i] = c[i]
      BY <1>3, <2>2 DEF IsJoined
    <2> QED
      BY <2>3, Zenon DEF d
  <1>8. ASSUME NEW i \in 1..5 PROVE (a \o c)[1 + i] = b[i]
    <2>1. i \in 1..Len(c)
      BY <1>2, <1>6
    <2> QED
      BY <2>1, <1>6, <1>7
  <1>9. ASSUME NEW i \in 1..n PROVE (a \o c)[6 + i] = r[i]
    <2>1. 5 + i \in 1..Len(c) /\ 1 + (5 + i) = 6 + i
      BY <1>2, <1>6
    <2>2. (a \o c)[1 + (5 + i)] = c[5 + i]
      BY <2>1, <1>7
    <2> QED
      BY <2>1, <2>2, <1>6
  <1>10. (a \o c)[1] = DomainNode
    BY <1>3, <1>7
  <1>11. (a \o c)[2] = b[1] /\ (a \o c)[3] = b[2] /\ (a \o c)[4] = b[3] /\ (a \o c)[5] = b[4] /\ (a \o c)[6] = b[5]
    <2>1. 1 + 1 = 2 /\ 1 + 2 = 3 /\ 1 + 3 = 4 /\ 1 + 4 = 5 /\ 1 + 5 = 6
      OBVIOUS
    <2>2. (a \o c)[1 + 1] = b[1] /\ (a \o c)[1 + 2] = b[2] /\ (a \o c)[1 + 3] = b[3] /\ (a \o c)[1 + 4] = b[4] /\ (a \o c)[1 + 5] = b[5]
      <3>1. 1 \in 1..5 /\ 2 \in 1..5 /\ 3 \in 1..5 /\ 4 \in 1..5 /\ 5 \in 1..5
        OBVIOUS
      <3> QED
        BY <1>8, <3>1, Zenon
    <2> QED
      BY <2>1, <2>2
  <1>12. FieldsOf(q) = a \o c
    BY <1>4 DEF c
  <1>13. FieldsOf(q) \in TextSeqs /\ Len(FieldsOf(q)) = 6 + n
    BY <1>2, <1>6, <1>7, <1>12 DEF TextSeqs
  <1>14. \A i \in 1..n : FieldsOf(q)[6 + i] = r[i]
    BY <1>9, <1>12
  <1> QED
    BY <1>2, <1>5, <1>10, <1>11, <1>12, <1>13, <1>14 DEF r, n

LEMMA ProxyFields ==
  ASSUME NEW q \in ProxyAsks
  PROVE  /\ FieldsOf(q) \in TextSeqs /\ Len(FieldsOf(q)) = 7
         /\ FieldsOf(q)[1] = DomainProxy /\ FieldsOf(q)[2] = q.token /\ FieldsOf(q)[3] = q.tenant /\ FieldsOf(q)[4] = q.job
         /\ FieldsOf(q)[5] = q.nonce /\ FieldsOf(q)[6] = q.issued /\ FieldsOf(q)[7] = q.key
  <1> DEFINE a == <<DomainProxy>>
             b == <<q.token, q.tenant, q.job, q.nonce, q.issued, q.key>>
  <1>1. DomainProxy \in Text
    BY DEF DomainProxy, Text
  <1>2. a \in Seq(Text) /\ b \in Seq(Text)
    BY <1>1 DEF ProxyAsks
  <1>3. Len(a) = 1 /\ Len(b) = 6 /\ a[1] = DomainProxy
    OBVIOUS
  <1>4. FieldsOf(q) = a \o b
    BY DEF FieldsOf, ProxyAsks
  <1>5. b[1] = q.token /\ b[2] = q.tenant /\ b[3] = q.job /\ b[4] = q.nonce /\ b[5] = q.issued /\ b[6] = q.key
    OBVIOUS
  <1> HIDE DEF a, b
  <1>6. /\ a \o b \in Seq(Text) /\ Len(a \o b) = 7
        /\ \A i \in 1..1 : (a \o b)[i] = a[i]
        /\ \A i \in 1..6 : (a \o b)[1 + i] = b[i]
    <2>1. IsJoined(a \o b, a, b, Text)
      BY <1>2, Joined
    <2> DEFINE d == a \o b
    <2> HIDE DEF d
    <2>2. IsJoined(d, a, b, Text)
      BY <2>1 DEF d
    <2>3. /\ d \in Seq(Text) /\ Len(d) = 7
          /\ \A i \in 1..1 : d[i] = a[i]
          /\ \A i \in 1..6 : d[1 + i] = b[i]
      BY <1>3, <2>2 DEF IsJoined
    <2> QED
      BY <2>3, Zenon DEF d
  <1>8. (a \o b)[2] = b[1] /\ (a \o b)[3] = b[2] /\ (a \o b)[4] = b[3] /\ (a \o b)[5] = b[4] /\ (a \o b)[6] = b[5] /\ (a \o b)[7] = b[6]
    <2>1. 1 + 1 = 2 /\ 1 + 2 = 3 /\ 1 + 3 = 4 /\ 1 + 4 = 5 /\ 1 + 5 = 6 /\ 1 + 6 = 7
      OBVIOUS
    <2>2. /\ (a \o b)[1 + 1] = b[1] /\ (a \o b)[1 + 2] = b[2] /\ (a \o b)[1 + 3] = b[3]
          /\ (a \o b)[1 + 4] = b[4] /\ (a \o b)[1 + 5] = b[5] /\ (a \o b)[1 + 6] = b[6]
      <3>1. 1 \in 1..6 /\ 2 \in 1..6 /\ 3 \in 1..6 /\ 4 \in 1..6 /\ 5 \in 1..6 /\ 6 \in 1..6
        OBVIOUS
      <3> QED
        BY <1>6, <3>1, Zenon
    <2> QED
      BY <2>1, <2>2
  <1>9. (a \o b)[1] = DomainProxy
    BY <1>3, <1>6
  <1> QED
    BY <1>4, <1>5, <1>6, <1>8, <1>9 DEF TextSeqs

\* Two requests that are signed alike are one request.
LEMMA FieldsAreFaithful ==
  ASSUME NEW p \in NodeAsks \cup ProxyAsks, NEW q \in NodeAsks \cup ProxyAsks, FieldsOf(p) = FieldsOf(q)
  PROVE  p = q
  <1>1. DomainNode # DomainProxy
    <2>1. DomainNode[2] = 1 /\ DomainProxy[2] = 2
      BY DEF DomainNode, DomainProxy
    <2> QED
      BY <2>1
  <1>2. CASE p \in NodeAsks /\ q \in NodeAsks
    <2>1. p.token = q.token /\ p.job = q.job /\ p.nonce = q.nonce /\ p.issued = q.issued /\ p.key = q.key
      BY <1>2, NodeFields
    <2>2. Len(p.requested) = Len(q.requested)
      BY <1>2, NodeFields
    <2>3. ASSUME NEW i \in 1..Len(p.requested) PROVE p.requested[i] = q.requested[i]
      <3>1. FieldsOf(p)[6 + i] = p.requested[i]
        BY <1>2, NodeFields
      <3>2. FieldsOf(q)[6 + i] = q.requested[i]
        BY <1>2, <2>2, NodeFields
      <3> QED
        BY <3>1, <3>2
    <2>4. p.requested \in Seq(Text) /\ q.requested \in Seq(Text)
      BY <1>2 DEF NodeAsks, TextSeqs
    <2>5. p.requested = q.requested
      BY <2>2, <2>3, <2>4, SeqEqual
    <2> QED
      BY <1>2, <2>1, <2>5 DEF NodeAsks
  <1>3. CASE p \in ProxyAsks /\ q \in ProxyAsks
    <2>1. p.token = q.token /\ p.tenant = q.tenant /\ p.job = q.job /\ p.nonce = q.nonce /\ p.issued = q.issued /\ p.key = q.key
      BY <1>3, ProxyFields
    <2> QED
      BY <1>3, <2>1 DEF ProxyAsks
  <1>4. CASE p \in NodeAsks /\ q \in ProxyAsks
    BY <1>1, <1>4, NodeFields, ProxyFields
  <1>5. CASE p \in ProxyAsks /\ q \in NodeAsks
    BY <1>1, <1>5, NodeFields, ProxyFields
  <1> QED
    BY <1>2, <1>3, <1>4, <1>5

\* Whatever strings its fields hold, and whatever moved from one of them to another, a
\* signature of a node or of a package proxy verifies with the request it was made for
\* and with no other request of either family (associated_data, signing_payload and
\* proxy_signing_payload, verify_raw).
THEOREM SignaturesAreForOneRequest ==
  \A sent \in NodeAsks \cup ProxyAsks : SignedIsAsSent(sent, NodeAsks \cup ProxyAsks)
  <1> SUFFICES ASSUME NEW p \in NodeAsks \cup ProxyAsks, NEW q \in NodeAsks \cup ProxyAsks
               PROVE  VerifyRaw(q, Signs(p)) <=> q = p
    BY DEF SignedIsAsSent
  <1>1. ASSUME NEW x \in NodeAsks \cup ProxyAsks PROVE SigningPayload(x) = FramesOf(FieldsOf(x))
    BY DEF SigningPayload, AssociatedData, FieldsOf
  <1>2. ASSUME NEW x \in NodeAsks \cup ProxyAsks PROVE FieldsOf(x) \in TextSeqs /\ Len(FieldsOf(x)) > 0
    BY NodeFields, ProxyFields
  <1>3. SigningPayload(p) = SigningPayload(q) => p = q
    BY <1>1, <1>2, FramesAreFaithful, FieldsAreFaithful
  <1>4. VerifyRaw(q, Signs(p)) <=> p.key = q.key /\ SigningPayload(p) = SigningPayload(q)
    BY DEF VerifyRaw, Signs
  <1> QED
    BY <1>3, <1>4

-----------------------------------------------------------------------------
\* Sealed values.

\* The first field is what its length says, and the rest is the rest.
LEMMA TakeOne ==
  ASSUME NEW f \in Text, NEW r \in Text
  PROVE  FrameOf(f) \o r \in Text /\ TakeField(FrameOf(f) \o r) = {[field |-> f, rest |-> r]}
  <1> DEFINE g == FrameOf(f)
             b == g \o r
  <1>0. f \in Seq(Nat) /\ r \in Seq(Nat) /\ Len(f) \in Nat /\ Len(r) \in Nat
    BY DEF Text
  <1>1. g \in Seq(Nat) /\ Len(g) = 1 + Len(f) /\ g[1] = Len(f) /\ \A q \in 1..Len(f) : g[1 + q] = f[q]
    BY FrameFacts DEF Text
  <1> HIDE DEF g
  <1>2. IsJoined(b, g, r, Nat)
    BY <1>0, <1>1, Joined
  <1> HIDE DEF b
  <1>3. b \in Seq(Nat) /\ Len(b) = 1 + Len(f) + Len(r) /\ b[1] = Len(f)
    <2>1. 1 \in 1..Len(g)
      BY <1>0, <1>1
    <2> QED
      BY <1>1, <1>2, <2>1 DEF IsJoined
  <1>4. ASSUME NEW q \in 1..Len(f) PROVE b[1 + q] = f[q]
    <2>1. 1 + q \in 1..Len(g)
      BY <1>0, <1>1
    <2> QED
      BY <1>1, <1>2, <2>1 DEF IsJoined
  <1>5. ASSUME NEW q \in 1..Len(r) PROVE b[1 + Len(f) + q] = r[q]
    BY <1>1, <1>2 DEF IsJoined
  <1>6. SubSeq(b, 2, Len(f) + 1) = f
    <2> DEFINE s == SubSeq(b, 2, Len(f) + 1)
    <2>1. \A i \in 2..Len(f) + 1 : b[i] \in Nat
      BY <1>0, <1>3
    <2>2. /\ s \in Seq(Nat) /\ Len(s) = IF 2 <= Len(f) + 1 THEN Len(f) + 1 - 2 + 1 ELSE 0
          /\ \A i \in 1..Len(f) + 1 - 2 + 1 : s[i] = b[2 + i - 1]
      BY <1>0, <2>1, SubSeqProperties
    <2> HIDE DEF s
    <2>3. Len(s) = Len(f)
      BY <1>0, <2>2
    <2>4. ASSUME NEW i \in 1..Len(s) PROVE s[i] = f[i]
      <3>1. i \in 1..Len(f) /\ i \in 1..Len(f) + 1 - 2 + 1 /\ 2 + i - 1 = 1 + i
        BY <1>0, <2>3
      <3> QED
        BY <1>4, <2>2, <3>1
    <2>5. s = f
      BY <1>0, <2>2, <2>3, <2>4, SeqEqual
    <2> QED
      BY <2>5 DEF s
  <1>7. SubSeq(b, Len(f) + 2, Len(b)) = r
    <2> DEFINE m == Len(f) + 2
               n == Len(b)
               s == SubSeq(b, m, n)
    <2>0. m \in Int /\ n \in Int /\ n - m + 1 = Len(r) /\ (m <= n <=> Len(r) # 0)
      BY <1>0, <1>3
    <2>1. \A i \in m..n : b[i] \in Nat
      BY <1>0, <1>3
    <2>2. /\ s \in Seq(Nat) /\ Len(s) = IF m <= n THEN n - m + 1 ELSE 0
          /\ \A i \in 1..n - m + 1 : s[i] = b[m + i - 1]
      <3> HIDE DEF m, n
      <3> QED
        BY <2>0, <2>1, SubSeqProperties
    <2> HIDE DEF s
    <2>3. Len(s) = Len(r)
      BY <1>0, <2>0, <2>2
    <2>4. ASSUME NEW i \in 1..Len(s) PROVE s[i] = r[i]
      <3>1. i \in 1..Len(r) /\ i \in 1..n - m + 1 /\ m + i - 1 = 1 + Len(f) + i
        BY <1>0, <2>0, <2>3
      <3> QED
        BY <1>5, <2>2, <3>1
    <2>5. s = r
      BY <1>0, <2>2, <2>3, <2>4, SeqEqual
    <2> QED
      BY <2>5 DEF s
  <1>8. b # <<>> /\ ~(Len(b) - 1 < b[1])
    BY <1>0, <1>3
  <1>9. TakeField(b) = {[field |-> SubSeq(b, 2, b[1] + 1), rest |-> SubSeq(b, b[1] + 2, Len(b))]}
    BY <1>8 DEF TakeField
  <1>10. TakeField(b) = {[field |-> f, rest |-> r]}
    BY <1>3, <1>6, <1>7, <1>9
  <1> QED
    BY <1>3, <1>10 DEF b, g, Text

\* One round of TakeFields.
Takes(S) == UNION {{[fields |-> Append(t.fields, f.field), rest |-> f.rest] : f \in TakeField(t.rest)} : t \in S}

LEMMA TakeNext ==
  ASSUME NEW fs, NEW f \in Text, NEW r \in Text
  PROVE  Takes({[fields |-> fs, rest |-> FrameOf(f) \o r]}) = {[fields |-> Append(fs, f), rest |-> r]}
  <1> DEFINE b == FrameOf(f) \o r
             t == [fields |-> fs, rest |-> b]
  <1>1. TakeField(b) = {[field |-> f, rest |-> r]}
    BY TakeOne
  <1> HIDE DEF b
  <1>2. t.fields = fs /\ t.rest = b
    OBVIOUS
  <1> HIDE DEF t
  <1>3. Takes({t}) = {[fields |-> Append(t.fields, x.field), rest |-> x.rest] : x \in TakeField(t.rest)}
    BY DEF Takes
  <1>4. Takes({t}) = {[fields |-> Append(fs, f), rest |-> r]}
    <2> DEFINE y == [field |-> f, rest |-> r]
    <2>1. y.field = f /\ y.rest = r
      OBVIOUS
    <2>2. TakeField(t.rest) = {y}
      BY <1>1, <1>2
    <2> HIDE DEF y
    <2>3. Takes({t}) = {[fields |-> Append(t.fields, y.field), rest |-> y.rest]}
      BY <1>3, <2>2
    <2> QED
      BY <1>2, <2>1, <2>3
  <1> QED
    BY <1>4 DEF t, b

LEMMA FourTakes ==
  ASSUME NEW bytes
  PROVE  TakeFields(bytes, 4) = Takes(Takes(Takes(Takes({[fields |-> <<>>, rest |-> bytes]}))))
  <1> DEFINE s0 == {[fields |-> <<>>, rest |-> bytes]}
             s1 == Takes(s0)
             s2 == Takes(s1)
             s3 == Takes(s2)
             s4 == Takes(s3)
             g == [k \in 0..4 |-> IF k = 0 THEN s0 ELSE IF k = 1 THEN s1 ELSE IF k = 2 THEN s2 ELSE IF k = 3 THEN s3 ELSE s4]
             R(h) == h = [k \in 0..4 |-> IF k = 0 THEN s0 ELSE Takes(h[k - 1])]
             take == CHOOSE h : R(h)
  <1>1. R(g)
    <2>1. ASSUME NEW k \in 0..4 PROVE g[k] = IF k = 0 THEN s0 ELSE Takes(g[k - 1])
      <3>1. k = 0 \/ k = 1 \/ k = 2 \/ k = 3 \/ k = 4
        OBVIOUS
      <3> HIDE DEF s0
      <3> QED
        BY <3>1
    <2>2. g = [k \in 0..4 |-> g[k]]
      OBVIOUS
    <2> HIDE DEF g, s0
    <2> QED
      BY <2>1, <2>2
  <1>2. R(take)
    <2> HIDE DEF R, g
    <2> QED
      BY <1>1, Zenon
  <1>3. TakeFields(bytes, 4) = take[4]
    BY Zenon DEF TakeFields, Takes
  <1> HIDE DEF take, s0
  <1>4. take[0] = s0 /\ take[1] = Takes(take[0]) /\ take[2] = Takes(take[1]) /\ take[3] = Takes(take[2]) /\ take[4] = Takes(take[3])
    BY <1>2
  <1> QED
    BY <1>3, <1>4 DEF s0

\* Concatenation, as one fact to instantiate.
IsAssoc(a, b, c) == (a \o b) \o c = a \o (b \o c)
LEMMA Assoc ==
  ASSUME NEW S, NEW a \in Seq(S), NEW b \in Seq(S), NEW c \in Seq(S)
  PROVE  IsAssoc(a, b, c)
  BY ConcatAssociative DEF IsAssoc

\* Tuples of members are sequences, and grow at either end.
LEMMA Tuples ==
  ASSUME NEW S, NEW a \in S, NEW b \in S, NEW c \in S, NEW d \in S
  PROVE  /\ <<a>> \in Seq(S) /\ <<b, c>> \in Seq(S) /\ <<b, c, d>> \in Seq(S) /\ <<a, b>> \in Seq(S) /\ <<a, b, c>> \in Seq(S) /\ <<a, b, c, d>> \in Seq(S)
  OBVIOUS

IsGrown(a, b, c, d) ==
  /\ Append(<<>>, a) = <<a>> /\ Append(<<a>>, b) = <<a, b>>
  /\ Append(<<a, b>>, c) = <<a, b, c>> /\ Append(<<a, b, c>>, d) = <<a, b, c, d>>
LEMMA Grown ==
  ASSUME NEW S, NEW a \in S, NEW b \in S, NEW c \in S, NEW d \in S
  PROVE  IsGrown(a, b, c, d)
  <1>1. Append(<<>>, a) = <<a>>
    OBVIOUS
  <1>2. Append(<<a>>, b) = <<a, b>>
    <2> DEFINE x == Append(<<a>>, b)
    <2>0. <<a>> \in Seq(S) /\ <<a, b>> \in Seq(S)
      BY Tuples
    <2>1. x \in Seq(S) /\ Len(x) = 2 /\ x[1] = a /\ x[2] = b
      BY <2>0
    <2> HIDE DEF x
    <2>2. x = <<a, b>>
      BY <2>0, <2>1, SeqEqual
    <2> QED
      BY <2>2 DEF x
  <1>3. Append(<<a, b>>, c) = <<a, b, c>>
    <2> DEFINE x == Append(<<a, b>>, c)
    <2>0. <<a, b>> \in Seq(S) /\ <<a, b, c>> \in Seq(S)
      BY Tuples
    <2>1. x \in Seq(S) /\ Len(x) = 3 /\ x[1] = a /\ x[2] = b /\ x[3] = c
      BY <2>0
    <2> HIDE DEF x
    <2>2. x = <<a, b, c>>
      BY <2>0, <2>1, SeqEqual
    <2> QED
      BY <2>2 DEF x
  <1>4. Append(<<a, b, c>>, d) = <<a, b, c, d>>
    <2> DEFINE x == Append(<<a, b, c>>, d)
    <2>0. <<a, b, c>> \in Seq(S) /\ <<a, b, c, d>> \in Seq(S)
      BY Tuples
    <2>1. x \in Seq(S) /\ Len(x) = 4 /\ x[1] = a /\ x[2] = b /\ x[3] = c /\ x[4] = d
      BY <2>0
    <2> HIDE DEF x
    <2>2. x = <<a, b, c, d>>
      BY <2>0, <2>1, SeqEqual
    <2> QED
      BY <2>2 DEF x
  <1> QED
    BY <1>1, <1>2, <1>3, <1>4 DEF IsGrown

IsAhead(a, b, c, d) == <<a>> \o <<b, c>> = <<a, b, c>> /\ <<a>> \o <<b, c, d>> = <<a, b, c, d>>
LEMMA Ahead ==
  ASSUME NEW S, NEW a \in S, NEW b \in S, NEW c \in S, NEW d \in S
  PROVE  IsAhead(a, b, c, d)
  <1>1. <<a>> \o <<b, c>> = <<a, b, c>>
    <2> DEFINE x == <<a>> \o <<b, c>>
    <2>0. <<a>> \in Seq(S) /\ <<b, c>> \in Seq(S) /\ <<a, b, c>> \in Seq(S)
      BY Tuples
    <2>1. x \in Seq(S) /\ Len(x) = 3 /\ x[1] = a /\ x[2] = b /\ x[3] = c
      BY <2>0
    <2> HIDE DEF x
    <2>2. x = <<a, b, c>>
      BY <2>0, <2>1, SeqEqual
    <2> QED
      BY <2>2 DEF x
  <1>2. <<a>> \o <<b, c, d>> = <<a, b, c, d>>
    <2> DEFINE x == <<a>> \o <<b, c, d>>
    <2>0. <<a>> \in Seq(S) /\ <<b, c, d>> \in Seq(S) /\ <<a, b, c, d>> \in Seq(S)
      BY Tuples
    <2>1. x \in Seq(S) /\ Len(x) = 4 /\ x[1] = a /\ x[2] = b /\ x[3] = c /\ x[4] = d
      BY <2>0
    <2> HIDE DEF x
    <2>2. x = <<a, b, c, d>>
      BY <2>0, <2>1, SeqEqual
    <2> QED
      BY <2>2 DEF x
  <1> QED
    BY <1>1, <1>2 DEF IsAhead

\* The four frames of an envelope, one in front of the other.
IsFramed(f1, f2, f3, f4, d) ==
  FramesOf(<<f1, f2, f3, f4>>) \o d = FrameOf(f1) \o (FrameOf(f2) \o (FrameOf(f3) \o (FrameOf(f4) \o d)))
LEMMA FourFrames ==
  ASSUME NEW f1 \in Text, NEW f2 \in Text, NEW f3 \in Text, NEW f4 \in Text, NEW d \in Text
  PROVE  IsFramed(f1, f2, f3, f4, d)
  <1> DEFINE x == <<f1, f2, f3, f4>>
             fs == [i \in DOMAIN x |-> FrameOf(x[i])]
             g1 == FrameOf(f1)
             g2 == FrameOf(f2)
             g3 == FrameOf(f3)
             g4 == FrameOf(f4)
  <1>1. g1 \in Text /\ g2 \in Text /\ g3 \in Text /\ g4 \in Text
    BY FrameFacts
  <1>2. DOMAIN x = 1..4 /\ x[1] = f1 /\ x[2] = f2 /\ x[3] = f3 /\ x[4] = f4
    OBVIOUS
  <1>3. FramesOf(x) = FlattenSeq(fs)
    BY DEF FramesOf, FrameOf
  <1> HIDE DEF x
  <1>4. fs[1] = g1 /\ fs[2] = g2 /\ fs[3] = g3 /\ fs[4] = g4 /\ DOMAIN fs = 1..4
    BY <1>2
  <1>5. fs \in TextSeqs /\ Len(fs) = 4
    <2>1. \A i \in 1..4 : fs[i] \in Text
      BY <1>1, <1>4
    <2>2. fs \in [1..4 -> Text]
      BY <1>4, <2>1
    <2> HIDE DEF fs
    <2>3. fs \in Seq(Text)
      BY <2>2, SeqDef
    <2>4. DOMAIN fs = 1..4 /\ DOMAIN fs = 1..Len(fs) /\ Len(fs) \in Nat
      BY <2>2, <2>3, LenProperties
    <2>5. Len(fs) = 4
      BY <2>4
    <2> QED
      BY <2>3, <2>5 DEF TextSeqs
  <1> HIDE DEF fs, g1, g2, g3, g4
  <1>6. PICK out : FlattenSeq(fs) = out[Len(fs)] /\ \A i \in 1..Len(fs) : Joins(out, fs, i)
    BY <1>5, FlattenLoop
  <1>7. Joins(out, fs, 1) /\ Joins(out, fs, 2) /\ Joins(out, fs, 3) /\ Joins(out, fs, 4)
    BY <1>5, <1>6
  <1>8. out[1] = g1 /\ out[2] = out[1] \o g2 /\ out[3] = out[2] \o g3 /\ out[4] = out[3] \o g4
    <2>1. 2 # 1 /\ 3 # 1 /\ 4 # 1 /\ 2 - 1 = 1 /\ 3 - 1 = 2 /\ 4 - 1 = 3
      OBVIOUS
    <2> QED
      BY <1>4, <1>7, <2>1, Zenon DEF Joins
  <1>9. FramesOf(x) = ((g1 \o g2) \o g3) \o g4
    BY <1>3, <1>5, <1>6, <1>8
  <1>10. FramesOf(x) \o d = g1 \o (g2 \o (g3 \o (g4 \o d)))
    <2> DEFINE a == g1 \o g2
               b == a \o g3
               e == g4 \o d
               h == g3 \o e
    <2>0. g1 \in Seq(Nat) /\ g2 \in Seq(Nat) /\ g3 \in Seq(Nat) /\ g4 \in Seq(Nat) /\ d \in Seq(Nat)
      BY <1>1 DEF Text
    <2>1. a \in Seq(Nat) /\ e \in Seq(Nat)
      BY <2>0, ConcatProperties, Zenon
    <2> HIDE DEF a, e
    <2>2. b \in Seq(Nat) /\ h \in Seq(Nat)
      BY <2>0, <2>1, ConcatProperties, Zenon
    <2> HIDE DEF b, h
    <2>3. (b \o g4) \o d = b \o e
      <3>1. IsAssoc(b, g4, d)
        BY <2>0, <2>2, Assoc
      <3> QED
        BY <3>1 DEF IsAssoc, e
    <2>4. b \o e = a \o h
      <3>1. IsAssoc(a, g3, e)
        BY <2>0, <2>1, Assoc
      <3> QED
        BY <3>1 DEF IsAssoc, b, h
    <2>5. a \o h = g1 \o (g2 \o h)
      <3>1. IsAssoc(g1, g2, h)
        BY <2>0, <2>2, Assoc
      <3> QED
        BY <3>1 DEF IsAssoc, a
    <2>6. FramesOf(x) = b \o g4
      BY <1>9 DEF a, b
    <2> QED
      BY <2>3, <2>4, <2>5, <2>6 DEF e, h
  <1> QED
    BY <1>10 DEF IsFramed, x, g1, g2, g3, g4

\* An envelope opens to its key under the context it was sealed in, and under no other.
LEMMA EnvelopeIsBound ==
  ASSUME NEW t \in Text, NEW v \in Nat, NEW aad \in Text, NEW d \in Text, Len(d) = DekLen, NEW t2, NEW v2, NEW aad2
  PROVE  OpenEnvelope(t2, v2, aad2, SealEnvelope(t, v, aad, d)) = IF t2 = t /\ v2 = v /\ aad2 = aad THEN {d} ELSE {}
  <1> DEFINE D == DomainEnvelope
             w == <<v>>
             r4 == FrameOf(aad) \o d
             r3 == FrameOf(w) \o r4
             r2 == FrameOf(t) \o r3
             r1 == FrameOf(D) \o r2
             p == SealEnvelope(t, v, aad, d)
             fs == <<D, t, w, aad>>
  <1>1. D \in Text /\ w \in Text
    BY DEF DomainEnvelope, Text
  <1> HIDE DEF D, w
  <1>2. r4 \in Text
    BY TakeOne
  <1> HIDE DEF r4
  <1>3. r3 \in Text
    BY <1>1, <1>2, TakeOne
  <1> HIDE DEF r3
  <1>4. r2 \in Text
    BY <1>3, TakeOne
  <1> HIDE DEF r2
  <1>5. p = r1
    <2>1. p = FramesOf(<<D, t, w, aad>>) \o d
      BY DEF SealEnvelope, D, w
    <2>2. FramesOf(<<D, t, w, aad>>) \o d = FrameOf(D) \o (FrameOf(t) \o (FrameOf(w) \o (FrameOf(aad) \o d)))
      <3>1. IsFramed(D, t, w, aad, d)
        BY <1>1, FourFrames
      <3> QED
        BY <3>1 DEF IsFramed
    <2> QED
      BY <2>1, <2>2 DEF r2, r3, r4
  <1>6. Takes({[fields |-> <<>>, rest |-> r1]}) = {[fields |-> Append(<<>>, D), rest |-> r2]}
    BY <1>1, <1>4, TakeNext
  <1> DEFINE c1 == Append(<<>>, D)
             c2 == Append(c1, t)
             c3 == Append(c2, w)
             c4 == Append(c3, aad)
  <1> HIDE DEF c1, c2, c3, c4
  <1>7. Takes({[fields |-> c1, rest |-> r2]}) = {[fields |-> c2, rest |-> r3]}
    BY <1>3, TakeNext DEF r2, c2
  <1>8. Takes({[fields |-> c2, rest |-> r3]}) = {[fields |-> c3, rest |-> r4]}
    BY <1>1, <1>2, TakeNext DEF r3, c3
  <1>9. Takes({[fields |-> c3, rest |-> r4]}) = {[fields |-> c4, rest |-> d]}
    BY TakeNext DEF r4, c4
  <1>10. TakeFields(p, 4) = {[fields |-> c4, rest |-> d]}
    <2>1. TakeFields(p, 4) = Takes(Takes(Takes(Takes({[fields |-> <<>>, rest |-> p]}))))
      BY FourTakes
    <2>2. Takes({[fields |-> <<>>, rest |-> p]}) = {[fields |-> c1, rest |-> r2]}
      BY <1>5, <1>6, Zenon DEF c1
    <2> QED
      BY <1>7, <1>8, <1>9, <2>1, <2>2, Zenon
  <1>11. c4 = fs
    <2>1. /\ Append(<<>>, D) = <<D>> /\ Append(<<D>>, t) = <<D, t>>
          /\ Append(<<D, t>>, w) = <<D, t, w>> /\ Append(<<D, t, w>>, aad) = <<D, t, w, aad>>
      <3>1. IsGrown(D, t, w, aad)
        BY <1>1, Grown
      <3> QED
        BY <3>1 DEF IsGrown
    <2> QED
      BY <2>1 DEF c1, c2, c3, c4
  <1> DEFINE gs == <<DomainEnvelope, t2, <<v2>>, aad2>>
  <1>12. OpenEnvelope(t2, v2, aad2, p) = {x.rest : x \in {u \in TakeFields(p, 4) : u.fields = gs /\ Len(u.rest) = DekLen}}
    BY DEF OpenEnvelope
  <1>13. fs = gs <=> t2 = t /\ v2 = v /\ aad2 = aad
    <2>1. fs[1] = D /\ fs[2] = t /\ fs[3] = w /\ fs[4] = aad /\ gs[2] = t2 /\ gs[3] = <<v2>> /\ gs[4] = aad2
      OBVIOUS
    <2>2. w = <<v2>> <=> v = v2
      BY DEF w
    <2>3. t2 = t /\ v2 = v /\ aad2 = aad => fs = gs
      BY <2>2 DEF D
    <2>4. fs = gs => t2 = t /\ w = <<v2>> /\ aad2 = aad
      BY <2>1
    <2> QED
      BY <2>2, <2>3, <2>4
  <1> HIDE DEF fs, gs, p
  <1>14. OpenEnvelope(t2, v2, aad2, p) = IF fs = gs THEN {d} ELSE {}
    <2> DEFINE u == [fields |-> c4, rest |-> d]
    <2>1. u.fields = fs /\ u.rest = d
      BY <1>11
    <2> HIDE DEF u
    <2>2. TakeFields(p, 4) = {u}
      BY <1>10 DEF u
    <2> QED
      BY <1>12, <2>1, <2>2
  <1> QED
    BY <1>13, <1>14 DEF p

\* On either key service, a wrapped key comes out under the tenant, version and context it
\* was wrapped for, and under no other.
LEMMA WrapIsBound ==
  ASSUME NEW svc, NEW t \in Text, NEW v \in Nat, NEW aad \in Text, NEW d \in Text, Len(d) = DekLen, NEW t2, NEW v2, NEW aad2
  PROVE  UnwrapUnder(svc, t2, v2, WrapUnder(svc, t, v, d, aad), aad2) = IF t2 = t /\ v2 = v /\ aad2 = aad THEN {d} ELSE {}
  <1>1. CASE svc = "dev"
    <2> DEFINE blob == AeadSeal(<<t, <<v>>>>, d, aad)
    <2>1. WrapUnder(svc, t, v, d, aad) = blob
      BY <1>1 DEF WrapUnder, KekOf
    <2>2. blob.key = <<t, <<v>>>> /\ blob.plain = d /\ blob.aad = aad /\ blob # Truncated
      <3>1. blob.key = <<t, <<v>>>> /\ blob.plain = d /\ blob.aad = aad
        BY DEF AeadSeal
      <3>2. Truncated.key = <<>>
        BY DEF Truncated
      <3>3. <<t, <<v>>>> # <<>>
        OBVIOUS
      <3> HIDE DEF blob
      <3> QED
        BY <3>1, <3>2, <3>3
    <2> HIDE DEF blob
    <2>3. AeadOpen(<<t2, <<v2>>>>, blob, aad2) = IF t2 = t /\ v2 = v /\ aad2 = aad THEN {d} ELSE {}
      <3>1. <<t, <<v>>>> = <<t2, <<v2>>>> <=> t2 = t /\ v2 = v
        OBVIOUS
      <3> QED
        BY <2>2, <3>1 DEF AeadOpen
    <2>4. UnwrapUnder(svc, t2, v2, blob, aad2) = {x \in AeadOpen(<<t2, <<v2>>>>, blob, aad2) : Len(x) = DekLen}
      BY <1>1 DEF UnwrapUnder, KekOf
    <2> QED
      BY <2>1, <2>3, <2>4
  <1>2. CASE svc # "dev"
    <2> DEFINE p == SealEnvelope(t, v, aad, d)
               blob == AeadSeal(<<t, <<>>>>, p, <<>>)
    <2>1. WrapUnder(svc, t, v, d, aad) = blob
      BY <1>2 DEF WrapUnder, KekOf
    <2>2. OpenEnvelope(t2, v2, aad2, p) = IF t2 = t /\ v2 = v /\ aad2 = aad THEN {d} ELSE {}
      BY EnvelopeIsBound
    <2> HIDE DEF p
    <2>3. blob.key = <<t, <<>>>> /\ blob.plain = p /\ blob.aad = <<>> /\ blob # Truncated
      <3>1. blob.key = <<t, <<>>>> /\ blob.plain = p /\ blob.aad = <<>>
        BY DEF AeadSeal
      <3>2. Truncated.key = <<>>
        BY DEF Truncated
      <3>3. <<t, <<>>>> # <<>>
        OBVIOUS
      <3> HIDE DEF blob
      <3> QED
        BY <3>1, <3>2, <3>3
    <2> HIDE DEF blob
    <2>4. AeadOpen(<<t2, <<>>>>, blob, <<>>) = IF t2 = t THEN {p} ELSE {}
      <3>1. <<t, <<>>>> = <<t2, <<>>>> <=> t2 = t
        OBVIOUS
      <3> QED
        BY <2>3, <3>1 DEF AeadOpen
    <2>5. UnwrapUnder(svc, t2, v2, blob, aad2) = UNION {OpenEnvelope(t2, v2, aad2, x) : x \in AeadOpen(<<t2, <<>>>>, blob, <<>>)}
      BY <1>2 DEF UnwrapUnder, KekOf
    <2>6. CASE t2 = t
      <3>1. UnwrapUnder(svc, t2, v2, blob, aad2) = OpenEnvelope(t2, v2, aad2, p)
        BY <2>4, <2>5, <2>6
      <3> QED
        BY <2>1, <2>2, <3>1
    <2>7. CASE t2 # t
      <3>1. UnwrapUnder(svc, t2, v2, blob, aad2) = {}
        BY <2>4, <2>5, <2>7
      <3> QED
        BY <2>1, <2>7, <3>1
    <2> QED
      BY <2>6, <2>7
  <1> QED
    BY <1>1, <1>2

\* Nothing is in a blob without a nonce.
LEMMA TruncatedIsNothing ==
  ASSUME NEW svc, NEW t, NEW v, NEW aad
  PROVE  UnwrapUnder(svc, t, v, Truncated, aad) = {}
  <1>1. \A key, context : AeadOpen(key, Truncated, context) = {}
    BY DEF AeadOpen
  <1> QED
    BY <1>1 DEF UnwrapUnder

\* A context says whose and what for it is.
LEMMA ContextsAreFaithful ==
  ASSUME NEW t \in Text, NEW n \in Text, NEW v \in Nat, NEW t2 \in Text, NEW n2 \in Text, NEW v2 \in Nat
  PROVE  /\ WrapAad(t, n, v) \in Text
         /\ ValueAad(t, n) = ValueAad(t2, n2) => t = t2 /\ n = n2
         /\ WrapAad(t, n, v) = WrapAad(t2, n2, v2) => t = t2 /\ n = n2 /\ v = v2
  <1>0. DomainValue \in Text /\ DomainWrap \in Text /\ <<v>> \in Text /\ <<v2>> \in Text
    BY DEF DomainValue, DomainWrap, Text
  <1>1. ValueAad(t, n) = ValueAad(t2, n2) => t = t2 /\ n = n2
    <2> DEFINE a == <<DomainValue, t, n>>
               b == <<DomainValue, t2, n2>>
    <2>1. a \in TextSeqs /\ b \in TextSeqs /\ Len(a) > 0 /\ Len(b) > 0
      BY <1>0 DEF TextSeqs
    <2>2. <<DomainValue>> \o <<t, n>> = a /\ <<DomainValue>> \o <<t2, n2>> = b
      <3>1. IsAhead(DomainValue, t, n, n) /\ IsAhead(DomainValue, t2, n2, n2)
        BY <1>0, Ahead
      <3> QED
        BY <3>1 DEF IsAhead
    <2>3. a[2] = t /\ a[3] = n /\ b[2] = t2 /\ b[3] = n2
      OBVIOUS
    <2> HIDE DEF a, b
    <2>4. ValueAad(t, n) = FramesOf(a) /\ ValueAad(t2, n2) = FramesOf(b)
      BY <2>2 DEF ValueAad, AssociatedData
    <2>5. FramesOf(a) = FramesOf(b) => a = b
      BY <2>1, FramesAreFaithful
    <2> QED
      BY <2>3, <2>4, <2>5
  <1>2. WrapAad(t, n, v) \in Text /\ (WrapAad(t, n, v) = WrapAad(t2, n2, v2) => t = t2 /\ n = n2 /\ v = v2)
    <2> DEFINE a == <<DomainWrap, t, n, <<v>>>>
               b == <<DomainWrap, t2, n2, <<v2>>>>
    <2>1. a \in TextSeqs /\ b \in TextSeqs /\ Len(a) > 0 /\ Len(b) > 0
      BY <1>0 DEF TextSeqs
    <2>2. <<DomainWrap>> \o <<t, n, <<v>>>> = a /\ <<DomainWrap>> \o <<t2, n2, <<v2>>>> = b
      <3>1. IsAhead(DomainWrap, t, n, <<v>>) /\ IsAhead(DomainWrap, t2, n2, <<v2>>)
        BY <1>0, Ahead
      <3> QED
        BY <3>1 DEF IsAhead
    <2>3. a[2] = t /\ a[3] = n /\ a[4] = <<v>> /\ b[2] = t2 /\ b[3] = n2 /\ b[4] = <<v2>>
      OBVIOUS
    <2>4. <<v>> = <<v2>> => v = v2
      OBVIOUS
    <2> HIDE DEF a, b
    <2>5. WrapAad(t, n, v) = FramesOf(a) /\ WrapAad(t2, n2, v2) = FramesOf(b)
      BY <2>2 DEF WrapAad, AssociatedData
    <2>6. FramesOf(a) = FramesOf(b) => a = b
      BY <2>1, FramesAreFaithful
    <2>7. FramesOf(a) \in Text
      BY <2>1, FramesInPlace
    <2> QED
      BY <2>3, <2>4, <2>5, <2>6, <2>7
  <1> QED
    BY <1>1, <1>2

-----------------------------------------------------------------------------
\* What Vault::seal makes of any value of any secret, under a data key of its own.
Deks == {d \in Text : Len(d) = DekLen}
SealedUnder(svc, dek) ==
  UNION {Seal(svc, x.tenant, x.name, x.version, dek, x.plain) :
           x \in [tenant : Text, name : Text, version : Nat, plain : Text]}

\* r holds a value under the data key d, wrapped for what r says it is.
Holds(svc, r, d) ==
  /\ r.tenant \in Text /\ r.name \in Text /\ r.version \in Nat
  /\ r.wrapped = WrapUnder(svc, r.tenant, r.version, d, WrapAad(r.tenant, r.name, r.version))
  /\ r.ciphertext = AeadSeal(d, r.ciphertext.plain, ValueAad(r.tenant, r.name)) /\ r.ciphertext.plain # <<>>
IsRecord(r) == r = [tenant |-> r.tenant, name |-> r.name, version |-> r.version, wrapped |-> r.wrapped, ciphertext |-> r.ciphertext]

LEMMA SealedHolds ==
  ASSUME NEW svc, NEW d \in Deks, NEW r \in SealedUnder(svc, d)
  PROVE  Holds(svc, r, d) /\ IsRecord(r)
  <1>1. PICK x \in [tenant : Text, name : Text, version : Nat, plain : Text] :
          r \in Seal(svc, x.tenant, x.name, x.version, d, x.plain)
    BY DEF SealedUnder
  <1> DEFINE w == WrapUnder(svc, x.tenant, x.version, d, WrapAad(x.tenant, x.name, x.version))
             c == AeadSeal(d, x.plain, ValueAad(x.tenant, x.name))
  <1>2. /\ x.plain # <<>>
        /\ r = [tenant |-> x.tenant, name |-> x.name, version |-> x.version, wrapped |-> w, ciphertext |-> c]
    BY <1>1 DEF Seal
  <1>3. c.plain = x.plain
    BY DEF AeadSeal
  <1> HIDE DEF w, c
  <1>4. r.tenant = x.tenant /\ r.name = x.name /\ r.version = x.version /\ r.wrapped = w /\ r.ciphertext = c
    BY <1>2
  <1>5. IsRecord(r)
    BY <1>2, <1>4 DEF IsRecord
  <1>6. Holds(svc, r, d)
    BY <1>2, <1>3, <1>4 DEF Holds, w, c
  <1> QED
    BY <1>5, <1>6

\* r is put together from the wrapped key of p and the ciphertext of q, and they open it
\* together, if they both say what it says.
IsOf(r, p, q) ==
  r.tenant \in Text /\ r.name \in Text /\ r.version \in Nat /\ r.wrapped = p.wrapped /\ r.ciphertext = q.ciphertext
Agrees(r, p, q) ==
  r.tenant = p.tenant /\ r.name = p.name /\ r.version = p.version /\ r.tenant = q.tenant /\ r.name = q.name

LEMMA KeyOpens ==
  ASSUME NEW svc, NEW d \in Deks, NEW p, Holds(svc, p, d), NEW t \in Text, NEW n \in Text, NEW v \in Nat
  PROVE  UnwrapUnder(svc, t, v, p.wrapped, WrapAad(t, n, v)) = IF t = p.tenant /\ n = p.name /\ v = p.version THEN {d} ELSE {}
  <1> DEFINE pt == p.tenant
             pn == p.name
             pv == p.version
             aad == WrapAad(pt, pn, pv)
             aad2 == WrapAad(t, n, v)
  <1>1. pt \in Text /\ pn \in Text /\ pv \in Nat /\ p.wrapped = WrapUnder(svc, pt, pv, d, aad)
    BY DEF Holds
  <1> HIDE DEF pt, pn, pv
  <1>2. aad \in Text /\ (aad2 = aad => t = pt /\ n = pn /\ v = pv)
    BY <1>1, ContextsAreFaithful
  <1>3. t = pt /\ n = pn /\ v = pv => aad2 = aad
    OBVIOUS
  <1>4. d \in Text /\ Len(d) = DekLen
    BY DEF Deks
  <1> HIDE DEF aad, aad2
  <1>5. UnwrapUnder(svc, t, v, WrapUnder(svc, pt, pv, d, aad), aad2) = IF t = pt /\ v = pv /\ aad2 = aad THEN {d} ELSE {}
    BY <1>1, <1>2, <1>4, WrapIsBound
  <1>6. UnwrapUnder(svc, t, v, p.wrapped, aad2) = IF t = pt /\ n = pn /\ v = pv THEN {d} ELSE {}
    BY <1>1, <1>2, <1>3, <1>5
  <1> QED
    BY <1>6 DEF pt, pn, pv, aad2

LEMMA ValueOpens ==
  ASSUME NEW svc, NEW d, NEW e, NEW q, Holds(svc, q, e), NEW t \in Text, NEW n \in Text
  PROVE  AeadOpen(d, q.ciphertext, ValueAad(t, n)) = IF d = e /\ t = q.tenant /\ n = q.name THEN {q.ciphertext.plain} ELSE {}
  <1> DEFINE c == q.ciphertext
             x == c.plain
             qt == q.tenant
             qn == q.name
  <1>1. c = AeadSeal(e, x, ValueAad(qt, qn)) /\ x # <<>> /\ qt \in Text /\ qn \in Text
    BY DEF Holds
  <1>2. c # Truncated
    BY <1>1 DEF Truncated
  <1> HIDE DEF c, x, qt, qn
  <1>3. c.key = e /\ c.aad = ValueAad(qt, qn) /\ c.plain = x
    BY <1>1 DEF AeadSeal
  <1>4. ValueAad(t, n) = ValueAad(qt, qn) => t = qt /\ n = qn
    BY <1>1, ContextsAreFaithful
  <1>5. AeadOpen(d, c, ValueAad(t, n)) = IF c.key = d /\ c.aad = ValueAad(t, n) THEN {c.plain} ELSE {}
    BY <1>2 DEF AeadOpen
  <1>6. AeadOpen(d, c, ValueAad(t, n)) = IF d = e /\ t = qt /\ n = qn THEN {x} ELSE {}
    BY <1>3, <1>4, <1>5
  <1> QED
    BY <1>6 DEF c, x, qt, qn

LEMMA PartsOpen ==
  ASSUME NEW svc, NEW d \in Deks, NEW e \in Deks, NEW p, NEW q, Holds(svc, p, d), Holds(svc, q, e), NEW r, IsOf(r, p, q)
  PROVE  OpenAs(svc, r.tenant, r.name, r) = IF Agrees(r, p, q) /\ d = e THEN {q.ciphertext.plain} ELSE {}
  <1> DEFINE t == r.tenant
             n == r.name
             v == r.version
             c == q.ciphertext
             Same == t = p.tenant /\ n = p.name /\ v = p.version
  <1>0. t \in Text /\ n \in Text /\ v \in Nat /\ r.wrapped = p.wrapped /\ r.ciphertext = c
    BY DEF IsOf
  <1>1. OpenAs(svc, t, n, r) = UNION {AeadOpen(x, c, ValueAad(t, n)) : x \in UnwrapUnder(svc, t, v, p.wrapped, WrapAad(t, n, v))}
    BY <1>0 DEF OpenAs, UnwrapOf
  <1>2. Agrees(r, p, q) <=> Same /\ t = q.tenant /\ n = q.name
    BY DEF Agrees
  <1> HIDE DEF t, n, v, c
  <1>3. UnwrapUnder(svc, t, v, p.wrapped, WrapAad(t, n, v)) = IF Same THEN {d} ELSE {}
    BY <1>0, KeyOpens
  <1>4. AeadOpen(d, c, ValueAad(t, n)) = IF d = e /\ t = q.tenant /\ n = q.name THEN {c.plain} ELSE {}
    BY <1>0, ValueOpens DEF c
  <1> HIDE DEF Same
  <1>5. CASE Same
    <2>1. OpenAs(svc, t, n, r) = AeadOpen(d, c, ValueAad(t, n))
      BY <1>1, <1>3, <1>5
    <2> QED
      BY <1>2, <1>4, <1>5, <2>1 DEF t, n, v, c
  <1>6. CASE ~Same
    <2>1. OpenAs(svc, t, n, r) = {}
      BY <1>1, <1>3, <1>6
    <2> QED
      BY <1>2, <1>6, <2>1 DEF t, n, v, c
  <1> QED
    BY <1>5, <1>6

\* Parts that open together were sealed together.
LEMMA PartsMatch ==
  ASSUME NEW svc, NEW d \in Deks, NEW e \in Deks, NEW p, NEW q, Holds(svc, p, d), Holds(svc, q, e), NEW r, IsOf(r, p, q),
         NEW t, NEW n, t = r.tenant, n = r.name, OpenAs(svc, t, n, r) # {}
  PROVE  Agrees(r, p, q) /\ d = e
  <1>1. OpenAs(svc, r.tenant, r.name, r) = IF Agrees(r, p, q) /\ d = e THEN {q.ciphertext.plain} ELSE {}
    BY PartsOpen
  <1> QED
    BY <1>1


\* A record that was wrapped again holds what it held, under the current version.
LEMMA RewrapHolds ==
  ASSUME NEW svc, NEW d \in Deks, NEW a, Holds(svc, a, d), IsRecord(a), NEW r \in Rewrap(svc, a, a.version + 1)
  PROVE  /\ Holds(svc, r, d) /\ IsRecord(r)
         /\ r.tenant = a.tenant /\ r.name = a.name /\ r.version = a.version + 1 /\ r.ciphertext = a.ciphertext
  <1> DEFINE w(x) == WrapUnder(svc, a.tenant, a.version + 1, x, WrapAad(a.tenant, a.name, a.version + 1))
  <1>1. PICK x \in UnwrapOf(svc, a.tenant, a.name, a) : r = [a EXCEPT !.version = a.version + 1, !.wrapped = w(x)]
    BY DEF Rewrap
  <1>2. x = d
    <2>1. a.tenant \in Text /\ a.name \in Text /\ a.version \in Nat
      BY DEF Holds
    <2>2. WrapAad(a.tenant, a.name, a.version) \in Text
      BY <2>1, ContextsAreFaithful
    <2>3. d \in Text /\ Len(d) = DekLen
      BY DEF Deks
    <2>4. UnwrapOf(svc, a.tenant, a.name, a) = {d}
      BY <2>1, <2>2, <2>3, WrapIsBound DEF UnwrapOf, Holds
    <2> QED
      BY <2>4
  <1>3. r = [tenant |-> a.tenant, name |-> a.name, version |-> a.version + 1, wrapped |-> w(d), ciphertext |-> a.ciphertext]
    <2> DEFINE u == w(d)
    <2>1. r = [a EXCEPT !.version = a.version + 1, !.wrapped = u]
      BY <1>1, <1>2
    <2> HIDE DEF u
    <2>2. r = [tenant |-> a.tenant, name |-> a.name, version |-> a.version + 1, wrapped |-> u, ciphertext |-> a.ciphertext]
      BY <2>1 DEF IsRecord
    <2> QED
      BY <2>2 DEF u
  <1>4. /\ r.tenant = a.tenant /\ r.name = a.name /\ r.version = a.version + 1
        /\ r.wrapped = w(d) /\ r.ciphertext = a.ciphertext
    BY <1>3
  <1>5. IsRecord(r)
    BY <1>3, <1>4 DEF IsRecord
  <1>6. Holds(svc, r, d)
    BY <1>4 DEF Holds
  <1> QED
    BY <1>4, <1>5, <1>6

\* What changing fields of a record changes.
Changed(r, x, v, w, c) == r = [x EXCEPT !.version = v, !.wrapped = w, !.ciphertext = c]
LEMMA Recombined ==
  ASSUME NEW x, IsRecord(x), NEW v, NEW w, NEW c, NEW r, Changed(r, x, v, w, c)
  PROVE  r.tenant = x.tenant /\ r.name = x.name /\ r.version = v /\ r.wrapped = w /\ r.ciphertext = c
  BY DEF IsRecord, Changed

Renamed(r, x, t, n) == r = [x EXCEPT !.tenant = t, !.name = n]
LEMMA Relabelled ==
  ASSUME NEW x, IsRecord(x), NEW t, NEW n, NEW r, Renamed(r, x, t, n)
  PROVE  /\ r.tenant = t /\ r.name = n /\ r.version = x.version
         /\ r.wrapped = x.wrapped /\ r.ciphertext = x.ciphertext /\ IsRecord(r)
  <1>1. r = [tenant |-> t, name |-> n, version |-> x.version, wrapped |-> x.wrapped, ciphertext |-> x.ciphertext]
    BY DEF IsRecord, Renamed
  <1>2. /\ r.tenant = t /\ r.name = n /\ r.version = x.version
        /\ r.wrapped = x.wrapped /\ r.ciphertext = x.ciphertext
    BY <1>1
  <1> QED
    BY <1>1, <1>2 DEF IsRecord

\* Whatever the names, contents and versions of two secrets, and on either key service: a
\* sealed record opens to its value, no parts of two records open together, under no
\* other name or version, and a record that was wrapped again opens to what it held and
\* under its old version no more (Vault::seal, open and rewrap; value_aad, wrap_aad,
\* open_envelope).
THEOREM SealedValuesAreBound ==
  ASSUME NEW svc, NEW d \in Deks, NEW e \in Deks, d # e, NEW a \in SealedUnder(svc, d), NEW b \in SealedUnder(svc, e)
  PROVE  SealedIsBound(svc, a, b)
  <1>1. Holds(svc, a, d) /\ IsRecord(a) /\ Holds(svc, b, e) /\ IsRecord(b)
    BY SealedHolds
  <1>2. a.tenant \in Text /\ a.name \in Text /\ a.version \in Nat /\ b.version \in Nat
    BY <1>1 DEF Holds
  <1>3. OpenAs(svc, a.tenant, a.name, a) = {a.ciphertext.plain}
    <2>1. IsOf(a, a, a) /\ Agrees(a, a, a)
      BY <1>2 DEF IsOf, Agrees
    <2> QED
      BY <1>1, <2>1, PartsOpen
  <1>4. ASSUME NEW r, r.tenant = a.tenant, r.name = a.name, r.version \in {a.version, b.version},
               r.wrapped \in {a.wrapped, b.wrapped, Truncated}, r.ciphertext \in {a.ciphertext, b.ciphertext},
               OpenAs(svc, a.tenant, a.name, r) # {}
        PROVE  \E s \in {a, b} : /\ s.tenant = a.tenant /\ s.name = a.name
                                 /\ r.version = s.version /\ r.wrapped = s.wrapped /\ r.ciphertext = s.ciphertext
    <2>0. r.tenant \in Text /\ r.name \in Text /\ r.version \in Nat
      BY <1>2, <1>4
    <2>opens. r.tenant = a.tenant /\ r.name = a.name /\ OpenAs(svc, a.tenant, a.name, r) # {}
      BY <1>4
    <2>1. CASE r.wrapped = Truncated
      <3>1. UnwrapOf(svc, a.tenant, a.name, r) = {}
        BY <2>1, TruncatedIsNothing DEF UnwrapOf
      <3>2. OpenAs(svc, a.tenant, a.name, r) = {}
        BY <3>1 DEF OpenAs
      <3> QED
        BY <3>2, <1>4
    <2>2. CASE r.wrapped = a.wrapped /\ r.ciphertext = a.ciphertext
      <3>1. IsOf(r, a, a)
        BY <2>0, <2>2 DEF IsOf
      <3>2. Agrees(r, a, a)
        BY <1>1, <2>opens, <3>1, PartsMatch
      <3> QED
        BY <1>4, <2>2, <3>2 DEF Agrees
    <2>3. CASE r.wrapped = b.wrapped /\ r.ciphertext = b.ciphertext
      <3>1. IsOf(r, b, b)
        BY <2>0, <2>3 DEF IsOf
      <3>2. Agrees(r, b, b)
        BY <1>1, <2>opens, <3>1, PartsMatch
      <3> QED
        BY <1>4, <2>3, <3>2 DEF Agrees
    <2>4. CASE r.wrapped = a.wrapped /\ r.ciphertext = b.ciphertext
      <3>1. IsOf(r, a, b)
        BY <2>0, <2>4 DEF IsOf
      <3>2. d = e
        BY <1>1, <2>opens, <3>1, PartsMatch
      <3> QED
        BY <3>2
    <2>5. CASE r.wrapped = b.wrapped /\ r.ciphertext = a.ciphertext
      <3>1. IsOf(r, b, a)
        BY <2>0, <2>5 DEF IsOf
      <3>2. e = d
        BY <1>1, <2>opens, <3>1, PartsMatch
      <3> QED
        BY <3>2
    <2> QED
      BY <1>4, <2>1, <2>2, <2>3, <2>4, <2>5
  <1> DEFINE Parts(r, s) ==
               {[r EXCEPT !.version = v, !.wrapped = w, !.ciphertext = c] :
                  v \in {r.version, s.version}, w \in {r.wrapped, s.wrapped, Truncated}, c \in {r.ciphertext, s.ciphertext}}
             b2 == [b EXCEPT !.tenant = a.tenant, !.name = a.name]
  <1>5. ASSUME NEW r \in Parts(a, b) \cup Parts(b2, a)
        PROVE  /\ r.tenant = a.tenant /\ r.name = a.name /\ r.version \in {a.version, b.version}
               /\ r.wrapped \in {a.wrapped, b.wrapped, Truncated} /\ r.ciphertext \in {a.ciphertext, b.ciphertext}
    <2>1. /\ b2.tenant = a.tenant /\ b2.name = a.name /\ b2.version = b.version
          /\ b2.wrapped = b.wrapped /\ b2.ciphertext = b.ciphertext /\ IsRecord(b2)
      <3>1. Renamed(b2, b, a.tenant, a.name)
        BY DEF Renamed
      <3> HIDE DEF b2
      <3> QED
        BY <1>1, <3>1, Relabelled
    <2> HIDE DEF b2
    <2>3. CASE r \in Parts(a, b)
      <3>1. PICK v \in {a.version, b.version}, w \in {a.wrapped, b.wrapped, Truncated}, c \in {a.ciphertext, b.ciphertext} :
              Changed(r, a, v, w, c)
        BY <2>3 DEF Changed
      <3> QED
        BY <1>1, <3>1, Recombined
    <2>4. CASE r \in Parts(b2, a)
      <3>1. PICK v \in {b2.version, a.version}, w \in {b2.wrapped, a.wrapped, Truncated}, c \in {b2.ciphertext, a.ciphertext} :
              Changed(r, b2, v, w, c)
        BY <2>4 DEF Changed
      <3> QED
        BY <2>1, <3>1, Recombined
    <2> QED
      BY <2>3, <2>4
  <1>6. ASSUME NEW r \in Rewrap(svc, a, a.version + 1)
        PROVE  /\ OpenAs(svc, a.tenant, a.name, r) = OpenAs(svc, a.tenant, a.name, a)
               /\ r.ciphertext = a.ciphertext
               /\ OpenAs(svc, a.tenant, a.name, [r EXCEPT !.version = a.version]) = {}
    <2>1. /\ Holds(svc, r, d) /\ IsRecord(r)
          /\ r.tenant = a.tenant /\ r.name = a.name /\ r.version = a.version + 1 /\ r.ciphertext = a.ciphertext
      BY <1>1, RewrapHolds
    <2>2. OpenAs(svc, r.tenant, r.name, r) = {r.ciphertext.plain}
      <3>1. IsOf(r, r, r) /\ Agrees(r, r, r)
        BY <1>2, <2>1 DEF IsOf, Agrees
      <3> QED
        BY <2>1, <3>1, PartsOpen
    <2> DEFINE o == [r EXCEPT !.version = a.version]
    <2>3. o.tenant = r.tenant /\ o.name = r.name /\ o.version = a.version /\ o.wrapped = r.wrapped /\ o.ciphertext = r.ciphertext
      BY <2>1 DEF IsRecord
    <2> HIDE DEF o
    <2>4. a.version # a.version + 1
      BY <1>2
    <2>5. OpenAs(svc, o.tenant, o.name, o) = {}
      <3>1. IsOf(o, r, r) /\ ~Agrees(o, r, r)
        BY <1>2, <2>1, <2>3, <2>4 DEF IsOf, Agrees
      <3> QED
        BY <2>1, <3>1, PartsOpen
    <2> QED
      BY <1>3, <2>1, <2>2, <2>3, <2>5 DEF o
  <1> HIDE DEF Parts, b2
  <1>7. \A r \in Parts(a, b) \cup Parts(b2, a) :
           OpenAs(svc, a.tenant, a.name, r) # {} =>
             \E s \in {a, b} : /\ s.tenant = a.tenant /\ s.name = a.name
                               /\ r.version = s.version /\ r.wrapped = s.wrapped /\ r.ciphertext = s.ciphertext
    BY <1>4, <1>5
  <1> QED
    BY <1>3, <1>6, <1>7 DEF SealedIsBound, Parts, b2
=============================================================================
