-------------------------- MODULE PopulationProofs --------------------------
(***************************************************************************)
(* For any entities, files and references: files are committed as a whole, *)
(* in an order that respects the references; what was reported is          *)
(* committed unless the commit failed; and attempts advance.               *)
(*                                                                         *)
(* IInv says why: within an attempt, the entities before the current       *)
(* position are exactly the ones that the transaction has persisted, and   *)
(* each of them needs only earlier ones; deferring an entity moves none of *)
(* those, so the first entities of the list, as many as the last attempt   *)
(* persisted, can be persisted again.                                      *)
(***************************************************************************)
EXTENDS Population, SequenceTheorems, TLAPS

(* Every entity of the prefix needs only entities that come before it. *)
Sorted(l, n) ==
  \A i \in 1..n : needs[l[i]] \subseteq {l[j] : j \in 1..(i - 1)}

Closed(S) == \A e \in S : needs[e] \subseteq S

(* An attempt has persisted the entities before its position. *)
AttemptInv ==
  pc = "attempt" =>
    /\ managed = {list[i] : i \in 1..(position - 1)}
    /\ Closed(managed)
    /\ Acyclic(managed)
    /\ attempts < Len(list)
    /\ Sorted(list, position - 1)

(* The next attempt can persist at least what the last one did. *)
PrefixInv ==
  /\ pc = "validate" => persisted = 0
  /\ pc \in {"persist", "attempt"} => Sorted(list, persisted)

(* The entities of the current file are committed, or their commit failed. *)
Done == EntitiesOf(file) \subseteq rows \/ file \in lost

FileInv ==
  /\ pc \in {"export", "drop", "create"} => file = 0
  /\ pc \in {"validate", "persist", "attempt", "save"} =>
       file # 0 /\ 1..(file - 1) \subseteq charm
  /\ pc = "next" /\ result => 1..file \subseteq charm
  /\ pc \in {"persist", "attempt"} => Listed(list) \subseteq valid
  /\ pc = "persist" /\ persisted = Len(list) => Done
  /\ pc = "save" /\ result => Listed(list) \subseteq valid /\ Done

Committed == Closed(rows) /\ Acyclic(rows) /\ WholeFiles

IInv ==
  /\ TypeOK
  /\ AttemptInv
  /\ PrefixInv
  /\ FileInv
  /\ Committed
  /\ CharmIsSaved

-----------------------------------------------------------------------------
(* Lists. *)

LEMMA ListFacts ==
  ASSUME NEW S, NEW l, Lists(l, S)
  PROVE  /\ Len(l) \in Nat
         /\ l \in [1..Len(l) -> S]
         /\ DOMAIN l = 1..Len(l)
         /\ Listed(l) = {l[i] : i \in 1..Len(l)}
         /\ S = {l[i] : i \in 1..Len(l)}
BY LenProperties DEF Lists, Listed

LEMMA EmptyList == Lists(<<>>, {}) /\ Len(<<>>) = 0 /\ Listed(<<>>) = {}
<1>1. <<>> \in Seq({}) /\ Len(<<>>) = 0
  BY EmptySeq
<1>2. DOMAIN <<>> = {}
  BY <1>1, LenProperties
<1> QED
  BY <1>1, <1>2 DEF Lists, Listed

LEMMA FunctionIsASeq ==
  ASSUME NEW S, NEW n \in Nat, NEW f \in [1..n -> S]
  PROVE  f \in Seq(S) /\ Len(f) = n
<1>1. f \in Seq(S)
  BY SeqDef
<1>2. DOMAIN f = 1..n /\ DOMAIN f = 1..Len(f) /\ Len(f) \in Nat
  BY <1>1, LenProperties
<1> QED
  BY <1>1, <1>2, SMT

(* Deferring reorders a list and does not touch what comes before. *)
LEMMA DeferredList ==
  ASSUME NEW S, NEW l, Lists(l, S), NEW k \in 1..Len(l)
  PROVE  /\ Lists(Deferred(l, k), S)
         /\ Len(Deferred(l, k)) = Len(l)
         /\ \A i \in 1..(k - 1) : Deferred(l, k)[i] = l[i]
<1> DEFINE n == Len(l)
           d == Deferred(l, k)
<1>1. n \in Nat /\ l \in [1..n -> S] /\ S = {l[i] : i \in 1..n} /\ DOMAIN l = 1..n
  BY ListFacts
<1> HIDE DEF n
<1>2. d = [i \in 1..n |-> IF i < k THEN l[i] ELSE IF i < n THEN l[i + 1] ELSE l[k]]
  BY DEF Deferred, n
<1>n. k \in 1..n
  BY DEF n
<1> HIDE DEF d
<1>3. d \in [1..n -> S]
  BY <1>1, <1>2, <1>n
<1>4. d \in Seq(S) /\ Len(d) = n /\ DOMAIN d = 1..n
  BY <1>1, <1>3, FunctionIsASeq
<1>5. \A i \in 1..n : \E j \in 1..n : d[j] = l[i]
  <2> TAKE i \in 1..n
  <2>1. CASE i < k
    BY <1>1, <1>2, <1>n, <2>1
  <2>2. CASE i = k
    <3>1. n \in 1..n /\ d[n] = l[k]
      BY <1>1, <1>2, <1>n
    <3> QED
      BY <2>2, <3>1
  <2>3. CASE i > k
    <3>1. i - 1 \in 1..n /\ d[i - 1] = l[i]
      BY <1>1, <1>2, <1>n, <2>3
    <3> QED
      BY <3>1
  <2> QED
    BY <1>1, <1>n, <2>1, <2>2, <2>3
<1>6. Listed(d) = S
  <2>1. Listed(d) = {d[i] : i \in 1..n}
    BY <1>4 DEF Listed
  <2> QED
    BY <1>1, <1>3, <1>5, <2>1
<1>7. ASSUME NEW i \in 1..n, NEW j \in 1..n, d[i] = d[j]
      PROVE  i = j
  <2>1. \A p, q \in 1..n : l[p] = l[q] => p = q
    BY <1>1 DEF Lists
  <2> DEFINE at(m) == IF m < k THEN m ELSE IF m < n THEN m + 1 ELSE k
  <2>2. /\ at(i) \in 1..n /\ d[i] = l[at(i)]
        /\ at(j) \in 1..n /\ d[j] = l[at(j)]
    BY <1>1, <1>2, <1>n
  <2>3. at(i) = at(j)
    BY <1>7, <2>1, <2>2
  <2> QED
    BY <1>1, <1>n, <2>3
<1>8. \A i \in 1..(k - 1) : d[i] = l[i]
  BY <1>1, <1>2, <1>n
<1> QED
  BY <1>4, <1>6, <1>7, <1>8 DEF Lists, d, n

(* Moving an entity behind the first k - 1 does not change what they need. *)
LEMMA DeferredSorted ==
  ASSUME NEW S, NEW l, Lists(l, S), NEW k \in 1..Len(l), Sorted(l, k - 1)
  PROVE  Sorted(Deferred(l, k), k - 1)
<1> DEFINE d == Deferred(l, k)
<1>1. \A i \in 1..(k - 1) : d[i] = l[i]
  BY DeferredList
<1>2. k \in Nat
  BY ListFacts
<1> HIDE DEF d
<1>3. ASSUME NEW i \in 1..(k - 1)
      PROVE  needs[d[i]] \subseteq {d[j] : j \in 1..(i - 1)}
  <2>1. needs[l[i]] \subseteq {l[j] : j \in 1..(i - 1)}
    BY <1>3 DEF Sorted
  <2>2. \A j \in 1..(i - 1) : d[j] = l[j]
    BY <1>1, <1>2, <1>3
  <2> QED
    BY <1>1, <1>3, <2>1, <2>2
<1> QED
  BY <1>3 DEF Sorted, d

-----------------------------------------------------------------------------
(* Sets of entities. *)

(* One more entity, whose needs are there, closes no circle. *)
LEMMA AcyclicExtends ==
  ASSUME NEW S, NEW x, Acyclic(S), Closed(S), needs[x] \subseteq S, x \notin S
  PROVE  Acyclic(S \cup {x}) /\ Closed(S \cup {x})
<1>1. Closed(S \cup {x})
  BY DEF Closed
<1>2. ASSUME NEW T \in SUBSET (S \cup {x}), T # {}
      PROVE  \E e \in T : needs[e] \cap T = {}
  <2>1. CASE T \cap S = {}
    <3>1. x \in T /\ needs[x] \cap T = {}
      BY <1>2, <2>1
    <3> QED
      BY <3>1
  <2>2. CASE T \cap S # {}
    <3>1. PICK e \in T \cap S : needs[e] \cap (T \cap S) = {}
      BY <2>2 DEF Acyclic
    <3>2. needs[e] \subseteq S
      BY <3>1 DEF Closed
    <3> QED
      BY <3>1, <3>2
  <2> QED
    BY <2>1, <2>2
<1> QED
  BY <1>1, <1>2 DEF Acyclic

(* Neither do two sets that are closed. *)
LEMMA AcyclicUnion ==
  ASSUME NEW S, NEW R, Acyclic(S), Closed(S), Acyclic(R), Closed(R)
  PROVE  Acyclic(S \cup R) /\ Closed(S \cup R)
<1>1. Closed(S \cup R)
  BY DEF Closed
<1>2. ASSUME NEW T \in SUBSET (S \cup R), T # {}
      PROVE  \E e \in T : needs[e] \cap T = {}
  <2>1. CASE T \cap S = {}
    BY <1>2, <2>1 DEF Acyclic
  <2>2. CASE T \cap S # {}
    <3>1. PICK e \in T \cap S : needs[e] \cap (T \cap S) = {}
      BY <2>2 DEF Acyclic
    <3>2. needs[e] \subseteq S
      BY <3>1 DEF Closed
    <3> QED
      BY <3>1, <3>2
  <2> QED
    BY <2>1, <2>2
<1> QED
  BY <1>1, <1>2 DEF Acyclic

-----------------------------------------------------------------------------
(* Init and the steps. *)

LEMMA NoEntities == EntitiesOf(0) = {}
BY PopulationAssumption DEF EntitiesOf

LEMMA InitIInv == Init => IInv
<1> SUFFICES ASSUME Init PROVE IInv
  OBVIOUS
<1>1. Lists(list, EntitiesOf(file)) /\ Len(list) = 0
  BY EmptyList, NoEntities DEF Init, Start
<1>2. TypeOK
  <2>1. InputsOK /\ FlagsOK
    BY DEF Init, Start, FlagsOK
  <2>2. ProgressOK
    BY <1>1, PopulationAssumption DEF Init, Start, ProgressOK, Places
  <2> QED
    BY <2>1, <2>2 DEF TypeOK
<1>3. Committed /\ CharmIsSaved
  BY DEF Init, Start, Committed, Closed, Acyclic, WholeFiles, CharmIsSaved
<1>4. AttemptInv /\ PrefixInv /\ FileInv
  BY DEF Init, Start, AttemptInv, PrefixInv, FileInv
<1> QED
  BY <1>2, <1>3, <1>4 DEF IInv

LEMMA InputsStay ==
  ASSUME InputsOK, UNCHANGED inputs
  PROVE  InputsOK'
BY DEF InputsOK, inputs

(* A step that only moves on, and leaves the files and the rows alone. *)
LEMMA SchemaStep ==
  ASSUME IInv, Export \/ DropSchema \/ CreateSchema
  PROVE  IInv'
<1> USE DEF Export, DropSchema, CreateSchema, inputs, progress, store
<1>1. TypeOK'
  <2>1. InputsOK'
    BY InputsStay DEF IInv, TypeOK
  <2>2. FlagsOK'
    BY DEF IInv, TypeOK, FlagsOK
  <2>3. ProgressOK'
    BY DEF IInv, TypeOK, ProgressOK, Places
  <2> QED
    BY <2>1, <2>2, <2>3 DEF TypeOK
<1>2. AttemptInv' /\ PrefixInv'
  BY DEF AttemptInv, PrefixInv
<1>3. FileInv'
  BY PopulationAssumption DEF IInv, FileInv
<1>4. Committed' /\ CharmIsSaved'
  BY DEF IInv, Committed, Closed, Acyclic, WholeFiles, CharmIsSaved
<1> QED
  BY <1>1, <1>2, <1>3, <1>4 DEF IInv

(* An exception that ends run() leaves what is committed and reported. *)
LEMMA RaiseStep ==
  ASSUME IInv, SchemaFails \/ OpenFails \/ StartFails \/ SaveEntityMapFails
  PROVE  IInv'
<1> USE DEF SchemaFails, OpenFails, StartFails, SaveEntityMapFails, Raise, Fault,
            inputs, progress, store
<1>1. TypeOK'
  <2>1. InputsOK'
    BY InputsStay DEF IInv, TypeOK
  <2>2. FlagsOK'
    BY DEF IInv, TypeOK, FlagsOK
  <2>3. ProgressOK'
    <3>a. faults < MaxFaults /\ faults' = faults + 1 /\ pc' = "ended"
      OBVIOUS
    <3>2. UNCHANGED <<file, list, attempts, persisted, position, managed, rows, charm, lost>>
      OBVIOUS
    <3>b. faults \in 0..MaxFaults /\ MaxFaults \in Nat
      BY PopulationAssumption DEF IInv, TypeOK, ProgressOK
    <3> HIDE DEF SchemaFails, OpenFails, StartFails, SaveEntityMapFails, Raise, Fault
    <3>1. pc' = "ended" /\ faults' \in 0..MaxFaults
      BY <3>a, <3>b
    <3> QED
      BY <3>1, <3>2 DEF IInv, TypeOK, ProgressOK, Places
  <2> QED
    BY <2>1, <2>2, <2>3 DEF TypeOK
<1>2. AttemptInv' /\ PrefixInv' /\ FileInv'
  BY DEF AttemptInv, PrefixInv, FileInv
<1>3. Committed' /\ CharmIsSaved'
  BY DEF IInv, Committed, Closed, Acyclic, WholeFiles, CharmIsSaved
<1> QED
  BY <1>1, <1>2, <1>3 DEF IInv

LEMMA NextFileStep ==
  ASSUME IInv, NextFile
  PROVE  IInv'
<1> USE DEF NextFile, inputs, store
<1>1. Lists(list', EntitiesOf(file'))
  <2>1. file + 1 \in 1..Files
    BY PopulationAssumption DEF IInv, TypeOK, ProgressOK
  <2> QED
    BY <2>1 DEF IInv, TypeOK, InputsOK
<1>2. Len(list') \in Nat
  BY <1>1, ListFacts
<1>3. TypeOK'
  <2>1. InputsOK'
    BY InputsStay DEF IInv, TypeOK
  <2>2. FlagsOK'
    BY DEF IInv, TypeOK, FlagsOK
  <2>3. ProgressOK'
    BY <1>1, <1>2, PopulationAssumption DEF IInv, TypeOK, ProgressOK, Places
  <2> QED
    BY <2>1, <2>2, <2>3 DEF TypeOK
<1>4. AttemptInv' /\ PrefixInv'
  BY DEF AttemptInv, PrefixInv
<1>5. FileInv'
  BY PopulationAssumption DEF IInv, TypeOK, ProgressOK, FileInv
<1>6. Committed' /\ CharmIsSaved'
  BY DEF IInv, Committed, Closed, Acyclic, WholeFiles, CharmIsSaved
<1> QED
  BY <1>3, <1>4, <1>5, <1>6 DEF IInv

LEMMA EndRunStep ==
  ASSUME IInv, EndRun
  PROVE  IInv'
<1> USE DEF EndRun, inputs, progress, store
<1>1. TypeOK'
  <2>1. InputsOK'
    BY InputsStay DEF IInv, TypeOK
  <2>2. FlagsOK'
    BY DEF IInv, TypeOK, FlagsOK
  <2>3. ProgressOK'
    BY DEF IInv, TypeOK, ProgressOK, Places
  <2> QED
    BY <2>1, <2>2, <2>3 DEF TypeOK
<1>2. AttemptInv' /\ PrefixInv' /\ FileInv'
  BY DEF AttemptInv, PrefixInv, FileInv
<1>3. Committed' /\ CharmIsSaved'
  BY DEF IInv, Committed, Closed, Acyclic, WholeFiles, CharmIsSaved
<1> QED
  BY <1>1, <1>2, <1>3 DEF IInv

(* An empty file is done as soon as it is validated. *)
LEMMA ValidateStep ==
  ASSUME IInv, Validate
  PROVE  IInv'
<1> USE DEF Validate, inputs, progress, store
<1>1. TypeOK'
  <2>1. InputsOK'
    BY InputsStay DEF IInv, TypeOK
  <2>2. FlagsOK'
    BY DEF IInv, TypeOK, FlagsOK
  <2>3. ProgressOK'
    BY DEF IInv, TypeOK, ProgressOK, Places
  <2> QED
    BY <2>1, <2>2, <2>3 DEF TypeOK
<1>2. AttemptInv' /\ PrefixInv'
  BY DEF IInv, AttemptInv, PrefixInv, Sorted
<1>3. Len(list) = 0 => EntitiesOf(file) = {}
  <2>1. EntitiesOf(file) = {list[i] : i \in 1..Len(list)}
    BY ListFacts DEF IInv, TypeOK, ProgressOK
  <2> QED
    BY <2>1
<1>4. FileInv'
  BY <1>3 DEF IInv, PrefixInv, FileInv, Listed, Done
<1>5. Committed' /\ CharmIsSaved'
  BY DEF IInv, Committed, Closed, Acyclic, WholeFiles, CharmIsSaved
<1> QED
  BY <1>1, <1>2, <1>4, <1>5 DEF IInv

LEMMA StartAttemptStep ==
  ASSUME IInv, StartAttempt
  PROVE  IInv'
<1> USE DEF StartAttempt, inputs
<1>1. Len(list) \in Nat
  BY ListFacts DEF IInv, TypeOK, ProgressOK
<1>2. TypeOK'
  <2>1. InputsOK'
    BY InputsStay DEF IInv, TypeOK
  <2>2. FlagsOK'
    BY DEF IInv, TypeOK, FlagsOK
  <2>3. ProgressOK'
    BY <1>1 DEF IInv, TypeOK, ProgressOK, Places
  <2> QED
    BY <2>1, <2>2, <2>3 DEF TypeOK
<1>3. AttemptInv' /\ PrefixInv'
  BY DEF IInv, AttemptInv, PrefixInv, Sorted, Closed, Acyclic
<1>4. FileInv'
  BY DEF IInv, FileInv, Listed, Done
<1>5. Committed' /\ CharmIsSaved'
  BY DEF IInv, Committed, Closed, Acyclic, WholeFiles, CharmIsSaved
<1> QED
  BY <1>2, <1>3, <1>4, <1>5 DEF IInv

LEMMA EndAttemptsStep ==
  ASSUME IInv, EndAttempts
  PROVE  IInv'
<1> USE DEF EndAttempts, inputs, progress, store
<1>1. TypeOK'
  <2>1. InputsOK'
    BY InputsStay DEF IInv, TypeOK
  <2>2. FlagsOK'
    BY DEF IInv, TypeOK, FlagsOK, Persisted
  <2>3. ProgressOK'
    BY DEF IInv, TypeOK, ProgressOK, Places, Persisted
  <2> QED
    BY <2>1, <2>2, <2>3 DEF TypeOK
<1>2. AttemptInv' /\ PrefixInv'
  BY DEF AttemptInv, PrefixInv
<1>3. FileInv'
  BY DEF IInv, FileInv, Persisted, Listed, Done
<1>4. Committed' /\ CharmIsSaved'
  BY DEF IInv, Committed, Closed, Acyclic, WholeFiles, CharmIsSaved
<1> QED
  BY <1>1, <1>2, <1>3, <1>4 DEF IInv

(* The entity that is persisted is a new one, and what it needs is there. *)
LEMMA PersistEntityStep ==
  ASSUME IInv, PersistEntity
  PROVE  IInv'
<1> USE DEF PersistEntity, inputs
<1> DEFINE x == list[position]
<1>1. /\ Len(list) \in Nat /\ DOMAIN list = 1..Len(list)
      /\ list \in [1..Len(list) -> EntitiesOf(file)]
      /\ \A i, j \in 1..Len(list) : list[i] = list[j] => i = j
      /\ position \in 1..Len(list)
  BY ListFacts DEF IInv, TypeOK, ProgressOK, Lists
<1>2. x \in Entities
  BY <1>1 DEF EntitiesOf
<1>3. /\ managed = {list[i] : i \in 1..(position - 1)}
      /\ Closed(managed) /\ Acyclic(managed) /\ Sorted(list, position - 1)
  BY DEF IInv, AttemptInv
<1>4. x \notin managed
  BY <1>1, <1>3
<1>5. needs[x] \subseteq managed
  BY DEF Refused
<1>6. TypeOK'
  <2>1. InputsOK'
    BY InputsStay DEF IInv, TypeOK
  <2>2. FlagsOK'
    BY DEF IInv, TypeOK, FlagsOK
  <2>3. ProgressOK'
    BY <1>1, <1>2 DEF IInv, TypeOK, ProgressOK, Places
  <2> QED
    BY <2>1, <2>2, <2>3 DEF TypeOK
<1>7. managed' = {list[i] : i \in 1..(position' - 1)}
  BY <1>1, <1>3
<1>8. Sorted(list, position' - 1)
  <2> SUFFICES ASSUME NEW i \in 1..position
               PROVE  needs[list[i]] \subseteq {list[j] : j \in 1..(i - 1)}
    BY <1>1 DEF Sorted
  <2>1. CASE i = position
    BY <1>3, <1>5, <2>1
  <2>2. CASE i # position
    BY <1>1, <1>3, <2>2 DEF Sorted
  <2> QED
    BY <2>1, <2>2
<1>9. Acyclic(managed \cup {x}) /\ Closed(managed \cup {x})
  BY <1>3, <1>4, <1>5, AcyclicExtends
<1>10. AttemptInv'
  <2>1. Closed(managed)' /\ Acyclic(managed)'
    BY <1>9 DEF Closed, Acyclic
  <2>2. attempts' < Len(list')
    BY DEF IInv, AttemptInv
  <2>3. Sorted(list, position - 1)'
    BY <1>8 DEF Sorted
  <2> QED
    BY <1>7, <2>1, <2>2, <2>3 DEF AttemptInv
<1>11. PrefixInv'
  BY DEF IInv, PrefixInv, Sorted
<1>12. FileInv'
  BY DEF IInv, FileInv, Listed, Done
<1>13. Committed' /\ CharmIsSaved'
  BY DEF IInv, Committed, Closed, Acyclic, WholeFiles, CharmIsSaved
<1> QED
  BY <1>6, <1>10, <1>11, <1>12, <1>13 DEF IInv

LEMMA DeferEntityStep ==
  ASSUME IInv, DeferEntity
  PROVE  IInv'
<1> USE DEF DeferEntity, inputs
<1>1. /\ Len(list) \in Nat /\ position \in 1..Len(list)
      /\ Lists(list, EntitiesOf(file))
  BY ListFacts DEF IInv, TypeOK, ProgressOK
<1>2. Lists(list', EntitiesOf(file)) /\ Len(list') = Len(list)
  BY <1>1, DeferredList
<1>3. Sorted(list, position - 1)
  BY DEF IInv, AttemptInv
<1>4. Sorted(list', position - 1)
  BY <1>1, <1>3, DeferredSorted
<1>5. TypeOK'
  <2>1. InputsOK'
    BY InputsStay DEF IInv, TypeOK
  <2>2. FlagsOK'
    BY DEF IInv, TypeOK, FlagsOK
  <2>3. ProgressOK'
    <3>1. attempts' \in 0..Len(list') /\ faults' \in 0..MaxFaults
      BY <1>1, <1>2, PopulationAssumption DEF IInv, TypeOK, ProgressOK, AttemptInv, Fault
    <3> QED
      BY <1>1, <1>2, <3>1 DEF IInv, TypeOK, ProgressOK, Places
  <2> QED
    BY <2>1, <2>2, <2>3 DEF TypeOK
<1>6. AttemptInv' /\ PrefixInv'
  BY <1>4 DEF AttemptInv, PrefixInv, Sorted
<1>7. FileInv'
  <2>1. persisted' # Len(list')
    BY <1>1, <1>2
  <2>2. Listed(list') = Listed(list)
    BY <1>1, <1>2 DEF Lists
  <2> QED
    BY <2>1, <2>2 DEF IInv, FileInv
<1>8. Committed' /\ CharmIsSaved'
  BY DEF IInv, Committed, Closed, Acyclic, WholeFiles, CharmIsSaved
<1> QED
  BY <1>5, <1>6, <1>7, <1>8 DEF IInv

(* What is left of an attempt in which everything was persisted. *)
LEMMA EndAttemptFacts ==
  ASSUME IInv, EndAttempt
  PROVE  /\ Len(list) \in Nat /\ position = Len(list) + 1
         /\ managed = EntitiesOf(file) /\ managed \subseteq valid
         /\ Closed(managed) /\ Acyclic(managed)
         /\ Sorted(list, Len(list))
         /\ attempts' \in 0..Len(list)
         /\ file \in 1..Files
<1> USE DEF EndAttempt
<1>1. /\ Len(list) \in Nat /\ position = Len(list) + 1
      /\ Lists(list, EntitiesOf(file))
      /\ attempts' \in 0..Len(list)
      /\ file \in 1..Files
  BY ListFacts, PopulationAssumption DEF IInv, TypeOK, ProgressOK, AttemptInv, FileInv
<1>2. position - 1 = Len(list)
  BY <1>1
<1>3. managed = {list[i] : i \in 1..Len(list)}
  BY <1>2 DEF IInv, AttemptInv
<1>4. managed = EntitiesOf(file) /\ managed \subseteq valid
  BY <1>1, <1>3, ListFacts DEF IInv, FileInv
<1> QED
  BY <1>1, <1>2, <1>4 DEF IInv, AttemptInv

LEMMA EndAttemptStep ==
  ASSUME IInv, EndAttempt, faults' \in 0..MaxFaults,
         lost' \subseteq 1..Files, lost \subseteq lost', rows' \subseteq Entities,
         Done'
  PROVE  TypeOK' /\ AttemptInv' /\ PrefixInv' /\ FileInv'
<1>1. /\ Len(list) \in Nat /\ position = Len(list) + 1
      /\ Sorted(list, Len(list)) /\ attempts' \in 0..Len(list)
  BY EndAttemptFacts
<1>2. /\ pc' = "persist" /\ list' = list /\ file' = file /\ position' = position
      /\ persisted' = Len(list) /\ managed' = {} /\ charm' = charm /\ needs' = needs
      /\ UNCHANGED <<inputs, old, result, charm>> /\ active' = FALSE
  BY <1>1 DEF EndAttempt, inputs
<1>3. TypeOK'
  <2>1. InputsOK'
    BY <1>2, InputsStay DEF IInv, TypeOK
  <2>2. FlagsOK'
    BY <1>2 DEF IInv, TypeOK, FlagsOK
  <2>3. ProgressOK'
    BY <1>1, <1>2 DEF IInv, TypeOK, ProgressOK, Places
  <2> QED
    BY <2>1, <2>2, <2>3 DEF TypeOK
<1>4. AttemptInv' /\ PrefixInv'
  BY <1>1, <1>2 DEF AttemptInv, PrefixInv, Sorted
<1>5. FileInv'
  BY <1>2 DEF IInv, EndAttempt, FileInv, Listed, inputs
<1> QED
  BY <1>3, <1>4, <1>5

LEMMA CommitStep ==
  ASSUME IInv, Commit
  PROVE  IInv'
<1> USE DEF Commit
<1>1. /\ managed = EntitiesOf(file) /\ managed \subseteq valid
      /\ Closed(managed) /\ Acyclic(managed) /\ file \in 1..Files
  BY EndAttemptFacts
<1>2. rows' = rows \cup EntitiesOf(file) /\ lost' = lost /\ faults' = faults
      /\ needs' = needs /\ charm' = charm /\ valid' = valid /\ file' = file
  BY <1>1 DEF EndAttempt, inputs
<1>3. TypeOK' /\ AttemptInv' /\ PrefixInv' /\ FileInv'
  <2>1. Done'
    BY <1>2 DEF Done, EntitiesOf
  <2>2. /\ faults' \in 0..MaxFaults /\ lost' \subseteq 1..Files /\ lost \subseteq lost'
        /\ rows' \subseteq Entities
    BY <1>2 DEF IInv, TypeOK, ProgressOK, EntitiesOf
  <2> QED
    BY <2>1, <2>2, EndAttemptStep
<1>4. Committed'
  <2>1. Closed(rows)' /\ Acyclic(rows)'
    <3>1. Acyclic(rows \cup managed) /\ Closed(rows \cup managed)
      BY <1>1, AcyclicUnion DEF IInv, Committed
    <3> QED
      BY <1>1, <1>2, <3>1 DEF Closed, Acyclic
  <2>2. WholeFiles'
    <3> SUFFICES ASSUME NEW f \in 1..Files
                 PROVE  EntitiesOf(f) \cap rows' \in {{}, EntitiesOf(f)}
      BY DEF WholeFiles, EntitiesOf
    <3>1. CASE f = file
      BY <1>2, <3>1
    <3>2. CASE f # file
      <4>1. EntitiesOf(f) \cap rows' = EntitiesOf(f) \cap rows
        BY <1>2, <3>2 DEF EntitiesOf
      <4> QED
        BY <4>1 DEF IInv, Committed, WholeFiles
    <3> QED
      BY <3>1, <3>2
  <2> QED
    BY <2>1, <2>2 DEF Committed
<1>5. CharmIsSaved'
  <2>1. \A f \in charm' : EntitiesOf(f) \subseteq valid' /\ (EntitiesOf(f) \subseteq rows' \/ f \in lost')
    BY <1>2 DEF IInv, CharmIsSaved
  <2>2. \A e \in rows' : \A f \in 1..(FileOf[e] - 1) : f \in charm'
    <3>1. 1..(file - 1) \subseteq charm
      BY DEF IInv, FileInv, EndAttempt
    <3> QED
      BY <1>2, <3>1 DEF IInv, CharmIsSaved, EntitiesOf
  <2> QED
    BY <2>1, <2>2 DEF CharmIsSaved, EntitiesOf
<1> QED
  BY <1>3, <1>4, <1>5 DEF IInv

LEMMA CommitFailsStep ==
  ASSUME IInv, CommitFails
  PROVE  IInv'
<1> USE DEF CommitFails, Fault
<1>1. /\ rows' = rows /\ lost' = lost \cup {file} /\ faults' \in 0..MaxFaults
      /\ needs' = needs /\ charm' = charm /\ valid' = valid /\ file' = file
  BY PopulationAssumption DEF IInv, TypeOK, ProgressOK, EndAttempt, inputs
<1>2. TypeOK' /\ AttemptInv' /\ PrefixInv' /\ FileInv'
  <2>1. Done'
    BY <1>1 DEF Done, EntitiesOf
  <2>2. lost' \subseteq 1..Files /\ lost \subseteq lost' /\ rows' \subseteq Entities
    BY <1>1, EndAttemptFacts DEF IInv, TypeOK, ProgressOK
  <2> QED
    BY <1>1, <2>1, <2>2, EndAttemptStep
<1>3. Committed' /\ CharmIsSaved'
  BY <1>1 DEF IInv, Committed, Closed, Acyclic, WholeFiles, CharmIsSaved, EntitiesOf
<1> QED
  BY <1>2, <1>3 DEF IInv

LEMMA SaveEntityMapStep ==
  ASSUME IInv, SaveEntityMap
  PROVE  IInv'
<1> USE DEF SaveEntityMap, inputs, progress, store
<1>1. TypeOK'
  <2>1. InputsOK'
    BY InputsStay DEF IInv, TypeOK
  <2>2. FlagsOK'
    BY DEF IInv, TypeOK, FlagsOK
  <2>3. ProgressOK'
    <3>1. charm' \subseteq 1..Files
      BY PopulationAssumption DEF IInv, TypeOK, ProgressOK, FileInv
    <3> QED
      BY <3>1 DEF IInv, TypeOK, ProgressOK, Places
  <2> QED
    BY <2>1, <2>2, <2>3 DEF TypeOK
<1>2. AttemptInv' /\ PrefixInv'
  BY DEF AttemptInv, PrefixInv
<1>3. FileInv'
  BY PopulationAssumption DEF IInv, TypeOK, ProgressOK, FileInv
<1>4. Committed'
  BY DEF IInv, Committed, Closed, Acyclic, WholeFiles
<1>5. CharmIsSaved'
  <2>1. EntitiesOf(file) = Listed(list)
    BY DEF IInv, TypeOK, ProgressOK, Lists
  <2> QED
    BY <2>1 DEF IInv, CharmIsSaved, FileInv, Done
<1> QED
  BY <1>1, <1>2, <1>3, <1>4, <1>5 DEF IInv

LEMMA StepIInv == IInv /\ [Next]_vars => IInv'
<1> SUFFICES ASSUME IInv, [Next]_vars PROVE IInv'
  OBVIOUS
<1>1. CASE UNCHANGED vars
  <2> USE <1>1 DEF vars, inputs, progress, store
  <2>1. TypeOK'
    <3>1. InputsOK'
      BY InputsStay DEF IInv, TypeOK
    <3>2. FlagsOK'
      BY DEF IInv, TypeOK, FlagsOK
    <3>3. ProgressOK'
      BY DEF IInv, TypeOK, ProgressOK, Places
    <3> QED
      BY <3>1, <3>2, <3>3 DEF TypeOK
  <2>2. AttemptInv'
    BY DEF IInv, AttemptInv, Closed, Acyclic, Sorted
  <2>3. PrefixInv'
    BY DEF IInv, PrefixInv, Sorted
  <2>4. FileInv'
    BY DEF IInv, FileInv, Done, Listed
  <2>5. Committed' /\ CharmIsSaved'
    BY DEF IInv, Committed, Closed, Acyclic, WholeFiles, CharmIsSaved
  <2> QED
    BY <2>1, <2>2, <2>3, <2>4, <2>5 DEF IInv
<1>2. CASE Export \/ DropSchema \/ CreateSchema
  BY <1>2, SchemaStep
<1>3. CASE SchemaFails \/ OpenFails \/ StartFails \/ SaveEntityMapFails
  BY <1>3, RaiseStep
<1>4. CASE NextFile
  BY <1>4, NextFileStep
<1>5. CASE EndRun
  BY <1>5, EndRunStep
<1>6. CASE Validate
  BY <1>6, ValidateStep
<1>7. CASE StartAttempt
  BY <1>7, StartAttemptStep
<1>8. CASE EndAttempts
  BY <1>8, EndAttemptsStep
<1>9. CASE PersistEntity
  BY <1>9, PersistEntityStep
<1>10. CASE DeferEntity
  BY <1>10, DeferEntityStep
<1>11. CASE Commit
  BY <1>11, CommitStep
<1>12. CASE CommitFails
  BY <1>12, CommitFailsStep
<1>13. CASE SaveEntityMap
  BY <1>13, SaveEntityMapStep
<1> QED
  BY <1>1, <1>2, <1>3, <1>4, <1>5, <1>6, <1>7, <1>8, <1>9, <1>10, <1>11, <1>12,
     <1>13 DEF Next

LEMMA InvariantIInv == Spec => []IInv
<1> QED
  BY InitIInv, StepIInv, PTL DEF Spec

-----------------------------------------------------------------------------
(* The variables of the populator keep their types: in particular, the     *)
(* list keeps exactly the entities of the file while they are deferred     *)
(* (DatabasePopulator.tryPersist).                                         *)
THEOREM TypeCorrect == Spec => []TypeOK
<1>1. IInv => TypeOK
  BY DEF IInv
<1> QED
  BY <1>1, InvariantIInv, PTL

(* Files of any size are committed as a whole or not at all, whatever      *)
(* fails (one transaction per attempt).                                    *)
THEOREM FilesAreWhole == Spec => []WholeFiles
<1>1. IInv => WholeFiles
  BY DEF IInv, Committed
<1> QED
  BY <1>1, InvariantIInv, PTL

(* Whatever is committed could be persisted in some order of its           *)
(* references: no committed entities need each other in a circle.          *)
THEOREM ReferencesAreInOrder == Spec => []InOrder
<1>1. IInv => InOrder
  BY DEF IInv, Committed, Acyclic, InOrder
<1> QED
  BY <1>1, InvariantIInv, PTL

(* What was reported is valid and committed, unless the commit failed, and *)
(* no file is committed before the earlier ones were reported.             *)
THEOREM ReportsAreTrue == Spec => []CharmIsSaved
<1>1. IInv => CharmIsSaved
  BY DEF IInv
<1> QED
  BY <1>1, InvariantIInv, PTL

(* As long as nothing else fails, an attempt never persists fewer entities *)
(* than the one before it, however many there are.                         *)
LEMMA AdvanceStep ==
  ASSUME IInv, [Next]_vars, faults' = 0, file' = file
  PROVE  persisted' >= persisted
<1>0. persisted \in Nat
  BY ListFacts DEF IInv, TypeOK, ProgressOK
<1>1. CASE DeferEntity
  <2> USE <1>1 DEF DeferEntity
  <2>1. Refused(list[position])
    BY DEF IInv, TypeOK, ProgressOK, Fault
  <2>2. position \in Nat /\ persisted' = position - 1
    BY ListFacts DEF IInv, TypeOK, ProgressOK
  <2>3. ~(needs[list[position]] \subseteq {list[i] : i \in 1..(position - 1)})
    BY <2>1 DEF Refused, IInv, AttemptInv
  <2>4. Sorted(list, persisted)
    BY DEF IInv, PrefixInv
  <2>5. ~(position \in 1..persisted)
    BY <2>3, <2>4 DEF Sorted
  <2> QED
    BY <1>0, <2>2, <2>5, ListFacts DEF IInv, TypeOK, ProgressOK
<1>2. CASE EndAttempt
  BY <1>0, <1>2, EndAttemptFacts DEF IInv, TypeOK, ProgressOK, EndAttempt
<1>3. CASE NextFile
  BY <1>3, PopulationAssumption DEF NextFile, IInv, TypeOK, ProgressOK
<1>4. CASE persisted' = persisted
  BY <1>0, <1>4
<1> QED
  BY <1>1, <1>2, <1>3, <1>4
  DEF Next, vars, inputs, progress, store, Export, DropSchema, CreateSchema,
      SchemaFails, OpenFails, EndRun, Validate, StartAttempt, StartFails,
      EndAttempts, PersistEntity, Commit, CommitFails, SaveEntityMap,
      SaveEntityMapFails

THEOREM AttemptsDoAdvance == Spec => AttemptsAdvance
<1>1. IInv /\ [Next]_vars => [faults' = 0 /\ file' = file => persisted' >= persisted]_vars
  BY AdvanceStep
<1> QED
  BY <1>1, InvariantIInv, PTL DEF Spec, AttemptsAdvance

-----------------------------------------------------------------------------
(* The limit on the attempts does no harm to files that are almost sorted. *)
(* The list is then at all times a front, in the order of the declaration, *)
(* and a back, the entities that were deferred; those need only what comes *)
(* before them and will not be deferred any more.                          *)

InFront(d, l, n) == \A i, j \in 1..n : i < j => Precedes(d, l[i], l[j])

AtBack(l, n, k, M) ==
  \A i \in (n + 1)..Len(l) :
    /\ l[i] \in M
    /\ \A x \in needs[l[i]] \cap M : \E j \in 1..k \cup (n + 1)..(i - 1) : l[j] = x

(* Every attempt so far has moved one entity from the front to the back. *)
MoveInv ==
  pc \in {"validate", "persist", "attempt"} /\ faults = 0 /\ persisted # Len(list) =>
    \A M \in SUBSET Entities : SortedBut(declared[file], M) =>
      /\ InFront(declared[file], list, Len(list) - attempts)
      /\ AtBack(list, Len(list) - attempts, persisted, M)

(* The inputs with which nothing can go wrong. *)
Easy == valid = Entities /\ \A f \in 1..Files : AlmostSorted(declared[f])

ResultInv == faults = 0 /\ Easy => result

LEMMA PrecedesOrders ==
  ASSUME NEW S, NEW l, Lists(l, S), NEW x, NEW y, Precedes(l, x, y)
  PROVE  x \in S /\ y \in S /\ x # y /\ ~Precedes(l, y, x)
<1>1. /\ Len(l) \in Nat /\ DOMAIN l = 1..Len(l) /\ l \in [1..Len(l) -> S]
      /\ \A i, j \in 1..Len(l) : l[i] = l[j] => i = j
  BY ListFacts DEF Lists
<1>2. PICK i \in 1..Len(l), j \in 1..Len(l) : i < j /\ l[i] = x /\ l[j] = y
  BY <1>1 DEF Precedes
<1>3. x \in S /\ y \in S /\ x # y
  BY <1>1, <1>2
<1>4. ASSUME NEW a \in 1..Len(l), NEW b \in 1..Len(l), a < b, l[a] = y, l[b] = x
      PROVE  FALSE
  <2>1. a = j /\ b = i
    BY <1>1, <1>2, <1>4
  <2> QED
    BY <1>1, <1>2, <1>4, <2>1
<1> QED
  BY <1>1, <1>3, <1>4 DEF Precedes

(* An entity of the back is never refused, one of the front that is        *)
(* refused belongs to M, and it may go to the back.                        *)
LEMMA MoveOne ==
  ASSUME NEW S, NEW d, Lists(d, S), NEW l, Lists(l, S),
         \A e \in S : needs[e] \subseteq S \ {e},
         NEW M, SortedBut(d, M),
         NEW n \in Nat, n <= Len(l), NEW k \in Nat, k <= Len(l), NEW p \in 1..Len(l),
         InFront(d, l, n), AtBack(l, n, k, M), Sorted(l, k),
         ~(needs[l[p]] \subseteq {l[j] : j \in 1..(p - 1)})
  PROVE  /\ p <= n
         /\ InFront(d, Deferred(l, p), n - 1)
         /\ AtBack(Deferred(l, p), n - 1, p - 1, M)
<1> DEFINE L == Len(l)
           e == l[p]
<1>1. /\ L \in Nat /\ l \in [1..L -> S] /\ S = {l[i] : i \in 1..L}
      /\ \A i, j \in 1..L : l[i] = l[j] => i = j
      /\ Listed(d) = S
  <2>1. /\ L \in Nat /\ l \in [1..L -> S] /\ S = {l[i] : i \in 1..L}
        /\ DOMAIN l = 1..L
    BY ListFacts
  <2> QED
    BY <2>1 DEF Lists
<1> HIDE DEF L
<1>a. /\ p \in 1..L /\ n <= L /\ k <= L
      /\ \A i \in (n + 1)..L :
           /\ l[i] \in M
           /\ \A x \in needs[l[i]] \cap M : \E j \in 1..k \cup (n + 1)..(i - 1) : l[j] = x
  BY DEF L, AtBack
<1>2. k < p
  <2> SUFFICES ASSUME p <= k PROVE FALSE
    BY <1>1, <1>a
  <2>1. p \in 1..k
    BY <1>1, <1>a
  <2> QED
    BY <2>1 DEF Sorted
<1>3. \A x \in S \ M : \E j \in 1..n : l[j] = x
  <2> SUFFICES ASSUME NEW x \in S \ M PROVE \E j \in 1..n : l[j] = x
    OBVIOUS
  <2>1. PICK j \in 1..L : l[j] = x
    BY <1>1
  <2>2. ~(j \in (n + 1)..L)
    BY <1>a, <2>1
  <2> QED
    BY <1>1, <2>1, <2>2
<1>4. p <= n
  <2> SUFFICES ASSUME p > n PROVE FALSE
    BY <1>1
  <2>1. p \in (n + 1)..L
    BY <1>1, <1>a
  <2>2. ASSUME NEW x \in needs[e] PROVE \E j \in 1..(p - 1) : l[j] = x
    <3>1. CASE x \in M
      <4>1. PICK j \in 1..k \cup (n + 1)..(p - 1) : l[j] = x
        BY <1>a, <2>1, <2>2, <3>1
      <4>2. j \in 1..(p - 1)
        BY <1>1, <1>2, <4>1
      <4> QED
        BY <4>1, <4>2
    <3>2. CASE x \notin M
      <4>1. PICK j \in 1..n : l[j] = x
        BY <1>1, <1>3, <1>a, <2>2, <3>2
      <4>2. j \in 1..(p - 1)
        BY <1>1, <4>1
      <4> QED
        BY <4>1, <4>2
    <3> QED
      BY <3>1, <3>2
  <2> QED
    BY <2>2
<1>5. ASSUME NEW j \in 1..n, Precedes(d, l[j], e)
      PROVE  j < p
  <2>1. l[j] # e /\ ~Precedes(d, e, l[j])
    BY <1>5, PrecedesOrders
  <2> QED
    BY <1>1, <1>4, <1>5, <2>1 DEF InFront
<1>6. e \in S /\ e \in Listed(d)
  BY <1>1, <1>a
<1>7. e \in M
  <2> SUFFICES ASSUME e \notin M PROVE FALSE
    OBVIOUS
  <2>1. ASSUME NEW x \in needs[e] PROVE \E j \in 1..(p - 1) : l[j] = x
    <3>1. x \notin M /\ Precedes(d, x, e) /\ x \in S
      BY <1>6, <2>1 DEF SortedBut
    <3>2. PICK j \in 1..n : l[j] = x
      BY <1>3, <3>1
    <3>3. j < p
      BY <1>5, <3>1, <3>2
    <3> QED
      BY <1>1, <3>2, <3>3
  <2> QED
    BY <2>1
<1> DEFINE m == Deferred(l, p)
<1>8. /\ Len(m) = L
      /\ \A i \in 1..L : m[i] = IF i < p THEN l[i] ELSE IF i < L THEN l[i + 1] ELSE e
  BY <1>1, DeferredList DEF Deferred, L
<1> HIDE DEF m
<1>9. InFront(d, m, n - 1)
  <2> SUFFICES ASSUME NEW i \in 1..(n - 1), NEW j \in 1..(n - 1), i < j
               PROVE  Precedes(d, m[i], m[j])
    BY DEF InFront
  <2> DEFINE at(q) == IF q < p THEN q ELSE q + 1
  <2>1. at(i) \in 1..n /\ at(j) \in 1..n /\ at(i) < at(j)
    BY <1>1, <1>4, <1>a
  <2>2. m[i] = l[at(i)] /\ m[j] = l[at(j)]
    BY <1>1, <1>4, <1>8, <1>a
  <2> QED
    BY <2>1, <2>2 DEF InFront
<1>10. AtBack(m, n - 1, p - 1, M)
  <2> SUFFICES ASSUME NEW i \in n..L
               PROVE  /\ m[i] \in M
                      /\ \A x \in needs[m[i]] \cap M :
                           \E j \in 1..(p - 1) \cup n..(i - 1) : m[j] = x
    BY <1>8 DEF AtBack
  <2>1. CASE i < L
    <3>1. i + 1 \in (n + 1)..L /\ m[i] = l[i + 1]
      BY <1>1, <1>4, <1>8, <1>a, <2>1
    <3>2. ASSUME NEW x \in needs[m[i]] \cap M
          PROVE  \E j \in 1..(p - 1) \cup n..(i - 1) : m[j] = x
      <4>1. PICK j \in 1..k \cup (n + 1)..i : l[j] = x
        BY <1>1, <1>a, <3>1, <3>2
      <4>2. CASE j \in 1..k
        <5>1. j \in 1..(p - 1) /\ m[j] = x
          BY <1>1, <1>2, <1>8, <1>a, <4>1, <4>2
        <5> QED
          BY <5>1
      <4>3. CASE j \in (n + 1)..i
        <5>1. j - 1 \in n..(i - 1) /\ j - 1 \in p..(L - 1)
          BY <1>1, <1>4, <1>a, <2>1, <4>3
        <5>2. m[j - 1] = l[(j - 1) + 1]
          BY <1>1, <1>8, <1>a, <5>1
        <5>3. m[j - 1] = x
          BY <1>1, <4>1, <4>3, <5>2
        <5> QED
          BY <5>1, <5>3
      <4> QED
        BY <4>1, <4>2, <4>3
    <3> QED
      BY <1>a, <3>1, <3>2
  <2>2. CASE i = L
    <3>1. m[i] = e
      BY <1>1, <1>8, <1>a, <2>2
    <3>2. ASSUME NEW x \in needs[e] \cap M
          PROVE  \E j \in 1..(p - 1) \cup n..(i - 1) : m[j] = x
      <4>1. Precedes(d, x, e) /\ x \in S
        BY <1>6, <1>7, <3>2 DEF SortedBut
      <4>2. PICK j \in 1..L : l[j] = x
        BY <1>1, <4>1
      <4>3. CASE j <= n
        <5>1. j < p
          BY <1>1, <1>5, <4>1, <4>2, <4>3
        <5>2. j \in 1..(p - 1) /\ m[j] = x
          BY <1>1, <1>8, <4>2, <5>1
        <5> QED
          BY <5>2
      <4>4. CASE j > n
        <5>1. j - 1 \in n..(i - 1) /\ m[j - 1] = x
          BY <1>1, <1>4, <1>8, <1>a, <2>2, <4>2, <4>4
        <5> QED
          BY <5>1
      <4> QED
        BY <1>1, <4>2, <4>3, <4>4
    <3> QED
      BY <1>7, <3>1, <3>2
  <2> QED
    BY <1>1, <1>4, <1>a, <2>1, <2>2
<1> QED
  BY <1>4, <1>9, <1>10 DEF m

LEMMA MoveKept ==
  ASSUME MoveInv, UNCHANGED <<inputs, file, list, attempts, persisted, faults>>,
         pc' \in {"validate", "persist", "attempt"} =>
           pc \in {"validate", "persist", "attempt"}
  PROVE  MoveInv'
<1>1. \A M : SortedBut(declared[file], M)' <=> SortedBut(declared[file], M)
  BY DEF SortedBut, Listed, Precedes, inputs
<1>2. InFront(declared[file], list, Len(list) - attempts)'
        <=> InFront(declared[file], list, Len(list) - attempts)
  BY DEF InFront, Precedes, inputs
<1>3. \A M : AtBack(list, Len(list) - attempts, persisted, M)'
        <=> AtBack(list, Len(list) - attempts, persisted, M)
  BY DEF AtBack, inputs
<1> QED
  BY <1>1, <1>2, <1>3 DEF MoveInv

(* At first everything is in front. *)
LEMMA NextFileMove ==
  ASSUME IInv, NextFile
  PROVE  MoveInv'
<1>1. /\ file + 1 \in 1..Files /\ file' = file + 1
      /\ list' = declared'[file'] /\ attempts' = 0
  BY PopulationAssumption DEF NextFile, IInv, TypeOK, ProgressOK, inputs
<1> DEFINE d == declared[file + 1]
<1>2. /\ Len(d) \in Nat /\ DOMAIN d = 1..Len(d)
  <2>1. Lists(d, EntitiesOf(file + 1))
    BY <1>1 DEF IInv, TypeOK, InputsOK
  <2> QED
    BY <2>1, ListFacts
<1>3. list' = d /\ declared'[file'] = d /\ Len(list') - attempts' = Len(d)
  BY <1>1, <1>2 DEF NextFile, inputs
<1>4. \A i, j \in 1..Len(d) : i < j => Precedes(d, d[i], d[j])
  BY <1>2 DEF Precedes
<1> HIDE DEF d
<1>5. InFront(declared[file], list, Len(list) - attempts)'
  BY <1>3, <1>4 DEF InFront, Precedes
<1>6. \A M : AtBack(list, Len(list) - attempts, persisted, M)'
  BY <1>2, <1>3 DEF AtBack
<1> QED
  BY <1>5, <1>6 DEF MoveInv

LEMMA DeferEntityMove ==
  ASSUME IInv, MoveInv, DeferEntity
  PROVE  MoveInv'
<1> DEFINE d == declared[file]
           n == Len(list) - attempts
<1>1. /\ pc = "attempt" /\ list' = Deferred(list, position)
      /\ persisted' = position - 1 /\ attempts' = attempts + 1
      /\ UNCHANGED <<needs, declared, file>>
  BY DEF DeferEntity, inputs
<1>2. /\ Lists(list, EntitiesOf(file)) /\ Len(list) \in Nat
      /\ position \in 1..Len(list) /\ attempts \in 0..Len(list)
      /\ persisted \in 0..Len(list) /\ attempts < Len(list)
  BY ListFacts DEF IInv, TypeOK, ProgressOK, AttemptInv, DeferEntity
<1>3. Lists(d, EntitiesOf(file)) /\ \A e \in EntitiesOf(file) : needs[e] \subseteq EntitiesOf(file) \ {e}
  <2>1. file \in 1..Files
    BY <1>1, PopulationAssumption DEF IInv, TypeOK, ProgressOK, FileInv
  <2> QED
    BY <2>1 DEF IInv, TypeOK, InputsOK, EntitiesOf
<1>4. Len(list') - attempts' = n - 1
  <2>1. Len(list') = Len(list)
    BY <1>1, <1>2, DeferredList
  <2> QED
    BY <1>1, <1>2, <2>1
<1>5. n \in Nat /\ n <= Len(list)
  BY <1>2
<1> HIDE DEF n
<1> SUFFICES ASSUME faults' = 0, NEW M \in SUBSET Entities, SortedBut(d, M)
             PROVE  /\ InFront(d, list', n - 1)
                    /\ AtBack(list', n - 1, persisted', M)
  <2>1. \A M : SortedBut(declared[file], M)' <=> SortedBut(d, M)
    BY <1>1 DEF SortedBut, Listed, Precedes
  <2>2. InFront(declared[file], list, Len(list) - attempts)' <=> InFront(d, list', n - 1)
    BY <1>1, <1>4 DEF InFront, Precedes
  <2>3. \A M : AtBack(list, Len(list) - attempts, persisted, M)'
                <=> AtBack(list', n - 1, persisted', M)
    BY <1>1, <1>4 DEF AtBack
  <2> QED
    BY <2>1, <2>2, <2>3, Zenon DEF MoveInv
<1>6. faults = 0 /\ ~(needs[list[position]] \subseteq {list[i] : i \in 1..(position - 1)})
  <2>1. Refused(list[position]) /\ faults = 0
    BY DEF DeferEntity, Fault, IInv, TypeOK, ProgressOK
  <2> QED
    BY <1>1, <2>1 DEF Refused, IInv, AttemptInv
<1>7. Sorted(list, persisted) /\ Sorted(list, position - 1)
  BY <1>1 DEF IInv, PrefixInv, AttemptInv
<1>8. persisted # Len(list)
  <2> SUFFICES ASSUME persisted = Len(list) PROVE FALSE
    OBVIOUS
  <2> QED
    BY <1>2, <1>6, <1>7 DEF Sorted
<1>9. InFront(d, list, n) /\ AtBack(list, n, persisted, M)
  BY <1>1, <1>6, <1>8 DEF MoveInv, n
<1>10. /\ InFront(d, Deferred(list, position), n - 1)
       /\ AtBack(Deferred(list, position), n - 1, position - 1, M)
  <2> HIDE DEF d
  <2>1. persisted \in Nat /\ persisted <= Len(list)
    BY <1>2
  <2> QED
    BY <1>2, <1>3, <1>5, <1>6, <1>7, <1>9, <2>1, MoveOne
<1> QED
  BY <1>1, <1>10

(* The attempts suffice: not everything can have gone to the back. *)
LEMMA AttemptsSuffice ==
  ASSUME IInv, MoveInv, faults = 0, Easy, pc = "persist", persisted # Len(list)
  PROVE  attempts # Len(list)
<1> SUFFICES ASSUME attempts = Len(list) PROVE FALSE
  OBVIOUS
<1> DEFINE d == declared[file]
<1>1. file \in 1..Files
  BY PopulationAssumption DEF IInv, TypeOK, ProgressOK, FileInv
<1>2. /\ Len(list) \in Nat /\ Len(list) > 0
      /\ Listed(d) = EntitiesOf(file) /\ EntitiesOf(file) \subseteq Entities
      /\ EntitiesOf(file) = {list[i] : i \in 1..Len(list)}
      /\ \A e \in EntitiesOf(file) : needs[e] \subseteq EntitiesOf(file)
  <2>1. /\ Len(list) \in Nat /\ persisted \in 0..Len(list)
        /\ EntitiesOf(file) = {list[i] : i \in 1..Len(list)}
    BY ListFacts DEF IInv, TypeOK, ProgressOK
  <2>2. Listed(d) = EntitiesOf(file) /\ EntitiesOf(file) \subseteq Entities
    BY <1>1 DEF IInv, TypeOK, InputsOK, Lists, EntitiesOf
  <2>3. \A e \in EntitiesOf(file) : needs[e] \subseteq EntitiesOf(file)
    BY <1>1 DEF IInv, TypeOK, InputsOK, EntitiesOf
  <2>4. Len(list) > 0
    BY <2>1
  <2> QED
    BY <2>1, <2>2, <2>3, <2>4
<1>3. \A M \in SUBSET Entities : SortedBut(d, M) => \A i \in 1..Len(list) : list[i] \in M
  BY <1>2 DEF MoveInv, AtBack
<1>4. PICK M \in SUBSET Listed(d) : SortedBut(d, M)
  BY <1>1 DEF Easy, AlmostSorted
<1>5. M = Listed(d)
  BY <1>2, <1>3, <1>4
<1>6. SortedBut(d, {})
  BY <1>2, <1>4, <1>5 DEF SortedBut
<1> QED
  BY <1>2, <1>3, <1>6

LEMMA MoveStep ==
  ASSUME IInv, MoveInv, [Next]_vars
  PROVE  MoveInv'
<1>1. CASE NextFile
  BY <1>1, NextFileMove
<1>2. CASE DeferEntity
  BY <1>2, DeferEntityMove
<1>3. CASE Commit \/ CommitFails
  <2>1. EndAttempt
    BY <1>3 DEF Commit, CommitFails
  <2>2. persisted' = Len(list')
    <3>1. Len(list) \in Nat /\ position = Len(list) + 1
      BY <2>1, EndAttemptFacts
    <3> QED
      BY <2>1, <3>1 DEF EndAttempt
  <2> QED
    BY <2>2 DEF MoveInv
<1>4. CASE Validate \/ StartAttempt \/ PersistEntity \/ UNCHANGED vars
  BY <1>4, MoveKept DEF Validate, StartAttempt, PersistEntity, vars, inputs, progress, store
<1>5. CASE \/ Export \/ DropSchema \/ CreateSchema \/ SchemaFails \/ OpenFails \/ EndRun
           \/ StartFails \/ EndAttempts \/ SaveEntityMap \/ SaveEntityMapFails
  BY <1>5 DEF MoveInv, Export, DropSchema, CreateSchema, SchemaFails, OpenFails, EndRun,
              StartFails, EndAttempts, SaveEntityMap, SaveEntityMapFails, Raise
<1> QED
  BY <1>1, <1>2, <1>3, <1>4, <1>5 DEF Next

LEMMA EasyKept ==
  ASSUME UNCHANGED inputs
  PROVE  Easy' <=> Easy
BY DEF inputs, Easy, AlmostSorted, SortedBut, Listed, Precedes

LEMMA ResultStep ==
  ASSUME IInv, MoveInv, ResultInv, [Next]_vars
  PROVE  ResultInv'
<1> SUFFICES ASSUME faults' = 0, Easy' PROVE result'
  BY DEF ResultInv
<1>1. UNCHANGED inputs
  BY DEF Next, Export, DropSchema, CreateSchema, SchemaFails, NextFile, OpenFails, EndRun,
         Validate, StartAttempt, StartFails, EndAttempts, PersistEntity, DeferEntity,
         Commit, CommitFails, EndAttempt, SaveEntityMap, SaveEntityMapFails, vars
<1>2. faults \in Nat
  BY PopulationAssumption DEF IInv, TypeOK, ProgressOK
<1>3. ~Fault /\ faults = 0
  <2>1. UNCHANGED faults \/ Fault
    BY DEF Next, Export, DropSchema, CreateSchema, SchemaFails, NextFile, OpenFails,
           EndRun, Validate, StartAttempt, StartFails, EndAttempts, PersistEntity, DeferEntity,
           Commit, CommitFails, EndAttempt, SaveEntityMap, SaveEntityMapFails, vars
  <2>2. ~Fault
    BY <1>2 DEF Fault
  <2> QED
    BY <2>1, <2>2
<1>4. Easy /\ result
  BY <1>1, <1>3, EasyKept DEF ResultInv
<1>5. CASE Validate
  <2>1. Listed(list) \subseteq valid
    BY <1>4 DEF Easy, IInv, TypeOK, ProgressOK, Lists, EntitiesOf
  <2> QED
    BY <1>4, <1>5, <2>1 DEF Validate
<1>6. CASE EndAttempts
  BY <1>3, <1>4, <1>6, AttemptsSuffice DEF EndAttempts, Persisted
<1> QED
  BY <1>3, <1>4, <1>5, <1>6
  DEF Next, Export, DropSchema, CreateSchema, SchemaFails, NextFile, OpenFails, EndRun,
      StartAttempt, StartFails, PersistEntity, DeferEntity,
      Commit, CommitFails, EndAttempt, SaveEntityMap, SaveEntityMapFails, vars

(* Files of any size in which what is declared too early needs nothing     *)
(* that must be deferred behind it are persisted, when nothing else fails  *)
(* (persist: as many attempts as entities; both files of the repository).  *)
THEOREM AlmostSortedFilesAreSafe == Spec => []AlmostSortedIsPersisted
<1>1. Init => MoveInv /\ ResultInv
  BY DEF Init, Start, MoveInv, ResultInv
<1>2. MoveInv /\ ResultInv /\ IInv /\ [Next]_vars => MoveInv' /\ ResultInv'
  BY MoveStep, ResultStep
<1>3. ResultInv => AlmostSortedIsPersisted
  BY DEF ResultInv, Easy, AlmostSortedIsPersisted
<1> QED
  BY <1>1, <1>2, <1>3, InvariantIInv, PTL DEF Spec

-----------------------------------------------------------------------------
(* What is left to do, as four numbers: files, stages of the current one,  *)
(* attempts at it, and entities of the attempt.                            *)

Stage ==
  [export |-> 7, drop |-> 6, create |-> 5, validate |-> 4, persist |-> 3,
   attempt |-> 3, save |-> 2, next |-> 1, ended |-> 0]

FilesLeft == Files - file
StagesLeft == Stage[pc]
AttemptsLeft == IF pc \in {"persist", "attempt"} THEN Len(list) - attempts ELSE 0
EntitiesLeft ==
  CASE pc = "persist" -> Len(list) + 1
    [] pc = "attempt" -> Len(list) + 1 - position
    [] OTHER -> 0

(* The first of the four that changes gets smaller. *)
LessLeft ==
  \/ FilesLeft' < FilesLeft
  \/ /\ FilesLeft' = FilesLeft
     /\ \/ StagesLeft' < StagesLeft
        \/ /\ StagesLeft' = StagesLeft
           /\ \/ AttemptsLeft' < AttemptsLeft
              \/ AttemptsLeft' = AttemptsLeft /\ EntitiesLeft' < EntitiesLeft

LeftOK ==
  /\ FilesLeft \in Nat /\ StagesLeft \in Nat
  /\ AttemptsLeft \in Nat /\ EntitiesLeft \in Nat

LEMMA LeftIsNat == IInv => LeftOK
<1> SUFFICES ASSUME IInv PROVE LeftOK
  OBVIOUS
<1>1. /\ Len(list) \in Nat /\ file \in 0..Files /\ pc \in Places
      /\ attempts \in 0..Len(list) /\ position \in 1..(Len(list) + 1)
  BY ListFacts DEF IInv, TypeOK, ProgressOK
<1>2. FilesLeft \in Nat /\ AttemptsLeft \in Nat
  BY <1>1, PopulationAssumption DEF FilesLeft, AttemptsLeft
<1>3. StagesLeft \in Nat
  BY <1>1 DEF StagesLeft, Stage, Places
<1>4. EntitiesLeft \in Nat
  <2>1. CASE pc = "persist"
    BY <1>1, <2>1 DEF EntitiesLeft
  <2>2. CASE pc = "attempt"
    BY <1>1, <2>2 DEF EntitiesLeft
  <2>3. CASE pc \notin {"persist", "attempt"}
    BY <2>3 DEF EntitiesLeft
  <2> QED
    BY <2>1, <2>2, <2>3
<1> QED
  BY <1>2, <1>3, <1>4 DEF LeftOK

LEMMA LessStep ==
  ASSUME IInv, Next
  PROVE  LessLeft
<1>1. /\ Len(list) \in Nat /\ file \in 0..Files /\ Files \in Nat /\ pc \in Places
      /\ attempts \in 0..Len(list) /\ position \in 1..(Len(list) + 1)
  BY ListFacts, PopulationAssumption DEF IInv, TypeOK, ProgressOK
<1>2. CASE NextFile
  BY <1>1, <1>2 DEF NextFile, LessLeft, FilesLeft
<1>3. CASE \/ Export \/ DropSchema \/ CreateSchema \/ SchemaFails \/ OpenFails \/ EndRun
           \/ Validate \/ StartFails \/ EndAttempts \/ SaveEntityMap \/ SaveEntityMapFails
  <2>1. file' = file
    BY <1>3 DEF Export, DropSchema, CreateSchema, SchemaFails, OpenFails, EndRun, Validate,
                StartFails, EndAttempts, SaveEntityMap, SaveEntityMapFails, progress
  <2>2. Stage[pc'] < Stage[pc]
    <3>1. \/ pc = "export" /\ pc' = "drop"
          \/ pc = "drop" /\ pc' = "create"
          \/ pc = "create" /\ pc' = "next"
          \/ pc \in {"export", "drop", "create", "next", "persist", "save"} /\ pc' = "ended"
          \/ pc = "validate" /\ pc' \in {"persist", "save"}
          \/ pc = "persist" /\ pc' = "save"
          \/ pc = "save" /\ pc' = "next"
      BY <1>3
      DEF Export, DropSchema, CreateSchema, SchemaFails, OpenFails, EndRun, Validate,
          StartFails, EndAttempts, SaveEntityMap, SaveEntityMapFails, Raise
    <3>2. /\ Stage["export"] = 7 /\ Stage["drop"] = 6 /\ Stage["create"] = 5
          /\ Stage["validate"] = 4 /\ Stage["persist"] = 3 /\ Stage["save"] = 2
          /\ Stage["next"] = 1 /\ Stage["ended"] = 0
      BY DEF Stage
    <3> QED
      BY <3>1, <3>2
  <2> QED
    BY <2>1, <2>2 DEF LessLeft, FilesLeft, StagesLeft
<1>4. CASE StartAttempt
  <2>1. /\ pc = "persist" /\ pc' = "attempt" /\ position' = 1
        /\ UNCHANGED <<file, list, attempts>>
    BY <1>4 DEF StartAttempt
  <2>2. EntitiesLeft' = Len(list) /\ EntitiesLeft = Len(list) + 1
    BY <1>1, <2>1 DEF EntitiesLeft
  <2>3. Stage["attempt"] = Stage["persist"]
    BY DEF Stage
  <2> QED
    BY <1>1, <2>1, <2>2, <2>3 DEF LessLeft, FilesLeft, StagesLeft, AttemptsLeft
<1>5. CASE PersistEntity
  <2>1. /\ pc = "attempt" /\ pc' = "attempt" /\ position' = position + 1
        /\ UNCHANGED <<file, list, attempts>>
    BY <1>5 DEF PersistEntity
  <2>2. EntitiesLeft = Len(list) + 1 - position /\ EntitiesLeft' = Len(list) + 1 - (position + 1)
    BY <1>1, <2>1 DEF EntitiesLeft
  <2> QED
    BY <1>1, <2>1, <2>2 DEF LessLeft, FilesLeft, StagesLeft, AttemptsLeft
<1>6. CASE DeferEntity \/ Commit \/ CommitFails
  <2>1. /\ pc = "attempt" /\ pc' = "persist" /\ attempts' = attempts + 1 /\ file' = file
    BY <1>6 DEF DeferEntity, Commit, CommitFails, EndAttempt
  <2>2. Len(list') = Len(list)
    <3>1. CASE DeferEntity
      <4>1. Lists(list, EntitiesOf(file)) /\ position \in 1..Len(list)
        BY <1>1, <3>1 DEF DeferEntity, IInv, TypeOK, ProgressOK
      <4> QED
        BY <3>1, <4>1, DeferredList DEF DeferEntity
    <3>2. CASE Commit \/ CommitFails
      BY <3>2 DEF Commit, CommitFails, EndAttempt
    <3> QED
      BY <1>6, <3>1, <3>2
  <2>3. AttemptsLeft = Len(list) - attempts /\ AttemptsLeft' = Len(list) - (attempts + 1)
    BY <1>1, <2>1, <2>2 DEF AttemptsLeft
  <2>4. Stage["attempt"] = Stage["persist"]
    BY DEF Stage
  <2> QED
    BY <1>1, <2>1, <2>3, <2>4 DEF LessLeft, FilesLeft, StagesLeft
<1> QED
  BY <1>2, <1>3, <1>4, <1>5, <1>6 DEF Next

(* The populator cannot go on for ever: every step, failures included,     *)
(* leaves less to do in a lexicographic order of four natural numbers      *)
(* (run, populate, persist and tryPersist, the loops within each other).   *)
THEOREM LoopsAreBounded == Spec => []LeftOK /\ [][LessLeft]_vars
<1>1. IInv /\ [Next]_vars => [LessLeft]_vars
  BY LessStep
<1> QED
  BY <1>1, LeftIsNat, InvariantIInv, PTL DEF Spec
=============================================================================
