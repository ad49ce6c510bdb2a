----------------------------- MODULE Population -----------------------------
(***************************************************************************)
(* How the tables are populated (DatabasePopulator, DatabaseUtil, and the  *)
(* commands --database:populate-* of Launcher): the schema is dropped and  *)
(* created, and then the entities of each file are persisted, one file     *)
(* after the other.                                                        *)
(*                                                                         *)
(* An entity can be persisted only after the entities that it must         *)
(* reference.  The files do not have to list them in that order: an        *)
(* attempt persists the entities of the list from the first on, in one     *)
(* transaction; the one that cannot be persisted goes to the end of the    *)
(* list and everything is rolled back, for the next attempt.  There are as *)
(* many attempts as entities.                                              *)
(*                                                                         *)
(* Files, references and which entities are valid are inputs: Init chooses *)
(* them and no step changes them.  A command to the database or a commit   *)
(* may fail, at most MaxFaults times.                                      *)
(***************************************************************************)
EXTENDS Naturals, Sequences

CONSTANTS
  Entities,     \* the entities that the files declare
  Files,        \* how many files there are: 1 for --database:populate-initial, 2 for -sample
  FileOf,       \* the file of each entity
  MaxFaults     \* bound: how many commands fail

ASSUME PopulationAssumption ==
  /\ Files \in Nat
  /\ FileOf \in [Entities -> 1..Files]
  /\ MaxFaults \in Nat

VARIABLES
  needs,        \* input: the entities that each one must reference
  valid,        \* input: the entities that pass their validation
  declared,     \* input: the entities of each file, in the order in which it declares them
  pc,           \* where the populator is
  old,          \* whether rows of an earlier population are left
  file,         \* the file that is populated
  list,         \* entityList: its entities, in the order in which they are tried
  attempts,     \* attemptCounter
  persisted,    \* persistedCounter: how many entities the last attempt persisted
  position,     \* the next entity to persist in this attempt
  managed,      \* the entities that the current transaction has persisted
  active,       \* isTransactionActive()
  rows,         \* the entities that are committed
  result,       \* what populate() or, at the end, run() returns
  charm,        \* the files of which it was said "Everything worked like a charm!"
  lost,         \* the files whose commit failed
  faults        \* how many commands have failed

inputs == <<needs, valid, declared>>
progress == <<file, list, attempts, persisted, position>>
store == <<old, managed, active, rows, lost>>
vars == <<inputs, pc, progress, store, result, charm, faults>>

EntitiesOf(f) == {e \in Entities : FileOf[e] = f}
Listed(l) == {l[i] : i \in DOMAIN l}

(* l is a sequence of the elements of S without repetitions. *)
Lists(l, S) ==
  /\ l \in Seq(S)
  /\ Listed(l) = S
  /\ \A i, j \in DOMAIN l : l[i] = l[j] => i = j

Places == {"export", "drop", "create", "next", "validate", "persist",
           "attempt", "save", "ended"}

InputsOK ==
  /\ needs \in [Entities -> SUBSET Entities]
  /\ \A e \in Entities : needs[e] \subseteq EntitiesOf(FileOf[e]) \ {e}
  /\ valid \in SUBSET Entities
  /\ DOMAIN declared = 1..Files
  /\ \A f \in 1..Files : Lists(declared[f], EntitiesOf(f))

FlagsOK ==
  /\ old \in BOOLEAN
  /\ active \in BOOLEAN
  /\ result \in BOOLEAN

ProgressOK ==
  /\ pc \in Places
  /\ file \in 0..Files
  /\ Lists(list, EntitiesOf(file))
  /\ attempts \in 0..Len(list)
  /\ persisted \in 0..Len(list)
  /\ position \in 1..(Len(list) + 1)
  /\ managed \subseteq Entities
  /\ rows \subseteq Entities
  /\ charm \subseteq 1..Files
  /\ lost \subseteq 1..Files
  /\ faults \in 0..MaxFaults

TypeOK == InputsOK /\ FlagsOK /\ ProgressOK

Start ==
  /\ pc = "export"
  /\ old \in BOOLEAN
  /\ file = 0
  /\ list = <<>>
  /\ attempts = 0
  /\ persisted = 0
  /\ position = 1
  /\ managed = {}
  /\ active = FALSE
  /\ rows = {}
  /\ result = TRUE
  /\ charm = {}
  /\ lost = {}
  /\ faults = 0

Init == InputsOK /\ Start

-----------------------------------------------------------------------------
Fault ==
  /\ faults < MaxFaults
  /\ faults' = faults + 1

(* An exception reaches run(), which returns false. *)
Raise ==
  /\ pc' = "ended"
  /\ result' = FALSE

(* run() up to the first file: the scripts are exported; the tables are    *)
(* dropped and created, each in a transaction of its own; and the old      *)
(* entity map is deleted.                                                  *)
Export ==
  /\ pc = "export"
  /\ pc' = "drop"
  /\ UNCHANGED <<inputs, progress, store, result, charm, faults>>

DropSchema ==
  /\ pc = "drop"
  /\ old' = FALSE
  /\ pc' = "create"
  /\ UNCHANGED <<inputs, progress, managed, active, rows, lost, result, charm, faults>>

CreateSchema ==
  /\ pc = "create"
  /\ pc' = "next"
  /\ UNCHANGED <<inputs, progress, store, result, charm, faults>>

(* A command of a script fails.  Every command commits, so the rollback    *)
(* does not bring back the tables that were dropped before.                *)
SchemaFails ==
  /\ pc \in {"export", "drop", "create"}
  /\ Fault
  /\ old' \in IF pc = "drop" THEN {old, FALSE} ELSE {old}
  /\ Raise
  /\ UNCHANGED <<inputs, progress, managed, active, rows, lost, charm>>

(* Mutant: result = populate(...), so a file that fails does not stop the rest. *)
MutNextFileAnyway ==
  /\ pc = "next"
  /\ file < Files
  /\ file' = file + 1
  /\ list' = declared[file + 1]
  /\ attempts' = 0
  /\ persisted' = 0
  /\ position' = 1
  /\ pc' = "validate"
  /\ result' = TRUE
  /\ UNCHANGED <<inputs, store, charm, faults>>

(* The loop of run(): a file is populated unless an earlier one failed. *)
NextFile ==
  /\ pc = "next"
  /\ result
  /\ file < Files
  /\ file' = file + 1
  /\ list' = declared[file + 1]
  /\ attempts' = 0
  /\ persisted' = 0
  /\ position' = 1
  /\ pc' = "validate"
  /\ UNCHANGED <<inputs, store, result, charm, faults>>

(* The context of a file cannot be read: its entity map is not saved. *)
OpenFails ==
  /\ pc = "next"
  /\ result
  /\ file < Files
  /\ Fault
  /\ Raise
  /\ UNCHANGED <<inputs, progress, store, charm>>

EndRun ==
  /\ pc = "next"
  /\ ~result \/ file = Files
  /\ pc' = "ended"
  /\ UNCHANGED <<inputs, progress, store, result, charm, faults>>

Validate ==
  /\ pc = "validate"
  /\ IF Listed(list) \subseteq valid
     THEN pc' = "persist" /\ UNCHANGED result
     ELSE pc' = "save" /\ result' = FALSE
  /\ UNCHANGED <<inputs, progress, store, charm, faults>>

-----------------------------------------------------------------------------
(* persist(): the loop over the attempts. *)
Persisted == persisted = Len(list)

StartAttempt ==
  /\ pc = "persist"
  /\ ~Persisted
  /\ attempts < Len(list)
  /\ position' = 1
  /\ active' = TRUE
  /\ managed' = {}
  /\ pc' = "attempt"
  /\ UNCHANGED <<inputs, file, list, attempts, persisted, old, rows, lost,
                 result, charm, faults>>

(* No transaction can be started: the file is left and run() returns       *)
(* false.  The failure may come after the transaction was created.         *)
StartFails ==
  /\ pc = "persist"
  /\ ~Persisted
  /\ attempts < Len(list)
  /\ Fault
  /\ active' \in BOOLEAN
  /\ Raise
  /\ UNCHANGED <<inputs, progress, old, managed, rows, lost, charm>>

EndAttempts ==
  /\ pc = "persist"
  /\ Persisted \/ attempts = Len(list)
  /\ result' = Persisted
  /\ pc' = "save"
  /\ UNCHANGED <<inputs, progress, store, charm, faults>>

(* tryPersist(): EntityManager.persist refuses an entity with a mandatory  *)
(* reference to one that has not been persisted in this transaction.       *)
Refused(e) == ~(needs[e] \subseteq managed)

(* Mutant: the entity that is deferred is removed, but not added again. *)
MutDeferredLost(l, k) ==
  [i \in 1..(Len(l) - 1) |-> IF i < k THEN l[i] ELSE l[i + 1]]

(* Mutant: addFirst instead of addLast. *)
MutDeferredFirst(l, k) ==
  [i \in 1..Len(l) |-> IF i = 1 THEN l[k] ELSE IF i <= k THEN l[i - 1] ELSE l[i]]

(* Mutant: the entity that is deferred changes places with the next one. *)
MutDeferredNext(l, k) ==
  [i \in 1..Len(l) |-> IF i = k /\ k < Len(l) THEN l[k + 1]
                       ELSE IF i = k + 1 THEN l[k]
                       ELSE l[i]]

(* entityList.remove(k) and addLast. *)
Deferred(l, k) ==
  [i \in 1..Len(l) |-> IF i < k THEN l[i]
                       ELSE IF i < Len(l) THEN l[i + 1]
                       ELSE l[k]]

PersistEntity ==
  /\ pc = "attempt"
  /\ position <= Len(list)
  /\ ~Refused(list[position])
  /\ managed' = managed \cup {list[position]}
  /\ position' = position + 1
  /\ UNCHANGED <<inputs, pc, file, list, attempts, persisted, old, active,
                 rows, lost, result, charm, faults>>

(* Mutant: what the attempt has persisted is committed, not rolled back. *)
MutDeferCommits ==
  /\ pc = "attempt"
  /\ position <= Len(list)
  /\ \/ Refused(list[position]) /\ UNCHANGED faults
     \/ Fault
  /\ list' = Deferred(list, position)
  /\ persisted' = position - 1
  /\ attempts' = attempts + 1
  /\ managed' = {}
  /\ active' = FALSE
  /\ rows' = rows \cup managed
  /\ pc' = "persist"
  /\ UNCHANGED <<inputs, file, position, old, lost, result, charm>>

(* Mutant: the catch block goes on with the next entity. *)
MutDeferSkips ==
  /\ pc = "attempt"
  /\ position <= Len(list)
  /\ \/ Refused(list[position]) /\ UNCHANGED faults
     \/ Fault
  /\ managed' = managed \cup {list[position]}
  /\ position' = position + 1
  /\ UNCHANGED <<inputs, pc, file, list, attempts, persisted, old, active,
                 rows, lost, result, charm>>

(* Mutant: an attempt that fails is not counted. *)
MutDeferUncounted ==
  /\ pc = "attempt"
  /\ position <= Len(list)
  /\ \/ Refused(list[position]) /\ UNCHANGED faults
     \/ Fault
  /\ list' = Deferred(list, position)
  /\ persisted' = position - 1
  /\ managed' = {}
  /\ active' = FALSE
  /\ pc' = "persist"
  /\ UNCHANGED <<inputs, attempts, file, position, old, rows, lost, result, charm>>

(* Any failure of persist is taken for an entity that comes too early. *)
DeferEntity ==
  /\ pc = "attempt"
  /\ position <= Len(list)
  /\ \/ Refused(list[position]) /\ UNCHANGED faults
     \/ Fault
  /\ list' = Deferred(list, position)
  /\ persisted' = position - 1
  /\ attempts' = attempts + 1
  /\ managed' = {}
  /\ active' = FALSE
  /\ pc' = "persist"
  /\ UNCHANGED <<inputs, file, position, old, rows, lost, result, charm>>

(* Once everything is persisted the transaction commits.                   *)
EndAttempt ==
  /\ pc = "attempt"
  /\ position > Len(list)
  /\ persisted' = position - 1
  /\ attempts' = attempts + 1
  /\ managed' = {}
  /\ active' = FALSE
  /\ pc' = "persist"
  /\ UNCHANGED <<inputs, file, list, position, old, result, charm>>

Commit ==
  /\ EndAttempt
  /\ rows' = rows \cup managed
  /\ UNCHANGED <<lost, faults>>

(* commitTransaction() prints the exception of a commit and goes on. *)
CommitFails ==
  /\ EndAttempt
  /\ Fault
  /\ lost' = lost \cup {file}
  /\ UNCHANGED rows

(* The end of populate(): the entity map is appended, whatever the result. *)
SaveEntityMap ==
  /\ pc = "save"
  /\ charm' = IF result THEN charm \cup {file} ELSE charm
  /\ pc' = "next"
  /\ UNCHANGED <<inputs, progress, store, result, faults>>

SaveEntityMapFails ==
  /\ pc = "save"
  /\ Fault
  /\ Raise
  /\ UNCHANGED <<inputs, progress, store, charm>>

-----------------------------------------------------------------------------
Next ==
  \/ Export \/ DropSchema \/ CreateSchema \/ SchemaFails
  \/ NextFile \/ OpenFails \/ EndRun
  \/ Validate
  \/ StartAttempt \/ StartFails \/ EndAttempts
  \/ PersistEntity \/ DeferEntity \/ Commit \/ CommitFails
  \/ SaveEntityMap \/ SaveEntityMapFails

Spec == Init /\ [][Next]_vars

(* One thread runs it: it takes a step whenever it can. *)
FairSpec == Spec /\ WF_vars(Next)

-----------------------------------------------------------------------------
(* The rows of a file are committed all together or not at all, however    *)
(* many attempts it takes and whatever fails (tryPersist: one transaction  *)
(* per attempt, rolled back as soon as an entity is deferred).             *)
WholeFiles ==
  \A f \in 1..Files : EntitiesOf(f) \cap rows \in {{}, EntitiesOf(f)}

(* No committed entity lacks one that it must reference, directly or not:  *)
(* the rows of a file were persisted in an order in which every entity     *)
(* comes after those it needs, so a file whose mandatory references go     *)
(* round in a circle is never committed.                                   *)
InOrder ==
  \A S \in SUBSET rows : S # {} => \E e \in S : needs[e] \cap S = {}

(* "Everything worked like a charm!" is said of a file only when all its   *)
(* entities are valid and committed, unless its commit has failed: that    *)
(* failure is swallowed.  A file is only committed after the earlier ones  *)
(* were reported so.                                                       *)
CharmIsSaved ==
  /\ \A f \in charm : EntitiesOf(f) \subseteq valid /\ (EntitiesOf(f) \subseteq rows \/ f \in lost)
  /\ \A e \in rows : \A f \in 1..(FileOf[e] - 1) : f \in charm

(* The attempts at a file advance: as long as no command fails, none       *)
(* persists fewer entities than the one before.  tryPersist counts on it:  *)
(* it gets the last count as a threshold and only reports the entities     *)
(* beyond it as new.                                                       *)
AttemptsAdvance ==
  [][faults' = 0 /\ file' = file => persisted' >= persisted]_vars

(* The populator ends, whatever the files contain and whatever fails. *)
Ends == <>(pc = "ended")

(* "I couldn't persist your entities.  First, mend the validation errors,  *)
(* if any. [...] there is an *:* association in which the entities are not *)
(* properly linked": so valid entities whose mandatory references do not   *)
(* go round in a circle are persisted, when nothing else fails.            *)
Acyclic(S) ==
  \A T \in SUBSET S : T # {} => \E e \in T : needs[e] \cap T = {}

SoundFilesArePersisted ==
  pc = "ended" /\ faults = 0 /\ valid = Entities /\ Acyclic(Entities) => result

Precedes(l, x, y) == \E i, j \in DOMAIN l : i < j /\ l[i] = x /\ l[j] = y

(* l is sorted but for the entities of M: the others need none of them and *)
(* come after what they need, and M is in order among itself.  Both files  *)
(* of the repository are: in sample-data.xml M has 16 of 86 entities.      *)
SortedBut(l, M) ==
  \A e \in Listed(l) : \A x \in needs[e] :
    /\ e \notin M => x \notin M
    /\ e \notin M \/ x \in M => Precedes(l, x, e)

AlmostSorted(l) == \E M \in SUBSET Listed(l) : SortedBut(l, M)

(* Where the limit on the attempts does no harm: files whose entities have *)
(* to be deferred once at the most are persisted, when nothing else fails. *)
AlmostSortedIsPersisted ==
  pc = "ended" /\ faults = 0 /\ valid = Entities
    /\ (\A f \in 1..Files : AlmostSorted(declared[f])) => result
=============================================================================
