----------------------- MODULE AccountSessionsProofs -----------------------
(***************************************************************************)
(* Roles and Principals for any number of accounts, sessions, threads and  *)
(* classes of roles.  The invariant IInv says what a Principal in use, a   *)
(* request on its way and the context of its session know of one another.  *)
(***************************************************************************)
EXTENDS AccountSessions, TLAPS

RowInv ==
  /\ OneRolePerClass
  /\ \A i \in RoleIds : role[i] # None => role[i].account \in registered
  /\ \A a \in registered : \E i \in RoleIds :
       role[i] = [account |-> a, class |-> Authenticated]

(* A Principal, however old, is a part of the table of roles. *)
Correct(p) ==
  /\ p.account \in registered
  /\ Authenticated \in DOMAIN p.roleMap
  /\ p.active \in DOMAIN p.roleMap
  /\ \A c \in DOMAIN p.roleMap :
       role[p.roleMap[c]] = [account |-> p.account, class |-> c]

HeapInv == \A p \in Principals : heap[p] # None => Correct(heap[p])

(* A request works with the Principal it began with until it has saved. *)
Reading(t) == pc[t] \in {"use", "authorise", "save"}

(* Everything that is referred to is there. *)
ReferenceInv ==
  /\ \A s \in Sessions : context[s] # None => heap[context[s]] # None
  /\ \A t \in Threads :
       /\ pc[t] # "idle" => req[t] # None
       /\ Reading(t) => req[t].principal \in Principals /\ heap[req[t].principal] # None
       /\ Active(t) /\ ~Reading(t) => req[t].principal = None
       /\ pc[t] = "set" => req[t].fresh \in Principals /\ heap[req[t].fresh] # None
       /\ req[t] # None /\ req[t].session # None => context[req[t].session] # None

(* What a request does, and what it knows of the rows. *)
CommandInv ==
  \A t \in Threads :
    /\ pc[t] = "use" => req[t].command = "use"
    /\ Active(t) /\ pc[t] # "use" => req[t].command # "use"
    /\ Active(t) /\ req[t].command = "create" => req[t].class \in Classes

SavingInv ==
  /\ \A t \in Threads : pc[t] = "save" /\ req[t].command = "create" =>
       \/ RolesOfClass(heap[req[t].principal].account, req[t].class) = {}
       \/ <<heap[req[t].principal].account, req[t].class>> \in doubled
  /\ \A t \in Threads :
       /\ pc[t] \in {"load", "set"} /\ req[t].command = "create"
       /\ req[t].alone /\ req[t].session # None
       => RolesOfClass(heap[context[req[t].session]].account, req[t].class) # {}

(* Who shares a Principal, or a session, is not alone. *)
SharingInv ==
  /\ \A s, z \in Sessions : context[s] # None /\ context[s] = context[z] => s = z
  /\ \A t \in Threads : Active(t) =>
       \A u \in Threads \ {t} : Active(u) /\ req[u].session = req[t].session =>
         req[t].session = None \/ ~req[t].alone
  /\ \A t \in Threads : Reading(t) =>
       /\ \A u \in Threads \ {t} :
            Reading(u) /\ req[u].principal = req[t].principal => ~req[t].alone
       /\ \A s \in Sessions : context[s] = req[t].principal => req[t].session = s
       /\ req[t].alone /\ req[t].session # None =>
            context[req[t].session] = req[t].principal

(* A Principal that is about to be put into a context is known to the      *)
(* request that made it, and to nobody else.                               *)
FreshInv ==
  \A t \in Threads : pc[t] = "set" =>
    /\ \A s \in Sessions : context[s] # req[t].fresh
    /\ \A u \in Threads : Reading(u) => req[u].principal # req[t].fresh
    /\ \A u \in Threads \ {t} : pc[u] = "set" => req[u].fresh # req[t].fresh

OwnInv ==
  \A t \in Threads : pc[t] = "use" /\ req[t].alone =>
    heap[req[t].principal].active = req[t].class

LearnInv ==
  /\ \A t \in Threads :
       pc[t] = "set" /\ req[t].command = "create" /\ req[t].alone /\ req[t].session # None =>
         req[t].class \in DOMAIN heap[req[t].fresh].roleMap
  /\ \A t, u \in Threads :
       /\ pc[t] = "done" /\ req[t].session # None
       /\ pc[u] = "set" /\ req[u].session = req[t].session
       => req[t].class \in DOMAIN heap[req[u].fresh].roleMap
  /\ SessionLearnsRole

IInv ==
  /\ TypeOK
  /\ RowInv
  /\ HeapInv
  /\ ReferenceInv
  /\ CommandInv
  /\ SavingInv
  /\ SharingInv
  /\ FreshInv
  /\ OwnInv
  /\ LearnInv

-----------------------------------------------------------------------------
(* Helpers. *)

LEMMA NewPrincipalIsCorrect ==
  ASSUME TypeOK, RowInv, NEW a \in registered, NEW q \in NewPrincipals(a)
  PROVE  /\ q \in Principal
         /\ Correct(q)
         /\ q.account = a /\ q.active = Authenticated
         /\ \A c \in Roles : RolesOfClass(a, c) # {} => c \in DOMAIN q.roleMap
<1> DEFINE D == {role[i].class : i \in RolesOf(a)}
<1>1. a \in Accounts /\ RolesOf(a) \subseteq RoleIds
  BY DEF TypeOK, RolesOf
<1>2. \A i \in RolesOf(a) : role[i] \in Row /\ role[i].account = a
  BY DEF TypeOK, RolesOf
<1>3. D \in SUBSET Roles
  BY <1>2 DEF Row
<1>4. PICK m \in [D -> RolesOf(a)] :
        /\ \A c \in DOMAIN m : role[m[c]].class = c
        /\ q = [account |-> a, active |-> Authenticated, roleMap |-> m]
  BY DEF NewPrincipals, RoleMaps
<1>5. m \in [D -> RoleIds] /\ DOMAIN m = D
  BY <1>1, <1>4
<1>7. Authenticated \in D
  <2>1. PICK i \in RoleIds : role[i] = [account |-> a, class |-> Authenticated]
    BY DEF RowInv
  <2>2. role[i] # None
    BY <1>1, <2>1, NoneAssumption DEF Row, Roles
  <2> QED
    BY <2>1, <2>2 DEF RolesOf
<1>8. \A c \in Roles : RolesOfClass(a, c) # {} => c \in D
  BY DEF RolesOfClass
<1> HIDE DEF D
<1>9. q \in Principal
  BY <1>1, <1>3, <1>4, <1>5 DEF Principal, Roles
<1>10. \A c \in D : role[m[c]] = [account |-> a, class |-> c]
  BY <1>2, <1>4 DEF Row
<1>11. Correct(q)
  BY <1>4, <1>5, <1>7, <1>10 DEF Correct
<1> QED
  BY <1>4, <1>5, <1>8, <1>9, <1>11

LEMMA RolesKept ==
  ASSUME UNCHANGED role
  PROVE  \A a, c : RolesOfClass(a, c)' = RolesOfClass(a, c)
BY DEF RolesOfClass, RolesOf

(* Rows are never changed, so a correct Principal stays correct. *)
LEMMA CorrectStaysCorrect ==
  ASSUME TypeOK, registered \subseteq registered',
         \A i \in RoleIds : role[i] # None => role'[i] = role[i],
         NEW p \in Principal, Correct(p)
  PROVE  Correct(p)'
<1>1. \A c \in DOMAIN p.roleMap : p.roleMap[c] \in RoleIds /\ c \in Roles
  BY DEF Principal
<1>2. \A c \in DOMAIN p.roleMap : [account |-> p.account, class |-> c] \in Row
  BY <1>1 DEF Row, Principal
<1>3. \A c \in DOMAIN p.roleMap : role[p.roleMap[c]] # None
  <2>1. None \notin Row
    BY NoneAssumption
  <2>2. \A c \in DOMAIN p.roleMap : role[p.roleMap[c]] = [account |-> p.account, class |-> c]
    BY DEF Correct
  <2> QED
    BY <1>2, <2>1, <2>2
<1> QED
  BY <1>1, <1>3 DEF Correct

LEMMA HeapStaysCorrect ==
  ASSUME IInv, UNCHANGED database,
         \A p \in Principals : heap'[p] = heap[p] \/ heap'[p] = None
  PROVE  HeapInv'
<1> SUFFICES ASSUME NEW p \in Principals, heap'[p] # None PROVE Correct(heap[p])'
  BY DEF HeapInv, Correct
<1> QED
  BY DEF IInv, HeapInv, Correct, database

LEMMA RowsUnchanged ==
  ASSUME IInv, UNCHANGED database
  PROVE  RowInv'
BY DEF IInv, RowInv, OneRolePerClass, database

LEMMA RequestTypes ==
  ASSUME TypeOK, NEW t \in Threads, req[t] # None
  PROVE  /\ req[t] \in Request
         /\ req[t].session # None => req[t].session \in Sessions
BY DEF TypeOK, Request

LEMMA SessionIsSignedIn ==
  ASSUME IInv, NEW t \in Threads, req[t] # None, req[t].session # None
  PROVE  /\ req[t].session \in Sessions
         /\ context[req[t].session] \in Principals
         /\ heap[context[req[t].session]] # None
<1>1. req[t].session \in Sessions /\ context[req[t].session] # None
  BY RequestTypes DEF IInv, ReferenceInv
<1> QED
  BY <1>1 DEF IInv, TypeOK, ReferenceInv

LEMMA HeapPut ==
  ASSUME IInv, UNCHANGED database, NEW f \in Principals, NEW a \in registered,
         NEW q \in NewPrincipals(a), heap' = [heap EXCEPT ![f] = q]
  PROVE  /\ heap' \in [Principals -> Principal \cup {None}]
         /\ heap'[f] = q /\ heap'[f] # None
         /\ \A p \in Principals \ {f} : heap'[p] = heap[p]
         /\ HeapInv'
<1>1. heap \in [Principals -> Principal \cup {None}]
  BY DEF IInv, TypeOK
<1>2. q \in Principal /\ Correct(q)
  BY NewPrincipalIsCorrect DEF IInv
<1>3. None \notin Principal
  BY NoneAssumption
<1>4. /\ heap' \in [Principals -> Principal \cup {None}]
      /\ heap'[f] = q /\ heap'[f] # None
      /\ \A p \in Principals \ {f} : heap'[p] = heap[p]
  BY <1>1, <1>2, <1>3
<1>5. HeapInv'
  <2> SUFFICES ASSUME NEW p \in Principals, heap'[p] # None PROVE Correct(heap[p])'
    BY DEF HeapInv, Correct
  <2>1. CASE p = f
    BY <1>2, <1>4, <2>1 DEF Correct, database
  <2>2. CASE p # f
    BY <1>4, <2>2 DEF IInv, HeapInv, Correct, database
  <2> QED
    BY <2>1, <2>2
<1> QED
  BY <1>4, <1>5

(* What a session or a request on its way knows is not collected. *)
LEMMA CollectKeeps ==
  ASSUME IInv, Collect
  PROVE  /\ heap' \in [Principals -> Principal \cup {None}]
         /\ \A p \in Principals : heap'[p] = heap[p] \/ heap'[p] = None
         /\ \A s \in Sessions : context'[s] \in Principals =>
              heap'[context'[s]] = heap[context'[s]]
         /\ \A t \in Threads : Active(t)' /\ req'[t].principal \in Principals =>
              heap'[req'[t].principal] = heap[req'[t].principal]
         /\ \A t \in Threads : Active(t)' /\ req'[t].fresh \in Principals =>
              heap'[req'[t].fresh] = heap[req'[t].fresh]
<1>1. heap' = [p \in Principals |-> IF Referenced(p)' THEN heap[p] ELSE None]
  BY DEF Collect
<1>2. \A p \in Principals : (\E s \in Sessions : context'[s] = p) => heap'[p] = heap[p]
  BY <1>1 DEF Referenced
<1>3. \A p \in Principals :
        (\E t \in Threads : Active(t)' /\ req'[t].principal = p) => heap'[p] = heap[p]
  BY <1>1 DEF Referenced
<1>4. \A p \in Principals :
        (\E t \in Threads : Active(t)' /\ req'[t].fresh = p) => heap'[p] = heap[p]
  BY <1>1 DEF Referenced
<1>5. heap' \in [Principals -> Principal \cup {None}]
  BY <1>1 DEF IInv, TypeOK
<1>6. \A p \in Principals : heap'[p] = heap[p] \/ heap'[p] = None
  BY <1>1
<1> QED
  BY <1>2, <1>3, <1>4, <1>5, <1>6

-----------------------------------------------------------------------------
(* One lemma per action. *)

LEMMA AuthoriseStep ==
  ASSUME IInv, NEW t \in Threads, Authorise(t)
  PROVE  IInv'
<1>1. /\ pc[t] = "authorise" /\ pc' = [pc EXCEPT ![t] = "save"]
      /\ UNCHANGED <<registered, role, doubled, heap, context, req>>
  BY DEF Authorise, Go, database
<1>2. req[t].command = "create" =>
        RolesOfClass(heap[req[t].principal].account, req[t].class) = {}
  BY DEF Authorise
<1>3. TypeOK'
  BY <1>1 DEF IInv, TypeOK, Labels
<1>4. pc' \in [Threads -> Labels] /\ pc \in [Threads -> Labels]
  BY <1>3 DEF IInv, TypeOK
<1>5. \A u \in Threads : (Active(u)' <=> Active(u)) /\ (Reading(u)' <=> Reading(u))
  BY <1>1, <1>4 DEF Active, Reading
<1>6. \A u \in Threads : pc'[u] = pc[u] \/ (u = t /\ pc'[u] = "save")
  BY <1>1, <1>4
<1>7. RowInv' /\ HeapInv'
  BY <1>1, RowsUnchanged, HeapStaysCorrect DEF database
<1>8. ReferenceInv'
  BY <1>1, <1>5, <1>6 DEF IInv, ReferenceInv
<1>9. CommandInv'
  BY <1>1, <1>5, <1>6 DEF IInv, CommandInv, Active
<1>10. SavingInv'
  BY <1>1, <1>2, <1>6 DEF IInv, SavingInv, RolesOfClass, RolesOf
<1>11. SharingInv' /\ FreshInv'
  BY <1>1, <1>5, <1>6 DEF IInv, SharingInv, FreshInv
<1>12. OwnInv' /\ LearnInv'
  BY <1>1, <1>6 DEF IInv, OwnInv, LearnInv, SessionLearnsRole
<1> QED
  BY <1>3, <1>7, <1>8, <1>9, <1>10, <1>11, <1>12 DEF IInv

(* A request that fails, or has only read, ends. *)
LEMMA EndStep ==
  ASSUME IInv, NEW t \in Threads, Active(t), Collect,
         pc' = [pc EXCEPT ![t] = "idle"], req' = [req EXCEPT ![t] = None],
         UNCHANGED <<database, context>>
  PROVE  IInv'
<1>1. UNCHANGED <<registered, role, doubled, context>>
  BY DEF database
<1>2. /\ pc \in [Threads -> Labels] /\ req \in [Threads -> Request \cup {None}]
      /\ context \in [Sessions -> Principals \cup {None}]
  BY DEF IInv, TypeOK
<1>3. /\ pc'[t] = "idle" /\ req'[t] = None
      /\ \A u \in Threads \ {t} : pc'[u] = pc[u] /\ req'[u] = req[u]
  BY <1>2
<1>4. \A u \in Threads :
        /\ Active(u)' <=> u # t /\ Active(u)
        /\ Reading(u)' <=> u # t /\ Reading(u)
  BY <1>3 DEF Active, Reading
<1>5. \A u \in Threads : Reading(u) \/ pc[u] = "set" => Active(u)
  BY DEF Active, Reading
<1>6. \A p \in Principals : heap'[p] = heap[p] \/ heap'[p] = None
  BY CollectKeeps
<1>7. /\ \A s \in Sessions : context[s] # None => heap'[context[s]] = heap[context[s]]
      /\ \A u \in Threads \ {t} : Reading(u) => heap'[req[u].principal] = heap[req[u].principal]
      /\ \A u \in Threads \ {t} : pc[u] = "set" => heap'[req[u].fresh] = heap[req[u].fresh]
  BY <1>1, <1>2, <1>3, <1>4, <1>5, CollectKeeps DEF IInv, ReferenceInv
<1>8. TypeOK'
  BY <1>1, <1>2, CollectKeeps DEF IInv, TypeOK, Labels
<1>9. RowInv' /\ HeapInv'
  BY <1>6, RowsUnchanged, HeapStaysCorrect
<1>10. ReferenceInv'
  BY <1>1, <1>3, <1>4, <1>7 DEF IInv, ReferenceInv
<1>11. CommandInv'
  BY <1>3, <1>4 DEF IInv, CommandInv
<1>16. \A u \in Threads : req[u] # None /\ req[u].session # None =>
         /\ req[u].session \in Sessions
         /\ context[req[u].session] # None
  BY RequestTypes DEF IInv, ReferenceInv
<1>12. SavingInv'
  <2>1. \A u \in Threads \ {t} : pc[u] = "save" => Reading(u)
    BY DEF Reading
  <2>2. \A u \in Threads \ {t} : pc[u] \in {"load", "set"} => req[u] # None
    BY DEF IInv, ReferenceInv
  <2> QED
    BY <1>1, <1>3, <1>7, <1>16, <2>1, <2>2 DEF IInv, SavingInv, RolesOfClass, RolesOf
<1>13. SharingInv' /\ FreshInv'
  BY <1>1, <1>3, <1>4 DEF IInv, SharingInv, FreshInv
<1>14. OwnInv'
  <2>1. \A u \in Threads \ {t} : pc[u] = "use" => Reading(u)
    BY DEF Reading
  <2> QED
    BY <1>3, <1>7, <2>1 DEF IInv, OwnInv
<1>15. LearnInv'
  BY <1>1, <1>3, <1>7, <1>16 DEF IInv, LearnInv, SessionLearnsRole, ReferenceInv
<1> QED
  BY <1>8, <1>9, <1>10, <1>11, <1>12, <1>13, <1>14, <1>15 DEF IInv

LEMMA FailStep ==
  ASSUME IInv, NEW t \in Threads, Fail(t)
  PROVE  IInv'
BY EndStep DEF Fail, Go

LEMMA UseStep ==
  ASSUME IInv, NEW t \in Threads, Use(t)
  PROVE  IInv'
<1>1. Active(t) /\ req[t].command # "create"
  BY DEF Use, Active, IInv, CommandInv
<1> QED
  BY <1>1, EndStep DEF Use, Answer, Go

LEMMA NewRow ==
  ASSUME IInv, NEW i \in RoleIds, role[i] = None,
         NEW r \in Row, role' = [role EXCEPT ![i] = r]
  PROVE  /\ role' \in [RoleIds -> Row \cup {None}]
         /\ role'[i] = r /\ r # None
         /\ \A j \in RoleIds \ {i} : role'[j] = role[j]
<1>1. role \in [RoleIds -> Row \cup {None}]
  BY DEF IInv, TypeOK
<1>2. None \notin Row
  BY NoneAssumption
<1> QED
  BY <1>1, <1>2

LEMMA SignUpStep ==
  ASSUME IInv, NEW a \in Accounts, SignUp(a)
  PROVE  IInv'
<1>1. /\ a \notin registered /\ registered' = registered \cup {a}
      /\ UNCHANGED <<doubled, heap, context, pc, req>>
  BY DEF SignUp
<1>2. PICK i \in RoleIds :
        /\ role[i] = None
        /\ role' = [role EXCEPT ![i] = [account |-> a, class |-> Authenticated]]
  BY DEF SignUp, Unused
<1> DEFINE r == [account |-> a, class |-> Authenticated]
<1>0. r \in Row /\ r.account = a /\ r.class = Authenticated
  BY DEF Row, Roles
<1> HIDE DEF r
<1>3. /\ role' \in [RoleIds -> Row \cup {None}]
      /\ role'[i] = r /\ r # None
      /\ \A j \in RoleIds \ {i} : role'[j] = role[j]
  BY <1>0, <1>2, NewRow DEF r
<1>12. \A j \in RoleIds : role[j] # r
  BY <1>0, <1>1, <1>3 DEF IInv, RowInv
<1>4. TypeOK'
  BY <1>1, <1>3 DEF IInv, TypeOK
<1>5. RowInv'
  <2>1. OneRolePerClass'
    BY <1>1, <1>3, <1>12 DEF IInv, RowInv, OneRolePerClass
  <2>2. \A j \in RoleIds : role'[j] # None => role'[j].account \in registered'
    BY <1>0, <1>1, <1>3 DEF IInv, RowInv
  <2>3. \A b \in registered' : \E j \in RoleIds :
          role'[j] = [account |-> b, class |-> Authenticated]
    <3> SUFFICES ASSUME NEW b \in registered'
                 PROVE  \E j \in RoleIds : role'[j] = [account |-> b, class |-> Authenticated]
      OBVIOUS
    <3>1. CASE b = a
      BY <1>3, <3>1 DEF r
    <3>2. CASE b \in registered
      <4>1. PICK j \in RoleIds : role[j] = [account |-> b, class |-> Authenticated]
        BY <3>2 DEF IInv, RowInv
      <4>2. role[j] \in Row
        BY <3>2, <4>1 DEF IInv, TypeOK, Row, Roles
      <4>3. j # i
        BY <1>2, <4>2, NoneAssumption
      <4> QED
        BY <1>3, <4>1, <4>3
    <3> QED
      BY <1>1, <3>1, <3>2
  <2> QED
    BY <2>1, <2>2, <2>3 DEF RowInv
<1>6. HeapInv'
  <2> SUFFICES ASSUME NEW p \in Principals, heap[p] # None PROVE Correct(heap[p])'
    BY <1>1 DEF HeapInv, Correct
  <2>1. heap[p] \in Principal /\ Correct(heap[p])
    BY DEF IInv, HeapInv, TypeOK
  <2> DEFINE q == heap[p]
  <2>2. \A x \in Principal : Correct(x) => Correct(x)'
    BY <1>1, <1>2, <1>3, CorrectStaysCorrect DEF IInv
  <2>3. Correct(q)'
    BY <1>1, <2>1, <2>2 DEF Correct
  <2> QED
    BY <2>3
<1>7. \A t \in Threads : (Active(t)' <=> Active(t)) /\ (Reading(t)' <=> Reading(t))
  BY <1>1 DEF Active, Reading
<1>8. ReferenceInv' /\ CommandInv' /\ SharingInv' /\ FreshInv'
  BY <1>1, <1>7 DEF IInv, ReferenceInv, CommandInv, SharingInv, FreshInv
<1>9. SavingInv'
  <2>1. \A b \in registered, c \in Roles : RolesOfClass(b, c)' = RolesOfClass(b, c)
    BY <1>0, <1>1, <1>2, <1>3 DEF RolesOfClass, RolesOf
  <2>2. \A t \in Threads : pc[t] = "save" =>
          /\ heap[req[t].principal].account \in registered
          /\ req[t].class \in Roles
    BY RequestTypes DEF IInv, ReferenceInv, HeapInv, Correct, TypeOK, Reading, Request
  <2>3. \A t \in Threads : pc[t] \in {"load", "set"} /\ req[t].session # None =>
          /\ heap[context[req[t].session]].account \in registered
          /\ req[t].class \in Roles
    BY RequestTypes, SessionIsSignedIn DEF IInv, ReferenceInv, HeapInv, Correct, TypeOK, Request
  <2> QED
    BY <1>1, <2>1, <2>2, <2>3 DEF IInv, SavingInv
<1>10. OwnInv'
  BY <1>1 DEF IInv, OwnInv
<1>11. LearnInv'
  BY <1>1 DEF IInv, LearnInv, SessionLearnsRole
<1> QED
  BY <1>4, <1>5, <1>6, <1>8, <1>9, <1>10, <1>11 DEF IInv

(* Two requests that have found no role of class c in the account are      *)
(* remembered when the first of them is saved.                             *)
LEMMA SaveStep ==
  ASSUME IInv, NEW t \in Threads, Save(t)
  PROVE  IInv'
<1> DEFINE a == heap[req[t].principal].account
           c == req[t].class
<1>1. /\ pc[t] = "save" /\ pc' = [pc EXCEPT ![t] = "load"]
      /\ req' = [req EXCEPT ![t].principal = None]
      /\ Collect /\ UNCHANGED <<registered, context>>
  BY DEF Save, Go
<1>2. /\ pc \in [Threads -> Labels] /\ req \in [Threads -> Request \cup {None}]
      /\ context \in [Sessions -> Principals \cup {None}]
  BY DEF IInv, TypeOK
<1>3. Active(t) /\ Reading(t) /\ req[t] # None /\ req[t] \in Request
  BY <1>1, <1>2 DEF IInv, ReferenceInv, Active, Reading
<1>4. /\ pc'[t] = "load" /\ req'[t] \in Request /\ req'[t] # None
      /\ req'[t].principal = None /\ req'[t].session = req[t].session
      /\ req'[t].command = req[t].command /\ req'[t].class = req[t].class
      /\ req'[t].alone = req[t].alone /\ req'[t].fresh = req[t].fresh
  <2>1. req'[t] = [req[t] EXCEPT !.principal = None]
    BY <1>1, <1>2
  <2>2. req'[t] \in Request
    BY <1>3, <2>1 DEF Request
  <2> QED
    BY <1>1, <1>2, <1>3, <2>1, <2>2, NoneAssumption DEF Request
<1>5. \A u \in Threads \ {t} : pc'[u] = pc[u] /\ req'[u] = req[u]
  BY <1>1, <1>2
<1>6. \A u \in Threads :
        /\ Active(u)' <=> Active(u)
        /\ Reading(u)' <=> u # t /\ Reading(u)
        /\ Reading(u) \/ pc[u] = "set" => Active(u)
  BY <1>3, <1>4, <1>5 DEF Active, Reading
<1>7. /\ \A s \in Sessions : context[s] # None => heap'[context[s]] = heap[context[s]]
      /\ \A u \in Threads \ {t} : Reading(u) => heap'[req[u].principal] = heap[req[u].principal]
      /\ \A u \in Threads \ {t} : pc[u] = "set" => heap'[req[u].fresh] = heap[req[u].fresh]
  BY <1>1, <1>2, <1>5, <1>6, CollectKeeps DEF IInv, ReferenceInv
<1>8. \A u \in Threads : Reading(u) =>
        /\ heap[req[u].principal] \in Principal
        /\ heap[req[u].principal].account \in registered \cap Accounts
        /\ req[u].class \in Roles
  BY <1>6, RequestTypes DEF IInv, ReferenceInv, HeapInv, Correct, TypeOK, Reading, Request
<1>9. \A u \in Threads : req[u] # None /\ req[u].session # None =>
        /\ req[u].session \in Sessions
        /\ context[req[u].session] # None
        /\ heap'[context[req[u].session]] = heap[context[req[u].session]]
  BY <1>7, RequestTypes DEF IInv, ReferenceInv
<1>10. /\ pc' \in [Threads -> Labels] /\ req' \in [Threads -> Request \cup {None}]
       /\ heap' \in [Principals -> Principal \cup {None}]
  BY <1>1, <1>2, <1>4, CollectKeeps DEF Labels
<1>11. ReferenceInv'
  <2>1. \A u \in Threads \ {t} :
          /\ pc'[u] # "idle" => req'[u] # None
          /\ Reading(u)' => req'[u].principal \in Principals /\ heap'[req'[u].principal] # None
          /\ Active(u)' /\ ~Reading(u)' => req'[u].principal = None
          /\ pc'[u] = "set" => req'[u].fresh \in Principals /\ heap'[req'[u].fresh] # None
    BY <1>5, <1>6, <1>7 DEF IInv, ReferenceInv
  <2>2. \A u \in Threads : req'[u] # None /\ req'[u].session # None =>
          context'[req'[u].session] # None
    BY <1>1, <1>3, <1>4, <1>5, <1>9
  <2>3. \A s \in Sessions : context'[s] # None => heap'[context'[s]] # None
    BY <1>1, <1>7 DEF IInv, ReferenceInv
  <2> QED
    BY <1>4, <1>6, <2>1, <2>2, <2>3 DEF ReferenceInv
<1>12. CommandInv'
  BY <1>1, <1>3, <1>4, <1>5, <1>6 DEF IInv, CommandInv
<1>13. SharingInv' /\ FreshInv'
  BY <1>1, <1>4, <1>5, <1>6 DEF IInv, SharingInv, FreshInv
<1>14. OwnInv'
  <2>1. \A u \in Threads : pc'[u] = "use" => u # t /\ Reading(u) /\ pc[u] = "use"
    BY <1>4, <1>5 DEF Reading
  <2> QED
    BY <1>5, <1>7, <2>1 DEF IInv, OwnInv
<1>15. LearnInv'
  <2>1. \A u \in Threads : pc'[u] \in {"set", "done"} => u # t /\ req[u] # None
    BY <1>4, <1>5 DEF IInv, ReferenceInv
  <2> QED
    BY <1>1, <1>5, <1>7, <1>9, <2>1 DEF IInv, LearnInv, SessionLearnsRole
<1>16. CASE req[t].command # "create"
  <2>1. UNCHANGED database
    BY <1>16 DEF Save, database
  <2>2. TypeOK'
    BY <1>1, <1>10, <2>1 DEF IInv, TypeOK, database
  <2>3. RowInv' /\ HeapInv'
    BY <1>1, <2>1, RowsUnchanged, HeapStaysCorrect, CollectKeeps
  <2>4. SavingInv'
    <3>1. \A u \in Threads \ {t} : pc[u] = "save" => Reading(u)
      BY DEF Reading
    <3>2. \A u \in Threads \ {t} : pc[u] \in {"load", "set"} => req[u] # None
      BY DEF IInv, ReferenceInv
    <3> QED
      BY <1>1, <1>4, <1>5, <1>7, <1>9, <1>16, <2>1, <3>1, <3>2
      DEF IInv, SavingInv, RolesOfClass, RolesOf, database
  <2> QED
    BY <1>11, <1>12, <1>13, <1>14, <1>15, <2>2, <2>3, <2>4 DEF IInv
<1>17. CASE req[t].command = "create"
  <2>1. PICK i \in RoleIds :
          role[i] = None /\ role' = [role EXCEPT ![i] = [account |-> a, class |-> c]]
    BY <1>17 DEF Save, Unused
  <2>2. a \in registered \cap Accounts /\ c \in Classes /\ c \in Roles
    BY <1>3, <1>8, <1>17 DEF IInv, CommandInv
  <2>15. /\ doubled' = doubled \/ doubled' = doubled \cup {<<a, c>>}
         /\ Creating(a, c) # {t} => <<a, c>> \in doubled'
    BY <1>17 DEF Save
  <2>16. doubled \subseteq doubled' /\ doubled' \subseteq Accounts \X Classes
    BY <2>2, <2>15 DEF IInv, TypeOK
  <2> DEFINE r == [account |-> a, class |-> c]
  <2>0. r \in Row /\ r.account = a /\ r.class = c
    BY <2>2 DEF Row
  <2> HIDE DEF r
  <2>3. /\ role' \in [RoleIds -> Row \cup {None}]
        /\ role'[i] = r /\ r # None
        /\ \A j \in RoleIds \ {i} : role'[j] = role[j]
    BY <2>0, <2>1, NewRow DEF r
  <2>4. RolesOfClass(a, c) = {} \/ <<a, c>> \in doubled
    BY <1>1, <1>17 DEF IInv, SavingInv
  <2>5. \A j \in RoleIds : role[j] = r => <<a, c>> \in doubled
    BY <2>0, <2>3, <2>4 DEF RolesOfClass, RolesOf
  <2> HIDE DEF a, c
  <2>6. TypeOK'
    BY <1>1, <1>10, <2>3, <2>16 DEF IInv, TypeOK
  <2>7. RowInv'
    <3>1. OneRolePerClass'
      <4> SUFFICES ASSUME NEW j \in RoleIds, NEW k \in RoleIds,
                          role'[j] # None, role'[j] = role'[k],
                          <<role'[j].account, role'[j].class>> \notin doubled'
                   PROVE  j = k
        BY DEF OneRolePerClass
      <4>1. CASE j # i /\ k # i
        BY <2>3, <2>16, <4>1 DEF IInv, RowInv, OneRolePerClass
      <4>2. CASE j = i \/ k = i
        BY <2>0, <2>3, <2>5, <2>16, <4>2
      <4> QED
        BY <4>1, <4>2
    <3>2. \A j \in RoleIds : role'[j] # None => role'[j].account \in registered'
      BY <1>1, <2>0, <2>2, <2>3 DEF IInv, RowInv
    <3>3. \A b \in registered' : \E j \in RoleIds :
            role'[j] = [account |-> b, class |-> Authenticated]
      <4> SUFFICES ASSUME NEW b \in registered
                   PROVE  \E j \in RoleIds : role'[j] = [account |-> b, class |-> Authenticated]
        BY <1>1
      <4>1. PICK j \in RoleIds : role[j] = [account |-> b, class |-> Authenticated]
        BY DEF IInv, RowInv
      <4>2. role[j] \in Row
        BY <4>1 DEF IInv, TypeOK, Row, Roles
      <4>3. j # i
        BY <2>1, <4>2, NoneAssumption
      <4> QED
        BY <2>3, <4>1, <4>3
    <3> QED
      BY <3>1, <3>2, <3>3 DEF RowInv
  <2>8. HeapInv'
    <3> SUFFICES ASSUME NEW p \in Principals, heap'[p] # None PROVE Correct(heap[p])'
      BY DEF HeapInv, Correct
    <3>1. heap'[p] = heap[p] /\ heap[p] \in Principal /\ Correct(heap[p])
      BY <1>1, CollectKeeps DEF IInv, HeapInv, TypeOK
    <3>2. \A x \in Principal : Correct(x) => Correct(x)'
      BY <1>1, <2>1, <2>3, CorrectStaysCorrect DEF IInv
    <3>3. \A x \in Principal : Correct(x)' =>
            (x.account \in registered' /\ Authenticated \in DOMAIN x.roleMap
              /\ x.active \in DOMAIN x.roleMap
              /\ \A k \in DOMAIN x.roleMap :
                   role'[x.roleMap[k]] = [account |-> x.account, class |-> k])
      BY DEF Correct
    <3> QED
      BY <3>1, <3>2, <3>3 DEF Correct
  <2>9. \A b, k : RolesOfClass(b, k) # {} => RolesOfClass(b, k)' # {}
    <3> SUFFICES ASSUME NEW b, NEW k, NEW j \in RolesOfClass(b, k)
                 PROVE  j \in RolesOfClass(b, k)'
      OBVIOUS
    <3> QED
      BY <2>1, <2>3 DEF RolesOfClass, RolesOf
  <2>10. \A b, k : b = a /\ k = c => i \in RolesOfClass(b, k)'
    BY <2>0, <2>3 DEF RolesOfClass, RolesOf
  <2>12. \A b, k : ~(b = a /\ k = c) => RolesOfClass(b, k)' = RolesOfClass(b, k)
    BY <2>0, <2>1, <2>3 DEF RolesOfClass, RolesOf
  <2>11. SavingInv'
    <3>1. ASSUME NEW u \in Threads, pc'[u] = "save", req'[u].command = "create"
          PROVE  \/ RolesOfClass(heap[req[u].principal].account, req[u].class)' = {}
                 \/ <<heap'[req'[u].principal].account, req'[u].class>> \in doubled'
      <4> DEFINE b == heap[req[u].principal].account
                 k == req[u].class
      <4>1. u # t /\ pc[u] = "save" /\ req'[u] = req[u] /\ Reading(u)
        BY <1>4, <1>5, <3>1 DEF Reading
      <4>2. heap'[req'[u].principal].account = b /\ req'[u].class = k
        BY <1>7, <4>1
      <4>3. CASE b = a /\ k = c
        <5>1. u \in Creating(a, c)
          BY <3>1, <4>1, <4>3 DEF Creating
        <5> QED
          BY <2>15, <4>1, <4>2, <4>3, <5>1
      <4>4. CASE ~(b = a /\ k = c)
        <5>1. RolesOfClass(b, k) = {} \/ <<b, k>> \in doubled
          BY <3>1, <4>1 DEF IInv, SavingInv
        <5> HIDE DEF b, k
        <5>2. PICK x : x = b
          OBVIOUS
        <5>3. PICK y : y = k
          OBVIOUS
        <5>4. RolesOfClass(x, y)' = {} \/ <<b, k>> \in doubled'
          BY <2>12, <2>16, <4>4, <5>1, <5>2, <5>3
        <5>5. x = heap'[req'[u].principal].account /\ y = req'[u].class
          BY <4>2, <5>2, <5>3
        <5> QED
          BY <4>2, <5>4, <5>5 DEF RolesOfClass, RolesOf
      <4> QED
        BY <4>3, <4>4
    <3>2. ASSUME NEW u \in Threads, pc'[u] \in {"load", "set"}, req'[u].command = "create",
                 req'[u].alone, req'[u].session # None
          PROVE  RolesOfClass(heap[context[req[u].session]].account, req[u].class)' # {}
      <4>1. CASE u = t
        <5>1. context[req[t].session] = req[t].principal
          BY <1>3, <1>4, <3>2, <4>1 DEF IInv, SharingInv
        <5>2. heap'[context'[req'[t].session]].account = a
          BY <1>1, <1>3, <1>4, <1>9, <3>2, <4>1, <5>1 DEF a
        <5>3. req'[t].class = c
          BY <1>4 DEF c
        <5> QED
          BY <2>10, <4>1, <5>2, <5>3 DEF RolesOfClass, RolesOf
      <4>2. CASE u # t
        <5>1. /\ req'[u] = req[u] /\ pc[u] \in {"load", "set"} /\ req[u] # None
          BY <1>5, <3>2, <4>2 DEF IInv, ReferenceInv
        <5>2. heap'[context'[req'[u].session]].account = heap[context[req[u].session]].account
          BY <1>1, <1>9, <3>2, <5>1
        <5>3. RolesOfClass(heap[context[req[u].session]].account, req[u].class) # {}
          BY <3>2, <5>1 DEF IInv, SavingInv
        <5>4. PICK b : b = heap[context[req[u].session]].account
          OBVIOUS
        <5>5. PICK k : k = req[u].class
          OBVIOUS
        <5>6. RolesOfClass(b, k)' # {}
          BY <2>9, <5>3, <5>4, <5>5
        <5>7. b = heap'[context'[req'[u].session]].account /\ k = req'[u].class
          BY <5>1, <5>2, <5>4, <5>5
        <5> QED
          BY <5>6, <5>7 DEF RolesOfClass, RolesOf
      <4> QED
        BY <4>1, <4>2
    <3> QED
      BY <3>1, <3>2 DEF SavingInv, RolesOfClass, RolesOf
  <2> QED
    BY <1>11, <1>12, <1>13, <1>14, <1>15, <2>6, <2>7, <2>8, <2>11 DEF IInv
<1> QED
  BY <1>16, <1>17

LEMMA SignInStep ==
  ASSUME IInv, NEW s \in Sessions, NEW a \in Accounts, SignIn(s, a)
  PROVE  IInv'
<1>1. PICK f \in Principals :
        /\ LoadUserByUsername(f, a)
        /\ context' = [context EXCEPT ![s] = f]
  BY DEF SignIn
<1>0. PICK q \in NewPrincipals(a) : heap' = [heap EXCEPT ![f] = q]
  BY <1>1 DEF LoadUserByUsername
<1>2. /\ context[s] = None /\ a \in registered /\ ~Referenced(f)
      /\ UNCHANGED <<registered, role, doubled, pc, req>>
  BY <1>1 DEF SignIn, LoadUserByUsername, database
<1>3. /\ heap' \in [Principals -> Principal \cup {None}]
      /\ heap'[f] # None
      /\ \A p \in Principals \ {f} : heap'[p] = heap[p]
      /\ HeapInv'
  BY <1>0, <1>2, HeapPut DEF database
<1>4. context \in [Sessions -> Principals \cup {None}]
  BY DEF IInv, TypeOK
<1>5. context'[s] = f /\ \A z \in Sessions \ {s} : context'[z] = context[z] /\ context[z] # f
  BY <1>1, <1>2, <1>4 DEF Referenced
<1>6. \A u \in Threads :
        /\ Reading(u) => req[u].principal # f
        /\ pc[u] = "set" => req[u].fresh # f
  BY <1>2 DEF Referenced, Active, Reading
<1>7. \A u \in Threads : req[u] # None /\ req[u].session # None =>
        /\ req[u].session \in Sessions \ {s}
        /\ context[req[u].session] \in Principals
  BY <1>2, <1>4, SessionIsSignedIn, RequestTypes DEF IInv, ReferenceInv
<1>8. \A u \in Threads : (Active(u)' <=> Active(u)) /\ (Reading(u)' <=> Reading(u))
  BY <1>2 DEF Active, Reading
<1>9. \A u \in Threads : Reading(u) => req[u] # None /\ req[u].principal \in Principals
  BY DEF IInv, ReferenceInv, Reading
<1>10. \A u \in Threads : pc[u] = "set" => Active(u) /\ req[u].fresh \in Principals
  BY DEF IInv, ReferenceInv, Active
<1>11. TypeOK'
  BY <1>1, <1>2, <1>3, <1>4 DEF IInv, TypeOK
<1>12. RowInv'
  BY <1>2, RowsUnchanged DEF database
<1>13. ReferenceInv'
  <2>1. \A z \in Sessions : context'[z] # None => heap'[context'[z]] # None
    BY <1>3, <1>4, <1>5 DEF IInv, ReferenceInv
  <2>2. \A u \in Threads :
          req[u] # None /\ req[u].session # None => context'[req[u].session] # None
    BY <1>5, <1>7 DEF IInv, ReferenceInv
  <2> QED
    BY <1>2, <1>3, <1>6, <1>8, <1>10, <2>1, <2>2 DEF IInv, ReferenceInv
<1>19. CommandInv'
  BY <1>2, <1>8 DEF IInv, CommandInv
<1>14. SavingInv'
  <2>1. \A u \in Threads : pc[u] = "save" => Reading(u)
    BY DEF Reading
  <2>2. \A u \in Threads : pc[u] \in {"load", "set"} => req[u] # None
    BY DEF IInv, ReferenceInv
  <2>3. \A u \in Threads : req[u] # None /\ req[u].session # None =>
          heap'[context'[req[u].session]] = heap[context[req[u].session]]
    BY <1>3, <1>5, <1>7
  <2> QED
    BY <1>2, <1>3, <1>6, <1>9, <2>1, <2>2, <2>3 DEF IInv, SavingInv, RolesOfClass, RolesOf
<1>15. SharingInv'
  BY <1>2, <1>5, <1>6, <1>7, <1>8, <1>9 DEF IInv, SharingInv
<1>16. FreshInv'
  BY <1>2, <1>5, <1>6, <1>8, <1>10 DEF IInv, FreshInv
<1>17. OwnInv'
  <2>1. \A u \in Threads : pc[u] = "use" => Reading(u)
    BY DEF Reading
  <2> QED
    BY <1>2, <1>3, <1>6, <1>9, <2>1 DEF IInv, OwnInv
<1>18. LearnInv'
  <2>1. \A u \in Threads : pc[u] = "done" => req[u] # None
    BY DEF IInv, ReferenceInv
  <2>2. \A u \in Threads : pc[u] = "set" => heap'[req[u].fresh] = heap[req[u].fresh]
    BY <1>3, <1>6, <1>10
  <2>3. \A u \in Threads : pc[u] = "done" /\ req[u].session # None =>
          heap'[context'[req[u].session]] = heap[context[req[u].session]]
    BY <1>3, <1>5, <1>7, <2>1
  <2> QED
    BY <1>2, <2>2, <2>3 DEF IInv, LearnInv, SessionLearnsRole
<1> QED
  BY <1>3, <1>11, <1>12, <1>13, <1>14, <1>15, <1>16, <1>17, <1>18, <1>19 DEF IInv

LEMMA SignOutStep ==
  ASSUME IInv, NEW s \in Sessions, SignOut(s)
  PROVE  IInv'
<1>1. /\ context[s] # None /\ context' = [context EXCEPT ![s] = None]
      /\ UNCHANGED <<registered, role, doubled, pc>> /\ Collect
  BY DEF SignOut, database
<1>2. /\ context \in [Sessions -> Principals \cup {None}]
      /\ req \in [Threads -> Request \cup {None}]
      /\ heap \in [Principals -> Principal \cup {None}]
  BY DEF IInv, TypeOK
<1>3. context'[s] = None /\ \A z \in Sessions \ {s} : context'[z] = context[z]
  BY <1>1, <1>2
<1>4. \A u \in Threads :
        /\ (req[u] = None \/ req[u].session # s) => req'[u] = req[u]
        /\ (req[u] # None /\ req[u].session = s) => req'[u] = [req[u] EXCEPT !.session = None]
  BY DEF SignOut
<1>5. \A u \in Threads : req[u] # None =>
        /\ req[u] \in Request
        /\ req'[u] \in Request /\ req'[u] # None
        /\ req'[u].command = req[u].command /\ req'[u].class = req[u].class
        /\ req'[u].principal = req[u].principal /\ req'[u].fresh = req[u].fresh
        /\ req'[u].alone = req[u].alone
        /\ req'[u].session # None => (req[u].session # s /\ req'[u].session = req[u].session)
  <2> SUFFICES ASSUME NEW u \in Threads, req[u] # None
               PROVE
        /\ req[u] \in Request
        /\ req'[u] \in Request /\ req'[u] # None
        /\ req'[u].command = req[u].command /\ req'[u].class = req[u].class
        /\ req'[u].principal = req[u].principal /\ req'[u].fresh = req[u].fresh
        /\ req'[u].alone = req[u].alone
        /\ req'[u].session # None => (req[u].session # s /\ req'[u].session = req[u].session)
    OBVIOUS
  <2>1. req[u] \in Request
    BY <1>2
  <2>2. CASE req[u].session # s
    BY <1>4, <2>1, <2>2
  <2>3. CASE req[u].session = s
    <3>1. req'[u] = [req[u] EXCEPT !.session = None]
      BY <1>4, <2>3
    <3>2. req'[u] \in Request
      BY <2>1, <3>1 DEF Request
    <3>3. req'[u] # None
      BY <3>2, NoneAssumption
    <3> QED
      BY <2>1, <3>1, <3>2, <3>3 DEF Request
  <2> QED
    BY <2>2, <2>3
<1>6. \A u \in Threads : pc[u] # "idle" => req[u] # None
  BY DEF IInv, ReferenceInv
<1>7. \A u \in Threads : (Active(u)' <=> Active(u)) /\ (Reading(u)' <=> Reading(u))
  BY <1>1 DEF Active, Reading
<1>9. \A p \in Principals : heap'[p] = heap[p] \/ heap'[p] = None
  BY <1>1, CollectKeeps
<1>10. \A u \in Threads : Reading(u) =>
         /\ Active(u) /\ req[u] # None /\ req[u].principal \in Principals
         /\ heap[req[u].principal] # None
         /\ heap'[req[u].principal] = heap[req[u].principal]
  BY <1>1, <1>5, <1>6, <1>7, CollectKeeps DEF IInv, ReferenceInv, Active, Reading
<1>11. \A u \in Threads : pc[u] = "set" =>
         /\ Active(u) /\ req[u].fresh \in Principals
         /\ heap[req[u].fresh] # None
         /\ heap'[req[u].fresh] = heap[req[u].fresh]
  BY <1>1, <1>5, <1>6, <1>7, CollectKeeps DEF IInv, ReferenceInv, Active, Reading
<1>12. \A z \in Sessions \ {s} : context[z] # None =>
         /\ context[z] \in Principals
         /\ heap[context[z]] # None
         /\ heap'[context[z]] = heap[context[z]]
  BY <1>1, <1>2, <1>3, CollectKeeps DEF IInv, ReferenceInv
<1>13. \A u \in Threads : req[u] # None /\ req'[u].session # None =>
         /\ req[u].session \in Sessions \ {s}
         /\ context[req[u].session] # None
  BY <1>5, SessionIsSignedIn DEF IInv, ReferenceInv
<1>14. TypeOK'
  <2>1. req' \in [Threads -> Request \cup {None}]
    <3>1. DOMAIN req' = Threads /\ req' = [u \in Threads |-> req'[u]]
      BY DEF SignOut
    <3> QED
      BY <1>4, <1>5, <3>1
  <2>2. context' \in [Sessions -> Principals \cup {None}]
    BY <1>1, <1>2
  <2>3. heap' \in [Principals -> Principal \cup {None}]
    BY <1>1, CollectKeeps
  <2> QED
    BY <1>1, <2>1, <2>2, <2>3 DEF IInv, TypeOK
<1>15. RowInv' /\ HeapInv'
  BY <1>1, <1>9, RowsUnchanged, HeapStaysCorrect DEF database
<1>16. ReferenceInv'
  <2>1. \A z \in Sessions : context'[z] # None => heap'[context'[z]] # None
    BY <1>3, <1>12
  <2>2. \A u \in Threads :
          /\ pc'[u] # "idle" => req'[u] # None
          /\ Reading(u)' => req'[u].principal \in Principals /\ heap'[req'[u].principal] # None
          /\ Active(u)' /\ ~Reading(u)' => req'[u].principal = None
          /\ pc'[u] = "set" => req'[u].fresh \in Principals /\ heap'[req'[u].fresh] # None
    BY <1>1, <1>5, <1>6, <1>7, <1>10, <1>11 DEF IInv, ReferenceInv, Active
  <2>3. \A u \in Threads :
          req'[u] # None /\ req'[u].session # None => context'[req'[u].session] # None
    <3> SUFFICES ASSUME NEW u \in Threads, req'[u] # None, req'[u].session # None
                 PROVE  context'[req'[u].session] # None
      OBVIOUS
    <3>1. req[u] # None
      BY <1>4
    <3>2. /\ req'[u].session = req[u].session
          /\ req[u].session \in Sessions \ {s}
          /\ context[req[u].session] # None
      BY <1>5, <1>13, <3>1
    <3> QED
      BY <1>3, <3>2
  <2> QED
    BY <2>1, <2>2, <2>3 DEF ReferenceInv
<1>22. CommandInv'
  BY <1>1, <1>5, <1>6, <1>7 DEF IInv, CommandInv, Active
<1>17. SavingInv'
  <2>1. \A u \in Threads : pc[u] = "save" => Reading(u)
    BY DEF Reading
  <2>2. \A u \in Threads : pc[u] \in {"load", "set"} => req[u] # None
    BY DEF IInv, ReferenceInv
  <2>3. \A u \in Threads : req[u] # None /\ req'[u].session # None =>
          /\ req[u].session # None /\ req'[u].session = req[u].session
          /\ heap'[context'[req[u].session]] = heap[context[req[u].session]]
    BY <1>3, <1>5, <1>12, <1>13, NoneAssumption
  <2>4. ASSUME NEW u \in Threads, pc'[u] = "save", req'[u].command = "create"
        PROVE  \/ RolesOfClass(heap[req[u].principal].account, req[u].class)' = {}
               \/ <<heap'[req'[u].principal].account, req'[u].class>> \in doubled'
    BY <1>1, <1>5, <1>10, <2>1, <2>4 DEF IInv, SavingInv, RolesOfClass, RolesOf
  <2>5. ASSUME NEW u \in Threads, pc'[u] \in {"load", "set"}, req'[u].command = "create",
               req'[u].alone, req'[u].session # None
        PROVE  RolesOfClass(heap[context[req[u].session]].account, req[u].class)' # {}
    BY <1>1, <1>5, <2>2, <2>3, <2>5 DEF IInv, SavingInv, RolesOfClass, RolesOf
  <2> QED
    BY <2>4, <2>5 DEF SavingInv, RolesOfClass, RolesOf
<1>18. SharingInv'
  <2>1. \A z, y \in Sessions : context'[z] # None /\ context'[z] = context'[y] => z = y
    BY <1>3 DEF IInv, SharingInv
  <2>2. ASSUME NEW t \in Threads, Active(t), NEW u \in Threads \ {t}, Active(u),
               req'[u].session = req'[t].session
        PROVE  req'[t].session = None \/ ~req'[t].alone
    <3>1. req[t] # None /\ req[u] # None
      BY <2>2 DEF IInv, ReferenceInv, Active
    <3>2. CASE req'[t].session = None
      BY <3>2
    <3>3. CASE req'[t].session # None
      <4>1. req[u].session = req[t].session /\ req[t].session # None
        BY <1>5, <1>13, <2>2, <3>1, <3>3, NoneAssumption
      <4>2. ~req[t].alone
        BY <2>2, <4>1 DEF IInv, SharingInv
      <4> QED
        BY <1>5, <3>1, <4>2
    <3> QED
      BY <3>2, <3>3
  <2>3. ASSUME NEW t \in Threads, Reading(t), NEW u \in Threads \ {t}, Reading(u),
               req'[u].principal = req'[t].principal
        PROVE  ~req'[t].alone
    BY <1>5, <1>10, <2>3 DEF IInv, SharingInv
  <2>4. ASSUME NEW t \in Threads, Reading(t), NEW z \in Sessions, context'[z] = req'[t].principal
        PROVE  req'[t].session = z
    <3>1. req[t].principal \in Principals /\ req'[t].principal = req[t].principal
      BY <1>5, <1>10, <2>4
    <3>2. z # s
      BY <1>3, <2>4, <3>1, NoneAssumption
    <3>3. req[t].session = z
      BY <1>3, <2>4, <3>1, <3>2 DEF IInv, SharingInv
    <3> QED
      BY <1>4, <3>2, <3>3
  <2>5. ASSUME NEW t \in Threads, Reading(t), req'[t].alone, req'[t].session # None
        PROVE  context'[req'[t].session] = req'[t].principal
    BY <1>3, <1>5, <1>10, <1>13, <2>5, NoneAssumption DEF IInv, SharingInv
  <2> QED
    BY <1>7, <2>1, <2>2, <2>3, <2>4, <2>5 DEF SharingInv
<1>19. FreshInv'
  <2>1. \A u \in Threads : pc[u] = "set" => req[u].fresh # None
    BY <1>11, NoneAssumption
  <2> QED
    BY <1>1, <1>3, <1>5, <1>6, <1>7, <1>10, <1>11, <2>1 DEF IInv, FreshInv
<1>20. OwnInv'
  BY <1>1, <1>5, <1>10 DEF IInv, OwnInv, Reading
<1>21. LearnInv'
  <2>1. \A u \in Threads : pc[u] = "done" /\ req'[u].session # None =>
          /\ req[u].session # None /\ req'[u].session = req[u].session
          /\ context'[req[u].session] = context[req[u].session]
          /\ heap'[context[req[u].session]] = heap[context[req[u].session]]
    BY <1>3, <1>5, <1>6, <1>12, <1>13
  <2>2. \A u \in Threads : pc[u] = "set" => heap'[req'[u].fresh] = heap[req[u].fresh]
    BY <1>5, <1>6, <1>11
  <2> QED
    BY <1>1, <1>5, <1>6, <2>1, <2>2 DEF IInv, LearnInv, SessionLearnsRole
<1> QED
  BY <1>14, <1>15, <1>16, <1>17, <1>18, <1>19, <1>20, <1>21, <1>22 DEF IInv

LEMMA HandleUpdateStep ==
  ASSUME IInv, NEW t \in Threads, HandleUpdate(t)
  PROVE  IInv'
<1> DEFINE s == req[t].session
           a == heap[context[s]].account
<1>0. PICK f \in Principals : LoadUserByUsername(f, a) /\ req' = [req EXCEPT ![t].fresh = f]
  BY DEF HandleUpdate
<1>24. PICK q \in NewPrincipals(a) : heap' = [heap EXCEPT ![f] = q]
  BY <1>0 DEF LoadUserByUsername
<1>1. /\ pc[t] = "load" /\ s # None
      /\ req' = [req EXCEPT ![t].fresh = f]
      /\ pc' = [pc EXCEPT ![t] = "set"]
      /\ UNCHANGED <<registered, role, doubled, context>>
  BY <1>0 DEF HandleUpdate, Go, database
<1>2. /\ pc \in [Threads -> Labels] /\ req \in [Threads -> Request \cup {None}]
      /\ context \in [Sessions -> Principals \cup {None}]
      /\ heap \in [Principals -> Principal \cup {None}]
  BY DEF IInv, TypeOK
<1>3. Active(t) /\ req[t] # None /\ req[t] \in Request
  BY <1>1, <1>2 DEF IInv, ReferenceInv, Active
<1>4. s \in Sessions /\ context[s] \in Principals /\ heap[context[s]] # None
  BY <1>1, <1>3, SessionIsSignedIn
<1>5. a \in registered /\ Correct(heap[context[s]]) /\ heap[context[s]] \in Principal
  BY <1>2, <1>4 DEF IInv, HeapInv, Correct
<1>6. ~Referenced(f)
  BY <1>0 DEF LoadUserByUsername
<1> HIDE DEF s, a
<1>7. /\ heap' \in [Principals -> Principal \cup {None}]
      /\ heap'[f] = q /\ heap'[f] # None
      /\ \A p \in Principals \ {f} : heap'[p] = heap[p]
      /\ HeapInv'
  BY <1>1, <1>5, <1>24, HeapPut DEF database
<1>8. \A c \in Roles : RolesOfClass(a, c) # {} => c \in DOMAIN heap'[f].roleMap
  BY <1>5, <1>7, NewPrincipalIsCorrect DEF IInv
<1>9. \A z \in Sessions : context[z] # f
  BY <1>6 DEF Referenced
<1>10. \A u \in Threads :
         /\ Reading(u) => req[u].principal # f
         /\ pc[u] = "set" => req[u].fresh # f
  BY <1>6 DEF Referenced, Active, Reading
<1>11. /\ pc'[t] = "set" /\ req'[t] \in Request /\ req'[t] # None
       /\ req'[t].fresh = f /\ req'[t].command = req[t].command
       /\ req'[t].class = req[t].class /\ req'[t].session = s
       /\ req'[t].principal = req[t].principal /\ req'[t].alone = req[t].alone
  <2>1. req'[t] = [req[t] EXCEPT !.fresh = f]
    BY <1>1, <1>2
  <2>2. req'[t] \in Request
    BY <1>3, <1>6, <2>1 DEF Request
  <2> QED
    BY <1>1, <1>2, <1>3, <2>1, <2>2, NoneAssumption DEF Request, s
<1>12. \A u \in Threads \ {t} : pc'[u] = pc[u] /\ req'[u] = req[u]
  BY <1>1, <1>2
<1>13. \A u \in Threads : (Active(u)' <=> Active(u)) /\ (Reading(u)' <=> Reading(u))
  BY <1>1, <1>3, <1>11, <1>12 DEF Active, Reading
<1>14. /\ \A z \in Sessions : context[z] # None => heap'[context[z]] = heap[context[z]]
       /\ \A u \in Threads : Reading(u) => heap'[req[u].principal] = heap[req[u].principal]
       /\ \A u \in Threads \ {t} : pc[u] = "set" => heap'[req[u].fresh] = heap[req[u].fresh]
  BY <1>2, <1>7, <1>9, <1>10 DEF IInv, ReferenceInv
<1>15. TypeOK'
  <2>1. req' \in [Threads -> Request \cup {None}]
    BY <1>1, <1>2, <1>11
  <2>2. pc' \in [Threads -> Labels]
    BY <1>1, <1>2 DEF Labels
  <2> QED
    BY <1>1, <1>2, <1>7, <2>1, <2>2 DEF IInv, TypeOK
<1>16. RowInv'
  BY <1>1, RowsUnchanged DEF database
<1>18. \A u \in Threads :
         /\ req'[u].command = req[u].command /\ req'[u].class = req[u].class
         /\ req'[u].principal = req[u].principal /\ req'[u].session = req[u].session
         /\ req'[u].alone = req[u].alone
         /\ pc'[u] = pc[u] \/ (u = t /\ pc[u] = "load" /\ pc'[u] = "set")
  BY <1>1, <1>11, <1>12 DEF s
<1>17. ReferenceInv'
  <2>1. \A z \in Sessions : context'[z] # None => heap'[context'[z]] # None
    BY <1>1, <1>14 DEF IInv, ReferenceInv
  <2>2. \A u \in Threads :
          /\ pc'[u] # "idle" => req'[u] # None
          /\ pc'[u] = "set" => req'[u].fresh \in Principals /\ heap'[req'[u].fresh] # None
    BY <1>7, <1>11, <1>12, <1>14 DEF IInv, ReferenceInv
  <2>3. \A u \in Threads :
          /\ Reading(u)' => req'[u].principal \in Principals /\ heap'[req'[u].principal] # None
          /\ Active(u)' /\ ~Reading(u)' => req'[u].principal = None
    BY <1>13, <1>14, <1>18 DEF IInv, ReferenceInv
  <2>4. \A u \in Threads : req'[u] # None /\ req'[u].session # None =>
          context'[req'[u].session] # None
    BY <1>1, <1>3, <1>11, <1>12, <1>18 DEF IInv, ReferenceInv
  <2> QED
    BY <2>1, <2>2, <2>3, <2>4 DEF ReferenceInv
<1>25. CommandInv'
  BY <1>13, <1>18 DEF IInv, CommandInv, Active
<1>19. SavingInv'
  <2>1. ASSUME NEW u \in Threads, pc'[u] = "save", req'[u].command = "create"
        PROVE  \/ RolesOfClass(heap[req[u].principal].account, req[u].class)' = {}
               \/ <<heap'[req'[u].principal].account, req'[u].class>> \in doubled'
    <3>1. pc[u] = "save" /\ Reading(u)
      BY <1>18, <2>1 DEF Reading
    <3>9. PICK b : b = heap[req[u].principal].account
      OBVIOUS
    <3>10. PICK k : k = req[u].class
      OBVIOUS
    <3>11. RolesOfClass(b, k)' = {} \/ <<b, k>> \in doubled'
      BY <1>1, <1>18, <2>1, <3>1, <3>9, <3>10, RolesKept DEF IInv, SavingInv
    <3>12. b = heap'[req'[u].principal].account /\ k = req'[u].class
      BY <1>14, <1>18, <3>1, <3>9, <3>10
    <3> QED
      BY <3>11, <3>12 DEF RolesOfClass, RolesOf
  <2>2. ASSUME NEW u \in Threads, pc'[u] \in {"load", "set"}, req'[u].command = "create",
               req'[u].alone, req'[u].session # None
        PROVE  RolesOfClass(heap[context[req[u].session]].account, req[u].class)' # {}
    <3>1. pc[u] \in {"load", "set"} /\ req[u] # None
      BY <1>18, <2>2 DEF IInv, ReferenceInv
    <3>2. req[u].session \in Sessions /\ context[req[u].session] # None
      BY <1>18, <2>2, <3>1, SessionIsSignedIn, NoneAssumption
    <3> QED
      BY <1>1, <1>14, <1>18, <2>2, <3>1, <3>2 DEF IInv, SavingInv, RolesOfClass, RolesOf
  <2> QED
    BY <2>1, <2>2 DEF SavingInv, RolesOfClass, RolesOf
<1>20. SharingInv'
  BY <1>1, <1>13, <1>18 DEF IInv, SharingInv
<1>21. FreshInv'
  <2>1. \A u \in Threads : pc[u] = "set" => Active(u)
    BY DEF Active
  <2> QED
    BY <1>1, <1>9, <1>10, <1>11, <1>12, <1>13, <1>18, <2>1 DEF IInv, FreshInv
<1>22. OwnInv'
  BY <1>13, <1>14, <1>18 DEF IInv, OwnInv, Reading
<1>23. LearnInv'
  <2>1. \A u \in Threads : pc[u] = "done" => req[u] # None
    BY DEF IInv, ReferenceInv
  <2>2. req[t].command = "create" /\ req[t].alone => req[t].class \in DOMAIN heap'[f].roleMap
    <3> SUFFICES ASSUME req[t].command = "create", req[t].alone
                 PROVE  req[t].class \in DOMAIN heap'[f].roleMap
      OBVIOUS
    <3>1. RolesOfClass(a, req[t].class) # {}
      BY <1>1, <2>2 DEF IInv, SavingInv, a, s
    <3> QED
      BY <1>3, <1>8, <3>1 DEF Request
  <2>3. ASSUME NEW u \in Threads, pc[u] = "done", req[u].session = s
        PROVE  req[u].class \in DOMAIN heap'[f].roleMap
    <3>1. req[u] \in Request
      BY <1>2, <2>1, <2>3
    <3>2. req[u].class \in DOMAIN heap[context[s]].roleMap
      BY <1>1, <2>3 DEF IInv, LearnInv, SessionLearnsRole
    <3>3. /\ heap[context[s]].roleMap[req[u].class] \in RoleIds
          /\ role[heap[context[s]].roleMap[req[u].class]] = [account |-> a, class |-> req[u].class]
      BY <1>5, <3>2 DEF Correct, Principal, a
    <3>4. [account |-> a, class |-> req[u].class] \in Row
      BY <1>5, <3>1 DEF IInv, TypeOK, Row, Request
    <3>5. RolesOfClass(a, req[u].class) # {}
      BY <3>3, <3>4, NoneAssumption DEF RolesOfClass, RolesOf
    <3> QED
      BY <1>8, <3>1, <3>5 DEF Request
  <2>4. \A u \in Threads : pc[u] = "done" /\ req[u].session # None =>
          heap'[context[req[u].session]] = heap[context[req[u].session]]
    BY <1>14, <2>1, SessionIsSignedIn, NoneAssumption
  <2>5. \A u \in Threads : pc'[u] = "done" => u # t
    BY <1>11
  <2>6. \A u \in Threads :
          pc'[u] = "set" /\ req'[u].command = "create" /\ req'[u].alone /\ req'[u].session # None =>
            req'[u].class \in DOMAIN heap'[req'[u].fresh].roleMap
    BY <1>11, <1>12, <1>14, <2>2 DEF IInv, LearnInv
  <2>7. \A v, u \in Threads :
          /\ pc'[v] = "done" /\ req'[v].session # None
          /\ pc'[u] = "set" /\ req'[u].session = req'[v].session
          => req'[v].class \in DOMAIN heap'[req'[u].fresh].roleMap
    BY <1>11, <1>12, <1>14, <2>3, <2>5 DEF IInv, LearnInv
  <2>8. SessionLearnsRole'
    BY <1>1, <1>12, <2>4, <2>5 DEF IInv, LearnInv, SessionLearnsRole
  <2> QED
    BY <2>6, <2>7, <2>8 DEF LearnInv
<1> QED
  BY <1>7, <1>15, <1>16, <1>17, <1>19, <1>20, <1>21, <1>22, <1>23, <1>25 DEF IInv

LEMMA SetAuthenticationStep ==
  ASSUME IInv, NEW t \in Threads, SetAuthentication(t)
  PROVE  IInv'
<1> DEFINE s == req[t].session
           f == req[t].fresh
<1>1. /\ pc[t] = "set"
      /\ context' = [z \in Sessions |-> IF z = s THEN f ELSE context[z]]
      /\ Collect /\ UNCHANGED <<registered, role, doubled>>
  BY DEF SetAuthentication, database
<1>2. /\ pc \in [Threads -> Labels] /\ req \in [Threads -> Request \cup {None}]
      /\ context \in [Sessions -> Principals \cup {None}]
      /\ heap \in [Principals -> Principal \cup {None}]
  BY DEF IInv, TypeOK
<1>3. /\ Active(t) /\ req[t] # None /\ req[t] \in Request
      /\ f \in Principals /\ heap[f] # None
  BY <1>1, <1>2 DEF IInv, ReferenceInv, Active
<1>5. \A u \in Threads \ {t} : pc'[u] = pc[u] /\ req'[u] = req[u]
  BY <1>2 DEF SetAuthentication, Answer, Go
<1> DEFINE Created ==
      /\ pc'[t] = "done" /\ req[t].command = "create" /\ req[t].alone
      /\ req'[t] \in Request /\ req'[t] # None
      /\ req'[t].class = req[t].class /\ req'[t].alone = req[t].alone
      /\ req'[t].session = s
    Updated == pc'[t] = "idle" /\ req'[t] = None
<1>8. Created \/ Updated
  <2>1. CASE req[t].command = "create" /\ req[t].alone
    <3>1. /\ pc'[t] = "done"
          /\ req'[t] = [req[t] EXCEPT !.principal = None, !.fresh = None]
      BY <1>2, <2>1 DEF SetAuthentication, Answer, Go
    <3>2. req'[t] \in Request /\ req'[t].session = s
          /\ req'[t].class = req[t].class /\ req'[t].alone = req[t].alone
      BY <1>3, <2>1, <3>1 DEF Request
    <3>3. req'[t] # None
      BY <3>2, NoneAssumption
    <3> QED
      BY <2>1, <3>1, <3>2, <3>3
  <2>2. CASE ~(req[t].command = "create" /\ req[t].alone)
    BY <1>2, <2>2 DEF SetAuthentication, Answer, Go
  <2> QED
    BY <2>1, <2>2
<1> HIDE DEF s, f, Created, Updated
<1>9. pc'[t] \in {"done", "idle"}
  BY <1>8 DEF Created, Updated
<1>10. \A u \in Threads :
         /\ Active(u)' <=> u # t /\ Active(u)
         /\ Reading(u)' <=> Reading(u)
         /\ Reading(u) => u # t
         /\ Reading(u) \/ pc[u] = "set" => Active(u)
  BY <1>1, <1>5, <1>9 DEF Active, Reading
<1>11. /\ s \in Sessions => context'[s] = f
       /\ \A z \in Sessions \ {s} : context'[z] = context[z]
  BY <1>1
<1>12. /\ \A z \in Sessions : context[z] # f
       /\ \A u \in Threads : Reading(u) => req[u].principal # f
       /\ \A u \in Threads \ {t} : pc[u] = "set" => req[u].fresh # f
  BY <1>1 DEF IInv, FreshInv, f
<1>13. \A u \in Threads : req[u] # None /\ req[u].session # None =>
         /\ req[u].session \in Sessions
         /\ context[req[u].session] # None
  BY SessionIsSignedIn, NoneAssumption
<1>14. \A z \in Sessions : context'[z] # None =>
         context'[z] \in Principals /\ heap'[context'[z]] = heap[context'[z]] /\ heap[context'[z]] # None
  BY <1>1, <1>2, <1>3, <1>11, CollectKeeps DEF IInv, ReferenceInv
<1>15. /\ \A u \in Threads : Reading(u) => heap'[req[u].principal] = heap[req[u].principal]
       /\ \A u \in Threads \ {t} : pc[u] = "set" => heap'[req[u].fresh] = heap[req[u].fresh]
  BY <1>1, <1>5, <1>10, CollectKeeps DEF IInv, ReferenceInv
<1>16. \A p \in Principals : heap'[p] = heap[p] \/ heap'[p] = None
  BY <1>1, CollectKeeps
<1>17. TypeOK'
  <2>1. \A u \in Threads : req'[u] \in Request \cup {None} /\ pc'[u] \in Labels
    BY <1>2, <1>5, <1>8 DEF Created, Updated, Labels
  <2>2. req' \in [Threads -> Request \cup {None}] /\ pc' \in [Threads -> Labels]
    <3>1. (\E x : req' = [req EXCEPT ![t] = x]) /\ (\E x : pc' = [pc EXCEPT ![t] = x])
      BY DEF SetAuthentication, Answer, Go
    <3> QED
      BY <1>2, <2>1, <3>1
  <2>3. context' \in [Sessions -> Principals \cup {None}]
    BY <1>1, <1>2, <1>3
  <2> QED
    BY <1>1, <2>2, <2>3, CollectKeeps DEF IInv, TypeOK
<1>18. RowInv' /\ HeapInv'
  BY <1>1, <1>16, RowsUnchanged, HeapStaysCorrect DEF database
<1>19. ReferenceInv'
  <2>1. \A z \in Sessions : context'[z] # None => heap'[context'[z]] # None
    BY <1>14
  <2>2. \A u \in Threads \ {t} :
          /\ pc'[u] # "idle" => req'[u] # None
          /\ Reading(u)' => req'[u].principal \in Principals /\ heap'[req'[u].principal] # None
          /\ Active(u)' /\ ~Reading(u)' => req'[u].principal = None
          /\ pc'[u] = "set" => req'[u].fresh \in Principals /\ heap'[req'[u].fresh] # None
    BY <1>5, <1>10, <1>15 DEF IInv, ReferenceInv
  <2>3. \A z \in Sessions : context[z] # None => context'[z] # None
    BY <1>3, <1>11, NoneAssumption
  <2>4. \A u \in Threads \ {t} :
          req'[u] # None /\ req'[u].session # None => context'[req'[u].session] # None
    BY <1>5, <1>13, <2>3
  <2>5. pc'[t] # "idle" => req'[t] # None
    BY <1>8 DEF Created, Updated
  <2>6. req'[t] # None /\ req'[t].session # None => context'[req'[t].session] # None
    BY <1>3, <1>8, <1>13, <2>3 DEF Created, Updated, s
  <2> QED
    BY <1>9, <1>10, <2>1, <2>2, <2>4, <2>5, <2>6 DEF ReferenceInv
<1>25. CommandInv'
  BY <1>5, <1>9, <1>10 DEF IInv, CommandInv
<1>26. \A u \in Threads \ {t} : Active(u) /\ req[u].alone /\ req[u].session # None =>
         /\ req[u].session \in Sessions \ {s}
         /\ context'[req[u].session] = context[req[u].session]
  <2> SUFFICES ASSUME NEW u \in Threads \ {t}, Active(u), req[u].alone, req[u].session # None
               PROVE  /\ req[u].session \in Sessions \ {s}
                      /\ context'[req[u].session] = context[req[u].session]
    OBVIOUS
  <2>1. req[u] # None
    BY DEF IInv, ReferenceInv, Active
  <2>2. req[u].session # s
    BY <1>3 DEF IInv, SharingInv, s
  <2> QED
    BY <1>11, <1>13, <2>1, <2>2
<1>20. SavingInv'
  <2>1. ASSUME NEW u \in Threads, pc'[u] = "save", req'[u].command = "create"
        PROVE  \/ RolesOfClass(heap[req[u].principal].account, req[u].class)' = {}
               \/ <<heap'[req'[u].principal].account, req'[u].class>> \in doubled'
    <3>1. u # t /\ pc[u] = "save" /\ Reading(u) /\ req'[u] = req[u]
      BY <1>5, <1>9, <2>1 DEF Reading
    <3> QED
      BY <1>1, <1>15, <2>1, <3>1 DEF IInv, SavingInv, RolesOfClass, RolesOf
  <2>2. ASSUME NEW u \in Threads, pc'[u] \in {"load", "set"}, req'[u].command = "create",
               req'[u].alone, req'[u].session # None
        PROVE  RolesOfClass(heap[context[req[u].session]].account, req[u].class)' # {}
    <3>1. u # t /\ pc[u] \in {"load", "set"} /\ Active(u) /\ req'[u] = req[u]
      BY <1>5, <1>9, <2>2 DEF Active
    <3>2. /\ req[u].session \in Sessions
          /\ context'[req[u].session] = context[req[u].session]
      BY <1>26, <2>2, <3>1
    <3>3. context[req[u].session] # None
      BY <1>13, <2>2, <3>1 DEF IInv, ReferenceInv
    <3>4. heap'[context'[req[u].session]] = heap[context[req[u].session]]
      BY <1>14, <3>2, <3>3
    <3> QED
      BY <1>1, <2>2, <3>1, <3>4 DEF IInv, SavingInv, RolesOfClass, RolesOf
  <2> QED
    BY <2>1, <2>2 DEF SavingInv, RolesOfClass, RolesOf
<1>21. SharingInv'
  <2>1. \A z, y \in Sessions : context'[z] # None /\ context'[z] = context'[y] => z = y
    BY <1>11, <1>12 DEF IInv, SharingInv
  <2>2. ASSUME NEW u \in Threads, Reading(u), NEW z \in Sessions, context'[z] = req[u].principal
        PROVE  req[u].session = z
    BY <1>11, <1>12, <2>2 DEF IInv, SharingInv
  <2>3. ASSUME NEW u \in Threads, Reading(u), req[u].alone, req[u].session # None
        PROVE  context'[req[u].session] = req[u].principal
    BY <1>10, <1>26, <2>3 DEF IInv, SharingInv
  <2>4. \A v \in Threads : Active(v)' =>
          \A u \in Threads \ {v} : Active(u)' /\ req'[u].session = req'[v].session =>
            req'[v].session = None \/ ~req'[v].alone
    BY <1>5, <1>10 DEF IInv, SharingInv
  <2>5. \A v \in Threads : Reading(v)' =>
          \A u \in Threads \ {v} :
            Reading(u)' /\ req'[u].principal = req'[v].principal => ~req'[v].alone
    BY <1>5, <1>10 DEF IInv, SharingInv
  <2> QED
    BY <1>5, <1>10, <2>1, <2>2, <2>3, <2>4, <2>5 DEF SharingInv
<1>22. FreshInv'
  BY <1>5, <1>9, <1>10, <1>11, <1>12 DEF IInv, FreshInv
<1>23. OwnInv'
  <2>1. \A u \in Threads : pc'[u] = "use" => u # t /\ Reading(u) /\ pc[u] = "use"
    BY <1>5, <1>9 DEF Reading
  <2> QED
    BY <1>5, <1>15, <2>1 DEF IInv, OwnInv
<1>24. LearnInv'
  <2>1. \A u \in Threads : pc[u] = "done" => req[u] # None
    BY DEF IInv, ReferenceInv
  <2>2. \A u \in Threads :
          pc'[u] = "set" /\ req'[u].command = "create" /\ req'[u].alone /\ req'[u].session # None =>
            req'[u].class \in DOMAIN heap'[req'[u].fresh].roleMap
    BY <1>5, <1>9, <1>15 DEF IInv, LearnInv
  <2>3. ASSUME NEW v \in Threads, NEW u \in Threads,
               pc'[v] = "done", req'[v].session # None, pc'[u] = "set", req'[u].session = req'[v].session
        PROVE  req'[v].class \in DOMAIN heap'[req'[u].fresh].roleMap
    <3>1. u # t /\ pc[u] = "set" /\ Active(u) /\ req'[u] = req[u]
      BY <1>5, <1>9, <2>3 DEF Active
    <3>2. CASE v = t
      <4>1. req[t].alone /\ req[u].session = req[t].session /\ req[t].session # None
        BY <1>8, <2>3, <3>1, <3>2 DEF Created, Updated, s
      <4> QED
        BY <1>3, <3>1, <4>1 DEF IInv, SharingInv
    <3>3. CASE v # t
      BY <1>5, <1>15, <2>3, <3>1, <3>3 DEF IInv, LearnInv
    <3> QED
      BY <3>2, <3>3
  <2>4. ASSUME NEW v \in Threads, pc'[v] = "done", req'[v].session # None
        PROVE  req'[v].class \in DOMAIN heap'[context'[req'[v].session]].roleMap
    <3>1. CASE v = t
      <4>1. /\ req[t].command = "create" /\ req[t].alone
            /\ req'[t].class = req[t].class /\ req'[t].session = s
        BY <1>8, <2>4, <3>1 DEF Created, Updated
      <4>2. s \in Sessions /\ s # None /\ context'[s] = f
        BY <1>3, <1>11, <1>13, <2>4, <3>1, <4>1 DEF s
      <4>3. heap'[f] = heap[f]
        BY <1>3, <1>14, <4>2, NoneAssumption
      <4>4. req[t].class \in DOMAIN heap[f].roleMap
        BY <1>1, <4>1, <4>2 DEF IInv, LearnInv, s, f
      <4> QED
        BY <3>1, <4>1, <4>2, <4>3, <4>4
    <3>2. CASE v # t
      <4>1. /\ pc[v] = "done" /\ req'[v] = req[v] /\ req[v] # None
            /\ req[v].session \in Sessions /\ context[req[v].session] # None
        BY <1>5, <1>13, <2>1, <2>4, <3>2
      <4>2. CASE req[v].session = s
        <5>1. req[v].class \in DOMAIN heap[f].roleMap
          BY <1>1, <2>4, <4>1, <4>2 DEF IInv, LearnInv, s, f
        <5>2. context'[s] = f /\ heap'[f] = heap[f]
          BY <1>3, <1>11, <1>14, <4>1, <4>2, NoneAssumption
        <5> QED
          BY <4>1, <4>2, <5>1, <5>2
      <4>3. CASE req[v].session # s
        <5>1. /\ context'[req[v].session] = context[req[v].session]
              /\ heap'[context[req[v].session]] = heap[context[req[v].session]]
          BY <1>11, <1>14, <4>1, <4>3
        <5>2. req[v].class \in DOMAIN heap[context[req[v].session]].roleMap
          BY <2>4, <4>1 DEF IInv, LearnInv, SessionLearnsRole
        <5> QED
          BY <4>1, <5>1, <5>2
      <4> QED
        BY <4>2, <4>3
    <3> QED
      BY <3>1, <3>2
  <2> QED
    BY <2>2, <2>3, <2>4 DEF LearnInv, SessionLearnsRole
<1> QED
  BY <1>17, <1>18, <1>19, <1>20, <1>21, <1>22, <1>23, <1>24, <1>25 DEF IInv

LEMMA ReceiveStep ==
  ASSUME IInv, NEW t \in Threads, NEW s \in Sessions, NEW command \in Commands,
         NEW c \in Roles, Receive(t, s, command, c)
  PROVE  IInv'
<1> DEFINE p == context[s]
           rc == RoleClazz(command, c)
           Together(u) == u # t /\ Active(u) /\ req[u].session = s
<1>1. /\ p # None /\ ~Active(t) /\ rc \in DOMAIN heap[p].roleMap
      /\ command = "create" => c \in Classes
      /\ heap' = [heap EXCEPT ![p].active = rc]
      /\ pc' = [pc EXCEPT ![t] = IF command = "use" THEN "use" ELSE "authorise"]
      /\ UNCHANGED <<registered, role, doubled, context>>
  BY DEF Receive, Enter, Go, database
<1>2. /\ pc \in [Threads -> Labels] /\ req \in [Threads -> Request \cup {None}]
      /\ context \in [Sessions -> Principals \cup {None}]
      /\ heap \in [Principals -> Principal \cup {None}]
  BY DEF IInv, TypeOK
<1>3. p \in Principals /\ heap[p] \in Principal /\ Correct(heap[p])
  BY <1>1, <1>2 DEF IInv, ReferenceInv, HeapInv
<1>4. rc \in Roles /\ (command = "use" => rc = c)
  BY DEF RoleClazz, Roles
<1>5. /\ heap'[p] \in Principal
      /\ heap'[p].account = heap[p].account /\ heap'[p].roleMap = heap[p].roleMap
      /\ heap'[p].active = rc
  <2>1. heap'[p] = [heap[p] EXCEPT !.active = rc]
    BY <1>1, <1>2, <1>3
  <2> QED
    BY <1>3, <1>4, <2>1 DEF Principal
<1>6. \A q \in Principals \ {p} : heap'[q] = heap[q]
  BY <1>1, <1>2
<1>7. \A q \in Principals :
        /\ (heap'[q] # None) <=> (heap[q] # None)
        /\ heap'[q].account = heap[q].account /\ heap'[q].roleMap = heap[q].roleMap
  <2>1. heap'[p] # None /\ heap[p] # None
    BY <1>3, <1>5, NoneAssumption
  <2> QED
    BY <1>5, <1>6, <2>1
<1>8. /\ req'[t] = [command |-> command, class |-> c, session |-> s,
                    principal |-> p, fresh |-> None,
                    alone |-> /\ command # "update"
                              /\ {u \in Threads \ {t} : Active(u) /\ req[u].session = s} = {}]
      /\ \A u \in Threads \ {t} : req'[u] = IF Together(u) THEN [req[u] EXCEPT !.alone = FALSE] ELSE req[u]
      /\ req' = [u \in Threads |-> req'[u]]
  BY DEF Receive, Enter
<1>9. /\ req'[t] \in Request /\ req'[t] # None
      /\ req'[t].command = command /\ req'[t].class = c /\ req'[t].session = s
      /\ req'[t].principal = p
      /\ req'[t].alone => (\A u \in Threads : ~Together(u))
  <2>1. req'[t] \in Request
    BY <1>3, <1>8 DEF Request
  <2>2. ({u \in Threads \ {t} : Active(u) /\ req[u].session = s} = {})
          => (\A u \in Threads : ~Together(u))
    OBVIOUS
  <2>3. req'[t].alone => (\A u \in Threads : ~Together(u))
    <3> DEFINE b == /\ command # "update"
                    /\ {u \in Threads \ {t} : Active(u) /\ req[u].session = s} = {}
    <3>1. req'[t] = [command |-> command, class |-> c, session |-> s, principal |-> p,
                     fresh |-> None, alone |-> b]
      BY <1>8
    <3>2. b \in BOOLEAN
      OBVIOUS
    <3>4. b => (\A u \in Threads : ~Together(u))
      BY <2>2
    <3> HIDE DEF b
    <3>3. req'[t].alone = b
      BY <3>1, <3>2
    <3> QED
      BY <3>3, <3>4
  <2>4. req'[t] # None
    BY <2>1, NoneAssumption
  <2> HIDE DEF p
  <2>5. /\ req'[t].command = command /\ req'[t].class = c /\ req'[t].session = s
        /\ req'[t].principal = p
    BY <1>8
  <2> QED
    BY <2>1, <2>3, <2>4, <2>5
<1>10. /\ pc'[t] = (IF command = "use" THEN "use" ELSE "authorise")
       /\ \A u \in Threads \ {t} : pc'[u] = pc[u]
  BY <1>1, <1>2
<1>11. /\ \A u \in Threads : Active(u)' <=> u = t \/ Active(u)
       /\ \A u \in Threads : Reading(u)' <=> u = t \/ Reading(u)
       /\ \A u \in Threads : Reading(u) => u # t /\ Active(u)
  BY <1>1, <1>10 DEF Active, Reading
<1>12. \A u \in Threads : Active(u) => u # t /\ req[u] # None /\ req[u] \in Request
  BY <1>1, <1>2 DEF IInv, ReferenceInv, Active
<1>13. \A u \in Threads \ {t} : Together(u) =>
         /\ req'[u] \in Request /\ req'[u] # None
         /\ req'[u].command = req[u].command /\ req'[u].class = req[u].class
         /\ req'[u].session = req[u].session /\ req'[u].principal = req[u].principal
         /\ req'[u].fresh = req[u].fresh
         /\ ~req'[u].alone
  <2> SUFFICES ASSUME NEW u \in Threads \ {t}, Together(u) PROVE
         /\ req'[u] \in Request /\ req'[u] # None
         /\ req'[u].command = req[u].command /\ req'[u].class = req[u].class
         /\ req'[u].session = req[u].session /\ req'[u].principal = req[u].principal
         /\ req'[u].fresh = req[u].fresh
         /\ ~req'[u].alone
    OBVIOUS
  <2>1. req'[u] = [req[u] EXCEPT !.alone = FALSE] /\ req[u] \in Request
    BY <1>8, <1>12
  <2>2. req'[u] \in Request
    BY <2>1 DEF Request
  <2> QED
    BY <2>1, <2>2, NoneAssumption DEF Request
<1>14. \A u \in Threads \ {t} : ~Together(u) => req'[u] = req[u]
  BY <1>8
<1>15. \A u \in Threads \ {t} :
         /\ req'[u] = None <=> req[u] = None
         /\ req'[u].command = req[u].command /\ req'[u].class = req[u].class
         /\ req'[u].session = req[u].session /\ req'[u].principal = req[u].principal
         /\ req'[u].fresh = req[u].fresh
         /\ req'[u].alone => req[u].alone /\ ~Together(u)
  BY <1>12, <1>13, <1>14
<1>16. \A u \in Threads \ {t} : Reading(u) /\ req[u].principal = p => Together(u)
  BY <1>11 DEF IInv, SharingInv
<1>17. \A u \in Threads \ {t} : Active(u) /\ req[u].session = s => Together(u)
  OBVIOUS
<1> HIDE DEF rc, Together
<1>18. TypeOK'
  <2>1. req' \in [Threads -> Request \cup {None}]
    <3>1. \A u \in Threads : req'[u] \in Request \cup {None}
      BY <1>2, <1>9, <1>13, <1>14
    <3> QED
      BY <1>8, <3>1
  <2>2. pc' \in [Threads -> Labels]
    BY <1>1, <1>2 DEF Labels
  <2>3. heap' \in [Principals -> Principal \cup {None}]
    BY <1>1, <1>2, <1>5, <1>6
  <2> QED
    BY <1>1, <1>2, <2>1, <2>2, <2>3 DEF IInv, TypeOK
<1>19. RowInv'
  BY <1>1, RowsUnchanged DEF database
<1>20. HeapInv'
  <2> SUFFICES ASSUME NEW q \in Principals, heap'[q] # None PROVE Correct(heap[q])'
    BY DEF HeapInv, Correct
  <2>1. Correct(heap[q])
    BY <1>7 DEF IInv, HeapInv
  <2>2. heap'[q].active \in DOMAIN heap'[q].roleMap
    BY <1>1, <1>5, <1>6, <2>1 DEF Correct
  <2> QED
    BY <1>1, <1>7, <2>1, <2>2 DEF Correct
<1> HIDE DEF p
<1>21. ReferenceInv'
  <2>1. \A z \in Sessions : context'[z] # None => heap'[context'[z]] # None
    BY <1>1, <1>2, <1>7 DEF IInv, ReferenceInv
  <2>2. \A u \in Threads \ {t} :
          /\ pc'[u] # "idle" => req'[u] # None
          /\ Reading(u)' => req'[u].principal \in Principals /\ heap'[req'[u].principal] # None
          /\ Active(u)' /\ ~Reading(u)' => req'[u].principal = None
          /\ pc'[u] = "set" => req'[u].fresh \in Principals /\ heap'[req'[u].fresh] # None
    BY <1>7, <1>10, <1>11, <1>15 DEF IInv, ReferenceInv
  <2>3. \A u \in Threads \ {t} :
          req'[u] # None /\ req'[u].session # None => context'[req'[u].session] # None
    BY <1>1, <1>15, SessionIsSignedIn, NoneAssumption DEF IInv, ReferenceInv
  <2>4. /\ req'[t] # None /\ req'[t].principal \in Principals
        /\ heap'[req'[t].principal] # None /\ pc'[t] # "set"
        /\ context'[req'[t].session] # None
    BY <1>1, <1>3, <1>5, <1>7, <1>9, <1>10, NoneAssumption DEF p
  <2> QED
    BY <1>11, <2>1, <2>2, <2>3, <2>4 DEF ReferenceInv
<1>27. CommandInv'
  <2>1. /\ pc'[t] = "use" => req'[t].command = "use"
        /\ pc'[t] # "use" => req'[t].command # "use"
        /\ req'[t].command = "create" => req'[t].class \in Classes
    BY <1>1, <1>9, <1>10
  <2>2. \A u \in Threads \ {t} :
          /\ pc'[u] = "use" => req'[u].command = "use"
          /\ Active(u)' /\ pc'[u] # "use" => req'[u].command # "use"
          /\ Active(u)' /\ req'[u].command = "create" => req'[u].class \in Classes
    BY <1>10, <1>11, <1>15 DEF IInv, CommandInv
  <2> QED
    BY <2>1, <2>2 DEF CommandInv
<1>22. SavingInv'
  <2>1. ASSUME NEW u \in Threads, pc'[u] = "save", req'[u].command = "create"
        PROVE  \/ RolesOfClass(heap[req[u].principal].account, req[u].class)' = {}
               \/ <<heap'[req'[u].principal].account, req'[u].class>> \in doubled'
    <3>1. u # t /\ pc[u] = "save" /\ Reading(u) /\ req[u].command = "create"
      BY <1>10, <1>15, <2>1 DEF Reading
    <3>2. /\ heap'[req'[u].principal].account = heap[req[u].principal].account
          /\ req'[u].class = req[u].class
      BY <1>7, <1>15, <3>1 DEF IInv, ReferenceInv
    <3>9. PICK b : b = heap[req[u].principal].account
      OBVIOUS
    <3>10. PICK k : k = req[u].class
      OBVIOUS
    <3>11. RolesOfClass(b, k)' = {} \/ <<b, k>> \in doubled'
      BY <1>1, <3>1, <3>9, <3>10, RolesKept DEF IInv, SavingInv
    <3>12. b = heap'[req'[u].principal].account /\ k = req'[u].class
      BY <3>2, <3>9, <3>10
    <3> QED
      BY <3>11, <3>12 DEF RolesOfClass, RolesOf
  <2>2. ASSUME NEW u \in Threads, pc'[u] \in {"load", "set"}, req'[u].command = "create",
               req'[u].alone, req'[u].session # None
        PROVE  RolesOfClass(heap[context[req[u].session]].account, req[u].class)' # {}
    <3>1. /\ u # t /\ pc[u] \in {"load", "set"} /\ req[u] # None
          /\ req[u].command = "create" /\ req[u].alone /\ req[u].session # None
      BY <1>10, <1>15, <2>2 DEF IInv, ReferenceInv
    <3>2. context[req[u].session] \in Principals
      BY <3>1, SessionIsSignedIn
    <3>3. /\ heap'[context'[req'[u].session]].account = heap[context[req[u].session]].account
          /\ req'[u].class = req[u].class
      BY <1>1, <1>7, <1>15, <3>1, <3>2
    <3> QED
      BY <1>1, <3>1, <3>3, RolesKept DEF IInv, SavingInv
  <2> QED
    BY <2>1, <2>2 DEF SavingInv, RolesOfClass, RolesOf
<1>23. SharingInv'
  <2>1. \A z, y \in Sessions : context'[z] # None /\ context'[z] = context'[y] => z = y
    BY <1>1 DEF IInv, SharingInv
  <2>2. ASSUME NEW v \in Threads, Active(v)', NEW u \in Threads \ {v}, Active(u)',
               req'[u].session = req'[v].session
        PROVE  req'[v].session = None \/ ~req'[v].alone
    <3>1. CASE v = t
      BY <1>9, <1>11, <1>15, <1>17, <2>2, <3>1
    <3>2. CASE u = t
      BY <1>9, <1>11, <1>15, <1>17, <2>2, <3>2
    <3>3. CASE v # t /\ u # t
      BY <1>11, <1>15, <2>2, <3>3 DEF IInv, SharingInv
    <3> QED
      BY <3>1, <3>2, <3>3
  <2>4. ASSUME NEW v \in Threads, Reading(v)', NEW u \in Threads \ {v}, Reading(u)',
               req'[u].principal = req'[v].principal
        PROVE  ~req'[v].alone
    <3>1. CASE v = t
      BY <1>9, <1>11, <1>15, <1>16, <2>4, <3>1
    <3>2. CASE u = t
      BY <1>9, <1>11, <1>15, <1>16, <2>4, <3>2
    <3>3. CASE v # t /\ u # t
      BY <1>11, <1>15, <2>4, <3>3 DEF IInv, SharingInv
    <3> QED
      BY <3>1, <3>2, <3>3
  <2>3. ASSUME NEW v \in Threads, Reading(v)'
        PROVE  /\ \A z \in Sessions : context'[z] = req'[v].principal => req'[v].session = z
               /\ req'[v].alone /\ req'[v].session # None => context'[req'[v].session] = req'[v].principal
    <3>1. CASE v = t
      BY <1>1, <1>9, <3>1 DEF IInv, SharingInv, p
    <3>2. CASE v # t
      BY <1>1, <1>11, <1>15, <2>3, <3>2 DEF IInv, SharingInv
    <3> QED
      BY <3>1, <3>2
  <2> QED
    BY <2>1, <2>2, <2>3, <2>4 DEF SharingInv
<1>24. FreshInv'
  <2>1. \A u \in Threads : pc'[u] = "set" => u # t /\ pc[u] = "set"
    BY <1>10
  <2>2. \A u \in Threads : pc'[u] = "set" => req'[t].principal # req'[u].fresh
    BY <1>9, <1>15, <2>1 DEF IInv, FreshInv, p
  <2> QED
    BY <1>1, <1>10, <1>11, <1>15, <2>1, <2>2 DEF IInv, FreshInv
<1>25. OwnInv'
  <2>1. ASSUME NEW u \in Threads, pc'[u] = "use", req'[u].alone
        PROVE  heap'[req'[u].principal].active = req'[u].class
    <3>1. CASE u = t
      <4>1. command = "use"
        BY <1>10, <2>1, <3>1
      <4> QED
        BY <1>4, <1>5, <1>9, <3>1, <4>1
    <3>2. CASE u # t
      <4>1. pc[u] = "use" /\ Reading(u) /\ req[u].alone /\ req[u].principal # p
        BY <1>10, <1>15, <1>16, <2>1, <3>2 DEF Reading
      <4> QED
        BY <1>6, <1>15, <3>2, <4>1 DEF IInv, OwnInv, ReferenceInv
    <3> QED
      BY <3>1, <3>2
  <2> QED
    BY <2>1 DEF OwnInv
<1>26. LearnInv'
  <2>1. \A u \in Threads : pc'[u] \in {"set", "done"} => u # t /\ pc[u] = pc'[u]
    BY <1>10
  <2>2. \A u \in Threads : pc[u] = "set" => req[u].fresh \in Principals
    BY DEF IInv, ReferenceInv
  <2>3. \A u \in Threads : pc[u] = "done" /\ req[u].session # None =>
          context[req[u].session] \in Principals
    BY SessionIsSignedIn, NoneAssumption DEF IInv, ReferenceInv
  <2> QED
    BY <1>1, <1>7, <1>15, <2>1, <2>2, <2>3 DEF IInv, LearnInv, SessionLearnsRole
<1> QED
  BY <1>18, <1>19, <1>20, <1>21, <1>22, <1>23, <1>24, <1>25, <1>26, <1>27 DEF IInv

-----------------------------------------------------------------------------
(* The theorems. *)

LEMMA InitInv == Init => IInv
<1> SUFFICES ASSUME Init PROVE IInv
  OBVIOUS
<1>1. TypeOK
  BY DEF Init, TypeOK, Labels
<1>2. \A t \in Threads : pc[t] = "idle" /\ ~Active(t)
  BY DEF Init, Active
<1>3. RowInv /\ HeapInv
  BY DEF Init, RowInv, OneRolePerClass, HeapInv
<1>4. ReferenceInv
  BY <1>2 DEF Init, Reading, ReferenceInv
<1>5. CommandInv /\ SavingInv /\ SharingInv /\ FreshInv /\ OwnInv /\ LearnInv
  BY <1>2 DEF Init, Reading, CommandInv, SavingInv, SharingInv, FreshInv, OwnInv, LearnInv, SessionLearnsRole
<1> QED
  BY <1>1, <1>3, <1>4, <1>5 DEF IInv

(* The invariant of this proof: every action of Next preserves it, for any *)
(* number of accounts, sessions, threads and classes of roles.             *)
THEOREM Invariance == Spec => []IInv
<1>1. IInv /\ [Next]_vars => IInv'
  <2> SUFFICES ASSUME IInv, [Next]_vars PROVE IInv'
    OBVIOUS
  <2>1. ASSUME NEW a \in Accounts, SignUp(a) PROVE IInv'
    BY <2>1, SignUpStep
  <2>2. ASSUME NEW s \in Sessions, SignOut(s) PROVE IInv'
    BY <2>2, SignOutStep
  <2>3. ASSUME NEW s \in Sessions, NEW a \in Accounts, SignIn(s, a) PROVE IInv'
    BY <2>3, SignInStep
  <2>4. ASSUME NEW t \in Threads, NEW s \in Sessions, NEW command \in Commands,
               NEW c \in Roles, Receive(t, s, command, c)
        PROVE  IInv'
    BY <2>4, ReceiveStep
  <2>5. ASSUME NEW t \in Threads, Serve(t) PROVE IInv'
    BY <2>5, UseStep, AuthoriseStep, SaveStep, HandleUpdateStep, SetAuthenticationStep,
       FailStep DEF Serve
  <2>6. CASE UNCHANGED vars
    <3>1. /\ registered' = registered /\ role' = role /\ doubled' = doubled /\ heap' = heap
          /\ context' = context /\ pc' = pc /\ req' = req
      BY <2>6 DEF vars
    <3>2. TypeOK' /\ RowInv' /\ HeapInv'
      BY <3>1 DEF IInv, TypeOK, RowInv, OneRolePerClass, HeapInv, Correct
    <3>3. ReferenceInv' /\ SharingInv' /\ FreshInv' /\ OwnInv'
      BY <3>1 DEF IInv, ReferenceInv, SharingInv, FreshInv, OwnInv, Active, Reading
    <3>4. CommandInv' /\ SavingInv' /\ LearnInv'
      BY <3>1 DEF IInv, CommandInv, SavingInv, LearnInv, SessionLearnsRole, Active, RolesOfClass,
                  RolesOf
    <3> QED
      BY <3>2, <3>3, <3>4 DEF IInv
  <2> QED
    BY <2>1, <2>2, <2>3, <2>4, <2>5, <2>6 DEF Next
<1> QED
  BY <1>1, InitInv, PTL DEF Spec

(* Type correctness of accounts, Principals, contexts and requests. *)
THEOREM TypeCorrect == Spec => []TypeOK
<1>1. IInv => TypeOK
  BY DEF IInv
<1> QED
  BY <1>1, Invariance, PTL

(* However many sessions an account has, AuthenticatedWorkerCreateService  *)
(* and its kin give it a second role of a class only if the first one was  *)
(* saved while another request had found none: whatever began later finds  *)
(* the role in its snapshot and is not authorised.                         *)
THEOREM OneRole == Spec => []OneRolePerClass
<1>1. IInv => OneRolePerClass
  BY DEF IInv, RowInv
<1> QED
  BY <1>1, Invariance, PTL

(* The assertion of Principal.getActiveRoleId holds in every interleaving. *)
THEOREM ActiveRole == Spec => []ActiveRoleIsHeld
<1>1. IInv => ActiveRoleIsHeld
  BY DEF IInv, HeapInv, Correct, ActiveRoleIsHeld
<1> QED
  BY <1>1, Invariance, PTL

(* The role map of a Principal never names a role that is not there, is    *)
(* not of its account or is of another class.                              *)
THEOREM KnownRoles == Spec => []KnownRolesExist
<1>1. IInv => KnownRolesExist
  BY DEF IInv, HeapInv, Correct, KnownRolesExist
<1> QED
  BY <1>1, Invariance, PTL

(* A service whose session serves no other request meanwhile reads the id  *)
(* of the role that its controller serves.                                 *)
THEOREM OwnRole == Spec => []OwnRoleIdWhenAlone
<1>1. IInv => OwnRoleIdWhenAlone
  <2> SUFFICES ASSUME IInv, NEW t \in Threads, pc[t] = "use", req[t].alone
               PROVE  role[ActiveRoleId(req[t].principal)].class = req[t].class
    BY DEF OwnRoleIdWhenAlone
  <2> DEFINE p == heap[req[t].principal]
  <2>1. p # None /\ Correct(p) /\ p.active = req[t].class
    BY DEF IInv, ReferenceInv, HeapInv, OwnInv, Reading
  <2>2. role[p.roleMap[p.active]] = [account |-> p.account, class |-> p.active]
    BY <2>1 DEF Correct
  <2> QED
    BY <2>1, <2>2 DEF ActiveRoleId
<1> QED
  BY <1>1, Invariance, PTL

(* After handleUpdate the session knows the role that has been created,    *)
(* and goes on knowing it.                                                 *)
THEOREM Learns == Spec => []SessionLearnsRole
<1>1. IInv => SessionLearnsRole
  BY DEF IInv, LearnInv
<1> QED
  BY <1>1, Invariance, PTL

-----------------------------------------------------------------------------
(* The refinement of AtomicRoles. *)

InSession == [s \in Sessions |-> IF context[s] = None THEN None ELSE heap[context[s]]]

(* What is about to be put into a context belongs to who works there now. *)
KeepInv ==
  \A t \in Threads : pc[t] = "set" /\ req[t].session # None =>
    /\ heap[req[t].fresh].account = heap[context[req[t].session]].account
    /\ heap[req[t].fresh].active = Authenticated

LEMMA CorrectIsKnowing ==
  ASSUME TypeOK, RowInv, NEW p \in Principal, Correct(p), p.active = Authenticated
  PROVE  /\ p \in Simple!Knowing(p.account, DOMAIN p.roleMap)
         /\ DOMAIN p.roleMap \in SUBSET Simple!RolesOf(p.account)
         /\ Authenticated \in DOMAIN p.roleMap
<1> DEFINE m == p.roleMap
           a == p.account
<1>1. /\ m \in [DOMAIN m -> RoleIds] /\ DOMAIN m \in SUBSET Roles /\ a \in Accounts
      /\ p = [account |-> a, active |-> Authenticated, roleMap |-> m]
  BY DEF Principal
<1>2. \A c \in DOMAIN m : Simple!Has(a, c, m[c])
  BY DEF Correct, Simple!Has
<1>4. DOMAIN m \subseteq Simple!RolesOf(a)
  BY <1>1 DEF Correct, Simple!RolesOf, Simple!Has, Simple!Roles, Roles
<1> QED
  BY <1>1, <1>2, <1>4 DEF Correct, Simple!Knowing

LEMMA NewPrincipalKnows ==
  ASSUME TypeOK, RowInv, NEW a \in registered, NEW p \in NewPrincipals(a)
  PROVE  p \in Simple!Knowing(a, Simple!RolesOf(a))
<1>1. /\ p \in Principal /\ Correct(p) /\ p.account = a /\ p.active = Authenticated
      /\ \A c \in Roles : RolesOfClass(a, c) # {} => c \in DOMAIN p.roleMap
  BY NewPrincipalIsCorrect
<1>2. a \in Accounts
  BY DEF TypeOK
<1>3. /\ p \in Simple!Knowing(a, DOMAIN p.roleMap)
      /\ DOMAIN p.roleMap \subseteq Simple!RolesOf(a)
  BY <1>1, <1>2, CorrectIsKnowing
<1>4. ASSUME NEW c \in Simple!RolesOf(a) PROVE c \in DOMAIN p.roleMap
  <2>1. PICK i \in RoleIds : role[i] = [account |-> a, class |-> c]
    BY <1>4 DEF Simple!RolesOf, Simple!Has
  <2>2. c \in Roles
    BY <1>4 DEF Simple!RolesOf, Simple!Roles, Roles
  <2>3. role[i] # None
    BY <1>2, <2>1, <2>2, NoneAssumption DEF Row
  <2>4. i \in RolesOfClass(a, c)
    BY <2>1, <2>3 DEF RolesOfClass, RolesOf
  <2> QED
    BY <1>1, <2>2, <2>4
<1>5. DOMAIN p.roleMap = Simple!RolesOf(a)
  BY <1>3, <1>4
<1> QED
  BY <1>3, <1>5

(* Who is put into a context, and what for, does not change meanwhile. *)
LEMMA KeptInv ==
  ASSUME KeepInv,
         \A t \in Threads : pc'[t] = "set" /\ req'[t].session # None =>
           /\ pc[t] = "set" /\ req[t].session # None
           /\ heap'[req'[t].fresh] = heap[req[t].fresh]
           /\ heap'[context'[req'[t].session]].account = heap[context[req[t].session]].account
  PROVE  KeepInv'
BY DEF KeepInv

LEMMA SessionsKept ==
  ASSUME UNCHANGED context,
         \A s \in Sessions : context[s] # None => heap'[context[s]] = heap[context[s]]
  PROVE  InSession' = InSession
BY DEF InSession

LEMMA SettingFacts ==
  ASSUME IInv, NEW t \in Threads, pc[t] = "set"
  PROVE  /\ Active(t) /\ req[t] # None /\ req[t].fresh \in Principals
         /\ req[t].session # None =>
              /\ req[t].session \in Sessions
              /\ context[req[t].session] # None
              /\ context[req[t].session] \in Principals
<1>1. Active(t) /\ req[t] # None /\ req[t].fresh \in Principals
  BY DEF IInv, ReferenceInv, Active
<1> QED
  BY <1>1, SessionIsSignedIn DEF IInv, ReferenceInv

(* A request that ends, or goes on reading, changes no session. *)
LEMMA EndSimple ==
  ASSUME IInv, KeepInv, NEW t \in Threads, pc'[t] # "set",
         \A u \in Threads \ {t} : pc'[u] = pc[u] /\ req'[u] = req[u],
         UNCHANGED context, Collect
  PROVE  KeepInv' /\ InSession' = InSession
<1>1. \A s \in Sessions : context[s] # None =>
        context[s] \in Principals /\ heap'[context[s]] = heap[context[s]]
  BY CollectKeeps DEF IInv, TypeOK
<1>2. ASSUME NEW u \in Threads, pc'[u] = "set", req'[u].session # None
      PROVE  /\ pc[u] = "set" /\ req[u].session # None
             /\ heap'[req'[u].fresh] = heap[req[u].fresh]
             /\ heap'[context'[req'[u].session]].account = heap[context[req[u].session]].account
  <2>1. pc[u] = "set" /\ req'[u] = req[u] /\ Active(u)'
    BY <1>2 DEF Active
  <2>2. heap'[req'[u].fresh] = heap[req[u].fresh]
    BY <2>1, SettingFacts, CollectKeeps
  <2> QED
    BY <1>1, <1>2, <2>1, <2>2, SettingFacts
<1>3. KeepInv'
  BY <1>2, KeptInv
<1> QED
  BY <1>1, <1>3, SessionsKept

LEMMA UseSimple ==
  ASSUME IInv, KeepInv, NEW t \in Threads, Use(t) \/ Fail(t)
  PROVE  KeepInv' /\ UNCHANGED <<registered, role, doubled, InSession>>
<1>1. pc \in [Threads -> Labels] /\ req \in [Threads -> Request \cup {None}]
  BY DEF IInv, TypeOK
<1>2. /\ pc'[t] \in {"done", "idle"}
      /\ \A u \in Threads \ {t} : pc'[u] = pc[u] /\ req'[u] = req[u]
      /\ Collect /\ UNCHANGED <<registered, role, doubled, context>>
  BY <1>1 DEF Use, Fail, Answer, Go, database
<1> QED
  BY <1>2, EndSimple

LEMMA AuthoriseSimple ==
  ASSUME IInv, KeepInv, NEW t \in Threads, Authorise(t)
  PROVE  KeepInv' /\ UNCHANGED <<registered, role, doubled, InSession>>
<1>1. pc' = [pc EXCEPT ![t] = "save"] /\ UNCHANGED <<registered, role, doubled, heap, context, req>>
  BY DEF Authorise, Go, database
<1>2. \A u \in Threads : pc'[u] = "set" => pc[u] = "set"
  BY <1>1 DEF IInv, TypeOK
<1> QED
  BY <1>1, <1>2 DEF KeepInv, InSession

(* What was found when the role was asked for is still so when it is       *)
(* saved, unless the role was being created twice.                         *)
LEMMA SaveSimple ==
  ASSUME IInv, KeepInv, NEW t \in Threads, Save(t)
  PROVE  /\ KeepInv'
         /\ Simple!Next \/ UNCHANGED <<registered, role, doubled, InSession>>
<1> DEFINE a == heap[req[t].principal].account
           c == req[t].class
<1>1. /\ pc[t] = "save" /\ pc' = [pc EXCEPT ![t] = "load"]
      /\ req' = [req EXCEPT ![t].principal = None]
      /\ Collect /\ UNCHANGED <<registered, context>>
  BY DEF Save, Go
<1>2. pc \in [Threads -> Labels] /\ req \in [Threads -> Request \cup {None}]
  BY DEF IInv, TypeOK
<1>3. KeepInv' /\ InSession' = InSession
  <2>1. pc'[t] # "set" /\ \A u \in Threads \ {t} : pc'[u] = pc[u] /\ req'[u] = req[u]
    BY <1>1, <1>2
  <2> QED
    BY <1>1, <2>1, EndSimple
<1>4. CASE req[t].command # "create"
  BY <1>1, <1>3, <1>4 DEF Save
<1>5. CASE req[t].command = "create"
  <2>1. PICK i \in RoleIds :
          role[i] = None /\ role' = [role EXCEPT ![i] = [account |-> a, class |-> c]]
    BY <1>5 DEF Save, Unused
  <2>2. Active(t) /\ Reading(t) /\ heap[req[t].principal] \in Principal
    BY <1>1 DEF IInv, ReferenceInv, TypeOK, Active, Reading
  <2>3. a \in registered /\ a \in Accounts /\ c \in Classes
    BY <1>5, <2>2 DEF IInv, HeapInv, ReferenceInv, Correct, CommandInv, TypeOK
  <2>4. RolesOfClass(a, c) = {} \/ <<a, c>> \in doubled
    BY <1>1, <1>5 DEF IInv, SavingInv
  <2>5. c \notin Simple!RolesOf(a) \/ <<a, c>> \in doubled
    <3>1. SUFFICES ASSUME NEW k \in RoleIds, role[k] = [account |-> a, class |-> c]
                   PROVE  <<a, c>> \in doubled
      BY DEF Simple!RolesOf, Simple!Has
    <3>2. role[k] # None
      BY <2>3, <3>1, NoneAssumption DEF Row, Roles
    <3> QED
      BY <2>4, <3>1, <3>2 DEF RolesOfClass, RolesOf
  <2>7. doubled' = doubled \/ doubled' = doubled \cup {<<a, c>>}
    BY <1>5 DEF Save
  <2> HIDE DEF a, c
  <2>6. Simple!Acquire(a, c)
    BY <1>1, <1>3, <2>1, <2>3, <2>5, <2>7 DEF Simple!Acquire, Simple!Give, InSession
  <2> QED
    BY <1>3, <2>3, <2>6 DEF Simple!Next
<1> QED
  BY <1>3, <1>4, <1>5

LEMMA SignUpSimple ==
  ASSUME IInv, KeepInv, NEW a \in Accounts, SignUp(a)
  PROVE  KeepInv' /\ Simple!Next
<1>1. UNCHANGED <<doubled, heap, context, pc, req>>
  BY DEF SignUp
<1>2. PICK i \in RoleIds :
        /\ role[i] = None
        /\ role' = [role EXCEPT ![i] = [account |-> a, class |-> Authenticated]]
  BY DEF SignUp, Unused
<1>3. Simple!SignUp(a)
  BY <1>1, <1>2 DEF SignUp, Simple!SignUp, Simple!Give
<1> QED
  BY <1>1, <1>3 DEF KeepInv, Simple!Next

LEMMA SignInSimple ==
  ASSUME IInv, KeepInv, NEW s \in Sessions, NEW a \in Accounts, SignIn(s, a)
  PROVE  KeepInv' /\ Simple!Next
<1>9. PICK f \in Principals :
        /\ LoadUserByUsername(f, a)
        /\ context' = [context EXCEPT ![s] = f]
  BY DEF SignIn
<1>2. PICK q \in NewPrincipals(a) : heap' = [heap EXCEPT ![f] = q]
  BY <1>9 DEF LoadUserByUsername
<1>1. /\ context[s] = None /\ a \in registered /\ ~Referenced(f)
      /\ context' = [context EXCEPT ![s] = f]
      /\ UNCHANGED <<registered, role, doubled, pc, req>>
  BY <1>9 DEF SignIn, LoadUserByUsername, database
<1>3. /\ heap \in [Principals -> Principal \cup {None}]
      /\ context \in [Sessions -> Principals \cup {None}]
  BY DEF IInv, TypeOK
<1>4. /\ heap'[f] = q
      /\ \A p \in Principals \ {f} : heap'[p] = heap[p]
      /\ context'[s] = f
      /\ \A z \in Sessions \ {s} : context'[z] = context[z] /\ context[z] # f
      /\ f # None
  BY <1>1, <1>2, <1>3, NoneAssumption DEF Referenced
<1>5. KeepInv'
  <2>1. ASSUME NEW u \in Threads, pc[u] = "set" PROVE req[u].fresh \in Principals \ {f}
    BY <1>1, <2>1, SettingFacts DEF Referenced
  <2>2. ASSUME NEW u \in Threads, pc[u] = "set", req[u].session # None
        PROVE  /\ context'[req[u].session] = context[req[u].session]
               /\ context[req[u].session] \in Principals \ {f}
    BY <1>1, <1>4, <2>2, SettingFacts
  <2> QED
    BY <1>1, <1>4, <2>1, <2>2, KeptInv
<1>6. InSession' = [InSession EXCEPT ![s] = q] /\ InSession[s] = None
  BY <1>1, <1>3, <1>4 DEF InSession
<1>7. Simple!SignIn(s, a)
  BY <1>1, <1>6, NewPrincipalKnows DEF Simple!SignIn, InSession, IInv
<1> QED
  BY <1>5, <1>7 DEF Simple!Next

LEMMA SignOutSimple ==
  ASSUME IInv, KeepInv, NEW s \in Sessions, SignOut(s)
  PROVE  KeepInv' /\ Simple!Next
<1>1. /\ context[s] # None /\ context' = [context EXCEPT ![s] = None]
      /\ UNCHANGED <<registered, role, doubled, pc>> /\ Collect
  BY DEF SignOut, database
<1>2. /\ req \in [Threads -> Request \cup {None}]
      /\ context \in [Sessions -> Principals \cup {None}]
  BY DEF IInv, TypeOK
<1>3. ASSUME NEW u \in Threads, req[u] # None
      PROVE  /\ req'[u].fresh = req[u].fresh
             /\ req'[u].session # None => req[u].session # s /\ req'[u].session = req[u].session
  <2>1. req[u] \in Request
    BY <1>2, <1>3
  <2>2. req'[u] = IF req[u].session = s THEN [req[u] EXCEPT !.session = None] ELSE req[u]
    BY <1>3 DEF SignOut
  <2> QED
    BY <2>1, <2>2 DEF Request
<1>4. \A z \in Sessions \ {s} : /\ context'[z] = context[z]
                                /\ context[z] # None => heap'[context[z]] = heap[context[z]]
  BY <1>1, <1>2, CollectKeeps
<1>5. ASSUME NEW u \in Threads, pc'[u] = "set", req'[u].session # None
      PROVE  /\ pc[u] = "set" /\ req[u].session # None
             /\ heap'[req'[u].fresh] = heap[req[u].fresh]
             /\ heap'[context'[req'[u].session]].account = heap[context[req[u].session]].account
  <2>1. pc[u] = "set" /\ Active(u)'
    BY <1>1, <1>5 DEF Active
  <2>2. req'[u].fresh = req[u].fresh /\ req[u].session # s /\ req'[u].session = req[u].session
    BY <1>3, <1>5, <2>1, SettingFacts
  <2>3. req[u].session \in Sessions \ {s} /\ context[req[u].session] # None
        /\ req[u].fresh \in Principals
    BY <1>5, <2>1, <2>2, SettingFacts
  <2>4. heap'[req'[u].fresh] = heap[req[u].fresh]
    BY <1>1, <2>1, <2>2, <2>3, CollectKeeps
  <2> QED
    BY <1>4, <1>5, <2>1, <2>2, <2>3, <2>4
<1>6. InSession' = [InSession EXCEPT ![s] = None]
  BY <1>1, <1>2, <1>4 DEF InSession
<1>7. InSession[s] # None
  BY <1>1 DEF InSession, IInv, ReferenceInv
<1>8. Simple!SignOut(s)
  BY <1>1, <1>6, <1>7 DEF Simple!SignOut, InSession
<1> QED
  BY <1>5, <1>8, KeptInv DEF Simple!Next

LEMMA HandleUpdateSimple ==
  ASSUME IInv, KeepInv, NEW t \in Threads, HandleUpdate(t)
  PROVE  KeepInv' /\ UNCHANGED <<registered, role, doubled, InSession>>
<1> DEFINE s == req[t].session
           a == heap[context[s]].account
<1>0. PICK f \in Principals : LoadUserByUsername(f, a) /\ req' = [req EXCEPT ![t].fresh = f]
  BY DEF HandleUpdate
<1>12. PICK q \in NewPrincipals(a) : heap' = [heap EXCEPT ![f] = q]
  BY <1>0 DEF LoadUserByUsername
<1>1. /\ pc[t] = "load" /\ s # None
      /\ heap' = [heap EXCEPT ![f] = q]
      /\ req' = [req EXCEPT ![t].fresh = f]
      /\ pc' = [pc EXCEPT ![t] = "set"]
      /\ UNCHANGED <<registered, role, doubled, context>>
  BY <1>0, <1>12 DEF HandleUpdate, Go, database
<1>2. /\ pc \in [Threads -> Labels] /\ req \in [Threads -> Request \cup {None}]
      /\ context \in [Sessions -> Principals \cup {None}]
      /\ heap \in [Principals -> Principal \cup {None}]
  BY DEF IInv, TypeOK
<1>3. req[t] # None /\ req[t] \in Request
  BY <1>1, <1>2 DEF IInv, ReferenceInv
<1>4. s \in Sessions /\ context[s] \in Principals
  BY <1>1, <1>3, SessionIsSignedIn
<1>5. ~Referenced(f)
  BY <1>0 DEF LoadUserByUsername
<1>6. q.account = a /\ q.active = Authenticated
  BY DEF NewPrincipals
<1>7. req'[t].fresh = f /\ req'[t].session = s
      /\ \A u \in Threads \ {t} : pc'[u] = pc[u] /\ req'[u] = req[u]
  BY <1>1, <1>2, <1>3 DEF Request
<1>8. /\ \A z \in Sessions : context[z] # f
      /\ heap'[f] = q
      /\ \A p \in Principals \ {f} : heap'[p] = heap[p]
  BY <1>1, <1>2, <1>5 DEF Referenced
<1>9. \A z \in Sessions : context[z] # None => heap'[context[z]] = heap[context[z]]
  BY <1>2, <1>8
<1>10. ASSUME NEW u \in Threads \ {t}, pc'[u] = "set", req'[u].session # None
       PROVE  /\ heap'[req'[u].fresh].account = heap'[context'[req'[u].session]].account
              /\ heap'[req'[u].fresh].active = Authenticated
  <2>1. pc[u] = "set" /\ req'[u] = req[u]
    BY <1>7, <1>10
  <2>2. /\ req[u].fresh \in Principals \ {f}
        /\ req[u].session \in Sessions /\ context[req[u].session] # None
    BY <1>5, <1>10, <2>1, SettingFacts DEF Referenced
  <2> QED
    BY <1>1, <1>8, <1>9, <1>10, <2>1, <2>2 DEF KeepInv
<1>11. /\ heap'[req'[t].fresh].account = heap'[context'[req'[t].session]].account
       /\ heap'[req'[t].fresh].active = Authenticated
  <2>1. heap'[context[s]].account = a
    BY <1>4, <1>8
  <2> QED
    BY <1>1, <1>6, <1>7, <1>8, <2>1
<1> QED
  BY <1>1, <1>9, <1>10, <1>11, SessionsKept DEF KeepInv

(* The session gets a Principal of the account that works in it. *)
LEMMA SetAuthenticationSimple ==
  ASSUME IInv, KeepInv, NEW t \in Threads, SetAuthentication(t)
  PROVE  /\ KeepInv'
         /\ Simple!Next \/ UNCHANGED <<registered, role, doubled, InSession>>
<1> DEFINE s == req[t].session
           f == req[t].fresh
<1>1. /\ pc[t] = "set"
      /\ context' = [z \in Sessions |-> IF z = s THEN f ELSE context[z]]
      /\ Collect /\ UNCHANGED <<registered, role, doubled>>
  BY DEF SetAuthentication, database
<1>2. /\ pc \in [Threads -> Labels] /\ req \in [Threads -> Request \cup {None}]
      /\ context \in [Sessions -> Principals \cup {None}]
      /\ heap \in [Principals -> Principal \cup {None}]
  BY DEF IInv, TypeOK
<1>3. /\ f \in Principals /\ heap[f] # None /\ heap[f] \in Principal /\ Correct(heap[f])
      /\ f # None
  BY <1>1, <1>2, NoneAssumption DEF IInv, ReferenceInv, HeapInv
<1>4. /\ pc'[t] # "set"
      /\ \A u \in Threads \ {t} : pc'[u] = pc[u] /\ req'[u] = req[u]
  BY <1>2 DEF SetAuthentication, Answer, Go
<1>5. /\ s \in Sessions => context'[s] = f /\ heap'[f] = heap[f]
      /\ \A z \in Sessions \ {s} :
           /\ context'[z] = context[z]
           /\ context[z] # None => heap'[context[z]] = heap[context[z]]
  BY <1>1, <1>2, <1>3, CollectKeeps
<1>6. CASE s = None
  <2>1. s \notin Sessions
    BY <1>6, NoneAssumption
  <2>2. context' = context
    BY <1>1, <1>2, <2>1
  <2> QED
    BY <1>1, <1>4, <2>2, EndSimple
<1>7. CASE s # None
  <2>1. s \in Sessions /\ context[s] \in Principals /\ context[s] # None /\ heap[context[s]] # None
    BY <1>1, <1>7, SettingFacts, SessionIsSignedIn
  <2>2. heap[f].account = heap[context[s]].account /\ heap[f].active = Authenticated
    BY <1>1, <1>7 DEF KeepInv
  <2> HIDE DEF s, f
  <2>3. ASSUME NEW u \in Threads, pc'[u] = "set", req'[u].session # None
        PROVE  /\ pc[u] = "set" /\ req[u].session # None
               /\ heap'[req'[u].fresh] = heap[req[u].fresh]
               /\ heap'[context'[req'[u].session]].account = heap[context[req[u].session]].account
    <3>1. pc[u] = "set" /\ req'[u] = req[u] /\ Active(u)'
      BY <1>4, <2>3 DEF Active
    <3>2. heap'[req'[u].fresh] = heap[req[u].fresh]
      BY <1>1, <3>1, SettingFacts, CollectKeeps
    <3>3. req[u].session \in Sessions /\ context[req[u].session] # None
      BY <2>3, <3>1, SettingFacts
    <3>4. heap'[context'[req[u].session]].account = heap[context[req[u].session]].account
      BY <1>5, <2>1, <2>2, <3>3
    <3> QED
      BY <2>3, <3>1, <3>2, <3>4
  <2>4. InSession' = [InSession EXCEPT ![s] = heap[f]] /\ InSession[s] = heap[context[s]]
    BY <1>3, <1>5, <2>1 DEF InSession
  <2> DEFINE a == heap[context[s]].account
             R == DOMAIN heap[f].roleMap
  <2>5. /\ heap[f] \in Simple!Knowing(a, R)
        /\ R \in SUBSET Simple!RolesOf(a)
        /\ Authenticated \in R
    BY <1>3, <2>2, CorrectIsKnowing DEF IInv
  <2> HIDE DEF a, R
  <2>6. InSession[s] # None /\ InSession[s].account = a
    BY <2>1, <2>4 DEF a
  <2>7. \E Q \in SUBSET Simple!RolesOf(InSession[s].account) :
          /\ Authenticated \in Q
          /\ \E p \in Simple!Knowing(InSession[s].account, Q) :
               InSession' = [InSession EXCEPT ![s] = p]
    BY <2>4, <2>5, <2>6
  <2>8. PICK z \in Sessions : z = s
    BY <2>1
  <2>9. KeepInv'
    BY <2>3, KeptInv
  <2>10. Simple!Next
    <3>1. Simple!Refresh(z)
      BY <1>1, <2>6, <2>7, <2>8 DEF Simple!Refresh, InSession
    <3> QED
      BY <3>1 DEF Simple!Next
  <2> QED
    BY <2>9, <2>10
<1> QED
  BY <1>6, <1>7

LEMMA ReceiveSimple ==
  ASSUME IInv, KeepInv, NEW t \in Threads, NEW s \in Sessions, NEW command \in Commands,
         NEW c \in Roles, Receive(t, s, command, c)
  PROVE  KeepInv' /\ Simple!Next
<1> DEFINE p == context[s]
           rc == RoleClazz(command, c)
<1>1. /\ p # None /\ rc \in DOMAIN heap[p].roleMap
      /\ heap' = [heap EXCEPT ![p].active = rc]
      /\ pc' = [pc EXCEPT ![t] = IF command = "use" THEN "use" ELSE "authorise"]
      /\ UNCHANGED <<registered, role, doubled, context>>
  BY DEF Receive, Enter, Go, database
<1>2. /\ pc \in [Threads -> Labels] /\ req \in [Threads -> Request \cup {None}]
      /\ context \in [Sessions -> Principals \cup {None}]
      /\ heap \in [Principals -> Principal \cup {None}]
  BY DEF IInv, TypeOK
<1>3. p \in Principals /\ heap[p] # None /\ heap[p] \in Principal /\ rc \in Roles
  BY <1>1, <1>2 DEF IInv, ReferenceInv, RoleClazz, Roles
<1>4. heap'[p] = [heap[p] EXCEPT !.active = rc] /\ heap'[p].account = heap[p].account
      /\ \A q \in Principals \ {p} : heap'[q] = heap[q]
  BY <1>1, <1>2, <1>3 DEF Principal
<1>5. \A z \in Sessions \ {s} : context[z] # p
  BY <1>1 DEF IInv, SharingInv
<1>6. ASSUME NEW u \in Threads \ {t}, req[u] # None
      PROVE  req'[u].fresh = req[u].fresh /\ req'[u].session = req[u].session
  <2>1. req[u] \in Request
    BY <1>2, <1>6
  <2>2. req'[u] = req[u] \/ req'[u] = [req[u] EXCEPT !.alone = FALSE]
    BY DEF Receive, Enter
  <2> QED
    BY <2>1, <2>2 DEF Request
<1> HIDE DEF p, rc
<1>7. ASSUME NEW u \in Threads, pc'[u] = "set", req'[u].session # None
      PROVE  /\ pc[u] = "set" /\ req[u].session # None
             /\ heap'[req'[u].fresh] = heap[req[u].fresh]
             /\ heap'[context'[req'[u].session]].account = heap[context[req[u].session]].account
  <2>1. u # t /\ pc[u] = "set"
    BY <1>1, <1>2, <1>7
  <2>2. req'[u].fresh = req[u].fresh /\ req'[u].session = req[u].session
    BY <1>6, <2>1, SettingFacts
  <2>3. req[u].fresh # p /\ req[u].fresh \in Principals
    BY <2>1, SettingFacts DEF IInv, FreshInv, p
  <2>4. req[u].session \in Sessions /\ context[req[u].session] \in Principals
    BY <1>7, <2>1, <2>2, SettingFacts
  <2>5. \A q \in Principals : heap'[q].account = heap[q].account
    BY <1>4
  <2> QED
    BY <1>1, <1>4, <1>7, <2>1, <2>2, <2>3, <2>4, <2>5
<1>8. InSession[s] = heap[p] /\ InSession[s] # None
  BY <1>1, <1>3 DEF InSession, p
<1>9. InSession' = [InSession EXCEPT ![s].active = rc]
  <2>1. InSession' = [InSession EXCEPT ![s] = heap'[p]]
    <3>1. \A z \in Sessions \ {s} : context[z] # None => heap'[context[z]] = heap[context[z]]
      BY <1>2, <1>4, <1>5
    <3>2. context' = context /\ context[s] = p /\ p # None
      BY <1>1 DEF p
    <3>3. \A z \in Sessions \ {s} :
            (IF context[z] = None THEN None ELSE heap'[context[z]])
              = IF context[z] = None THEN None ELSE heap[context[z]]
      BY <3>1
    <3>4. InSession' = [z \in Sessions |-> IF context[z] = None THEN None ELSE heap'[context[z]]]
      BY <3>2 DEF InSession
    <3> QED
      BY <3>2, <3>3, <3>4 DEF InSession
  <2>2. InSession = [z \in Sessions |-> InSession[z]]
    BY DEF InSession
  <2> QED
    BY <1>4, <1>8, <2>1, <2>2
<1>10. Simple!Work(s, rc)
  BY <1>1, <1>8, <1>9 DEF Simple!Work, InSession
<1> QED
  BY <1>3, <1>7, <1>10, KeptInv DEF Simple!Next, Simple!Roles, Roles

(* Requests of one session that share its Principal, keep older ones and   *)
(* replace it, are as good as sessions with one principal each, and the    *)
(* roles that requests of many sessions create are as if asked for and     *)
(* saved in one instant, but for those that were created twice at once     *)
(* (PrincipalHelper, setActiveRole, the services that create roles).       *)
THEOREM SessionsAreSimple == Spec => ImplementsAtomicRoles
<1>1. Init => KeepInv /\ Simple!Init
  <2> SUFFICES ASSUME Init PROVE KeepInv /\ Simple!Init
    OBVIOUS
  <2>1. KeepInv
    BY DEF Init, KeepInv
  <2> QED
    BY <2>1 DEF Init, Simple!Init
<1>2. ASSUME IInv, KeepInv, [Next]_vars
      PROVE  /\ KeepInv'
             /\ Simple!Next \/ UNCHANGED <<registered, role, doubled, InSession>>
  <2>1. ASSUME NEW t \in Threads, Serve(t)
        PROVE  KeepInv' /\ (Simple!Next \/ UNCHANGED <<registered, role, doubled, InSession>>)
    BY <1>2, <2>1, UseSimple, AuthoriseSimple, SaveSimple, HandleUpdateSimple,
       SetAuthenticationSimple DEF Serve
  <2>2. CASE UNCHANGED vars
    BY <1>2, <2>2 DEF vars, database, KeepInv, InSession
  <2> QED
    BY <1>2, <2>1, <2>2, SignUpSimple, SignInSimple, SignOutSimple, ReceiveSimple DEF Next
<1>3. Simple!Next \/ UNCHANGED <<registered, role, doubled, InSession>> => [Simple!Next]_(Simple!vars)
  BY DEF Simple!vars, InSession
<1>4. IInv /\ KeepInv /\ [Next]_vars => KeepInv' /\ [Simple!Next]_(Simple!vars)
  BY <1>2, <1>3
<1> QED
  BY <1>1, <1>4, Invariance, PTL DEF Spec, ImplementsAtomicRoles, Simple!Spec
=============================================================================
