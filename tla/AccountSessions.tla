--------------------------- MODULE AccountSessions ---------------------------
(***************************************************************************)
(* User accounts, their roles, and the principals of the sessions in which *)
(* people work with them.                                                  *)
(*                                                                         *)
(* An account has one row per role.  Signing in makes a Principal, a copy  *)
(* of the roles of the account with the one that is active, and puts it    *)
(* into the security context of the session.  All the requests of a        *)
(* session share that context, and those that found the same Principal in  *)
(* it share the object: AbstractController sets the active role, services  *)
(* read it.  The services that create or update a role or the account let  *)
(* PrincipalHelper.handleUpdate replace the Principal when they have been  *)
(* committed.                                                              *)
(*                                                                         *)
(* Requests interleave at every access to the context, to a Principal and  *)
(* to the database, at one controller or at several.  A role is looked for *)
(* in the snapshot of a transaction and inserted when it commits: two      *)
(* requests that overlap may both find none and insert two of a class.     *)
(* "doubled" remembers the roles that were inserted while another request  *)
(* was about to.  Texts, passwords and spam only add reasons to fail.      *)
(***************************************************************************)
EXTENDS Naturals

CONSTANTS
  Accounts, Sessions, Threads,
  Classes,        \* the roles that a user can acquire: Worker, Employer, ...
  Authenticated,  \* the role that every account has
  RoleIds,        \* bound: the identifiers of the rows of roles
  Principals,     \* bound: the Principal objects in use at a time
  None

Roles == Classes \cup {Authenticated}
Row == [account : Accounts, class : Roles]
Principal ==
  [account : Accounts, active : Roles,
   roleMap : UNION {[R -> RoleIds] : R \in SUBSET Roles}]

(* use: a service that asks for the id of the active role.                 *)
(* create, update: of the role class, or of the account (Authenticated).   *)
Commands == {"use", "create", "update"}
Request ==
  [command : Commands, class : Roles, session : Sessions \cup {None},
   principal : Principals \cup {None}, fresh : Principals \cup {None},
   alone : BOOLEAN]
Labels == {"idle", "use", "authorise", "save", "load", "set", "done"}

ASSUME AuthenticatedAssumption == Authenticated \notin Classes
ASSUME NoneAssumption ==
  None \notin Row \cup Principal \cup Request \cup Principals \cup Sessions \cup RoleIds

VARIABLES
  registered,  \* the accounts that exist
  role,        \* role[i]: the row of table role with id i
  heap,        \* heap[p]: the fields of Principal object p
  context,     \* context[s]: the Principal in the security context of s
  pc, req,     \* the statement that a thread executes and its request
  doubled      \* history: the <<account, class>> created by two at once

database == <<registered, role, doubled>>
vars == <<registered, role, doubled, heap, context, pc, req>>

Init ==
  /\ registered = {}
  /\ role = [i \in RoleIds |-> None]
  /\ doubled = {}
  /\ heap = [p \in Principals |-> None]
  /\ context = [s \in Sessions |-> None]
  /\ pc = [t \in Threads |-> "idle"]
  /\ req = [t \in Threads |-> None]

Active(t) == pc[t] \notin {"idle", "done"}

RolesOf(a) == {i \in RoleIds : role[i] # None /\ role[i].account = a}
RolesOfClass(a, c) == {i \in RolesOf(a) : role[i].class = c}
Unused == {i \in RoleIds : role[i] = None}

-----------------------------------------------------------------------------
(* Making a Principal. *)


(* Mutant: the role map keeps any id of the account for a class. *)
MutRoleMaps(a) == [{role[i].class : i \in RolesOf(a)} -> RolesOf(a)]

(* A role map of account a: a put for every role, of which the last one of *)
(* a class stays; the database gives the roles in any order.               *)
RoleMaps(a) ==
  {map \in [{role[i].class : i \in RolesOf(a)} -> RolesOf(a)] :
     \A c \in DOMAIN map : role[map[c]].class = c}


(* Mutant: the active role is left null. *)
MutNewPrincipals(a) ==
  {[account |-> a, active |-> None, roleMap |-> map] : map \in RoleMaps(a)}

(* setAuthorities and setActiveRole of a new Principal of a. *)
NewPrincipals(a) ==
  {[account |-> a, active |-> Authenticated, roleMap |-> map] : map \in RoleMaps(a)}

(* An object is in use while a session or a request on its way knows it. *)
Referenced(p) ==
  \/ \E s \in Sessions : context[s] = p
  \/ \E t \in Threads : Active(t) /\ p \in {req[t].principal, req[t].fresh}

(* The new object p is made. *)
LoadUserByUsername(p, a) ==
  /\ ~Referenced(p)
  /\ \E fields \in NewPrincipals(a) : heap' = [heap EXCEPT ![p] = fields]

(* Objects that nobody knows any more do not count. *)
Collect == heap' = [p \in Principals |-> IF Referenced(p)' THEN heap[p] ELSE None]

-----------------------------------------------------------------------------
(* Requests. *)

Go(t, label) == pc' = [pc EXCEPT ![t] = label]

(* The request lets go of its Principals.  What the properties ask of an   *)
(* answer is remembered: the role that its session was given.              *)
Answer(t) ==
  IF req[t].command = "create" /\ req[t].alone
  THEN /\ req' = [req EXCEPT ![t] = [@ EXCEPT !.principal = None, !.fresh = None]]
       /\ Go(t, "done")
  ELSE /\ req' = [req EXCEPT ![t] = None]
       /\ Go(t, "idle")

(* Nobody else knows the Principal of a session that is about to begin: a  *)
(* role that is created before it is put into the context might as well be *)
(* created right after.                                                    *)
SignIn(s, a) ==
  /\ context[s] = None
  /\ a \in registered
  /\ \E p \in Principals :
       /\ LoadUserByUsername(p, a)
       /\ context' = [context EXCEPT ![s] = p]
  /\ UNCHANGED <<database, pc, req>>

(* The role of the controller that serves a command. *)
RoleClazz(command, c) == IF command = "use" THEN c ELSE Authenticated

(* alone is bookkeeping for the properties, which ask it of the requests   *)
(* that read or create: no other request of the session is on its way.     *)
Enter(t, s, command, c) ==
  /\ ~Active(t)
  /\ LET together == {u \in Threads \ {t} : Active(u) /\ req[u].session = s} IN
       req' = [u \in Threads |->
                 IF u = t
                 THEN [command |-> command, class |-> c, session |-> s,
                       principal |-> context[s], fresh |-> None,
                       alone |-> command # "update" /\ together = {}]
                 ELSE IF u \in together THEN [req[u] EXCEPT !.alone = FALSE]
                 ELSE req[u]]
  /\ Go(t, IF command = "use" THEN "use" ELSE "authorise")


(* Mutant: the active role is set at sign in only. *)
MutReceiveKeeps(t, s, command, c) ==
  /\ context[s] # None
  /\ command = "create" => c \in Classes
  /\ RoleClazz(command, c) \in DOMAIN heap[context[s]].roleMap
  /\ Enter(t, s, command, c)
  /\ UNCHANGED <<database, heap, context>>

(* The Principal that the constructor of Request finds, hasRole and        *)
(* setActiveRole.  The context may get another Principal before hasRole is *)
(* asked, but the request stays with the one it has, and one that is       *)
(* denied leaves nothing behind.                                           *)
Receive(t, s, command, c) ==
  /\ context[s] # None
  /\ command = "create" => c \in Classes
  /\ RoleClazz(command, c) \in DOMAIN heap[context[s]].roleMap
  /\ heap' = [heap EXCEPT ![context[s]].active = RoleClazz(command, c)]
  /\ Enter(t, s, command, c)
  /\ UNCHANGED <<database, context>>

(* getActiveRoleId of a Principal *)
ActiveRoleId(p) == heap[p].roleMap[heap[p].active]

(* A service asks for ActiveRoleId(req[t].principal), and answers with it. *)
Use(t) ==
  /\ pc[t] = "use"
  /\ heap[req[t].principal].active \in DOMAIN heap[req[t].principal].roleMap
  /\ Answer(t)
  /\ UNCHANGED <<database, context>>
  /\ Collect


(* Mutant: a role is created for everybody who asks. *)
MutAuthorise(t) ==
  /\ pc[t] = "authorise"
  /\ Go(t, "save")
  /\ UNCHANGED <<database, heap, context, req>>

(* authorise of a create service, findOne of an update service: a query    *)
(* for one row, which throws if there are two.                             *)
Authorise(t) ==
  /\ pc[t] = "authorise"
  /\ LET rows == RolesOfClass(heap[req[t].principal].account, req[t].class) IN
       IF req[t].command = "create" THEN rows = {} ELSE \E i \in RoleIds : rows = {i}
  /\ Go(t, "save")
  /\ UNCHANGED <<database, heap, context, req>>

(* The requests that have found no role of class c in the account. *)
Creating(a, c) ==
  {t \in Threads :
     /\ pc[t] = "save" /\ req[t].command = "create"
     /\ heap[req[t].principal].account = a /\ req[t].class = c}

(* create or update, with the commit that follows; the Principal that the  *)
(* request began with is of no use any more.                               *)
Save(t) ==
  /\ pc[t] = "save"
  /\ LET a == heap[req[t].principal].account
         c == req[t].class
     IN  IF req[t].command = "create"
         THEN /\ Unused # {}
              /\ role' = [role EXCEPT ![CHOOSE i \in RoleIds : role[i] = None] =
                            [account |-> a, class |-> c]]
              /\ doubled' = IF Creating(a, c) = {t} THEN doubled
                                                    ELSE doubled \cup {<<a, c>>}
         ELSE UNCHANGED <<role, doubled>>
  /\ req' = [req EXCEPT ![t].principal = None]
  /\ Go(t, "load")
  /\ UNCHANGED <<registered, context>>
  /\ Collect


(* Mutant: onSuccess makes no new Principal. *)
MutHandleUpdate(t) ==
  /\ pc[t] = "load"
  /\ Answer(t)
  /\ UNCHANGED <<database, context>>
  /\ Collect

(* handleUpdate asks the context of the session whose account to look up.  *)
(* Without a signed-in session its assertion fails: Fail.                  *)
HandleUpdate(t) ==
  /\ pc[t] = "load"
  /\ req[t].session # None
  /\ \E p \in Principals :
       /\ LoadUserByUsername(p, heap[context[req[t].session]].account)
       /\ req' = [req EXCEPT ![t].fresh = p]
  /\ Go(t, "set")
  /\ UNCHANGED <<database, context>>

SetAuthentication(t) ==
  /\ pc[t] = "set"
  /\ context' = [s \in Sessions |->
                   IF s = req[t].session THEN req[t].fresh ELSE context[s]]
  /\ Answer(t)
  /\ UNCHANGED database
  /\ Collect

(* Not authorised, invalid, failed, or an assertion does not hold. *)
Fail(t) ==
  /\ Active(t)
  /\ req' = [req EXCEPT ![t] = None]
  /\ Go(t, "idle")
  /\ UNCHANGED <<database, context>>
  /\ Collect

(* handleSignOut; what is still on its way works with an orphaned context. *)
SignOut(s) ==
  /\ context[s] # None
  /\ context' = [context EXCEPT ![s] = None]
  /\ req' = [t \in Threads |->
               IF req[t] # None /\ req[t].session = s
               THEN [req[t] EXCEPT !.session = None] ELSE req[t]]
  /\ UNCHANGED <<database, pc>>
  /\ Collect

(* An account and its first role are saved together; the unique column     *)
(* username keeps a second account out that validate has not seen.         *)
SignUp(a) ==
  /\ a \notin registered
  /\ Unused # {}
  /\ registered' = registered \cup {a}
  /\ role' = [role EXCEPT ![CHOOSE i \in RoleIds : role[i] = None] =
                [account |-> a, class |-> Authenticated]]
  /\ UNCHANGED <<doubled, heap, context, pc, req>>

Serve(t) ==
  \/ Use(t) \/ Authorise(t) \/ Save(t)
  \/ HandleUpdate(t) \/ SetAuthentication(t) \/ Fail(t)

Next ==
  \/ \E a \in Accounts : SignUp(a)
  \/ \E s \in Sessions : SignOut(s)
  \/ \E s \in Sessions, a \in Accounts : SignIn(s, a)
  \/ \E t \in Threads, s \in Sessions, command \in Commands, c \in Roles :
       Receive(t, s, command, c)
  \/ \E t \in Threads : Serve(t)

Spec == Init /\ [][Next]_vars

-----------------------------------------------------------------------------
(* Properties. *)

TypeOK ==
  /\ registered \in SUBSET Accounts
  /\ role \in [RoleIds -> Row \cup {None}]
  /\ doubled \subseteq Accounts \X Classes
  /\ heap \in [Principals -> Principal \cup {None}]
  /\ context \in [Sessions -> Principals \cup {None}]
  /\ pc \in [Threads -> Labels]
  /\ req \in [Threads -> Request \cup {None}]

(* An account has at most one role of a class: UserAccount.addRole asserts *)
(* it, the queries that return one Worker (Employer, ...) of an account    *)
(* need it, and the role map of a Principal has one id per class.  No      *)
(* column is unique: only the authorise methods stand for it, on a         *)
(* snapshot, for all the sessions of an account.  They fail in one case:   *)
(* the role is inserted while another request has found none, too.         *)
OneRolePerClass ==
  \A i, j \in RoleIds :
    role[i] # None /\ role[i] = role[j] /\ <<role[i].account, role[i].class>> \notin doubled
      => i = j

(* The assertion of Principal.getActiveRoleId never fails, although other  *)
(* requests of the session change the active role at any time.             *)
ActiveRoleIsHeld ==
  \A p \in Principals : heap[p] # None => heap[p].active \in DOMAIN heap[p].roleMap

(* However old a Principal is, the roles it names are roles of its account *)
(* under their own ids.                                                    *)
KnownRolesExist ==
  \A p \in Principals : heap[p] # None =>
    \A c \in DOMAIN heap[p].roleMap :
      role[heap[p].roleMap[c]] = [account |-> heap[p].account, class |-> c]

(* What a service reads as the id of its user, whenever it asks for it, is *)
(* the id of the role that its controller serves.                          *)
OwnRoleId ==
  \A t \in Threads : pc[t] = "use" =>
    role[ActiveRoleId(req[t].principal)].class = req[t].class

(* ... as long as its session has no other request on its way. *)
OwnRoleIdWhenAlone ==
  \A t \in Threads : pc[t] = "use" /\ req[t].alone =>
    role[ActiveRoleId(req[t].principal)].class = req[t].class

(* Once a request that created a role is answered, its session has the     *)
(* role, and keeps it whatever comes later, unless another request of the  *)
(* session was on its way meanwhile (its handleUpdate may have looked up   *)
(* the roles before, and put them into the context after).                 *)
SessionLearnsRole ==
  \A t \in Threads :
    pc[t] = "done" /\ req[t].session # None =>
      req[t].class \in DOMAIN heap[context[req[t].session]].roleMap

(* Requests that share a Principal, hold an old one or make a fresh one    *)
(* are as good as sessions with one principal each: what is checked before *)
(* a role is inserted still holds then, unless it was being created twice  *)
(* at once, a session changes its account only by signing out and in again *)
(* (handleUpdate asks the context for it), and a Principal never has a     *)
(* role that its account has not.                                          *)
Simple == INSTANCE AtomicRoles WITH
  principal <- [s \in Sessions |-> IF context[s] = None THEN None ELSE heap[context[s]]]

ImplementsAtomicRoles == Simple!Spec
=============================================================================
