---------------------------- MODULE AtomicRoles ----------------------------
(***************************************************************************)
(* What the sessions of an account promise: a role is asked for and saved  *)
(* in one instant, so that an account has one role of a class, but for the *)
(* "doubled" ones, given while they were being asked for again; a session  *)
(* has one principal, which changes in one instant.  Until it signs out a  *)
(* session works for one account, in one of the roles that its principal   *)
(* knows; these are roles of the account under their own ids, though not   *)
(* always all of them: another session, or an answer that comes late, may  *)
(* leave it without the latest.                                            *)
(***************************************************************************)

CONSTANTS
  Accounts, Sessions,
  Classes,        \* the roles that a user can acquire
  Authenticated,  \* the role that every account has
  RoleIds,        \* the identifiers of the rows of roles
  None

VARIABLES
  registered,     \* the accounts that exist
  role,           \* role[i]: the row of table role with id i
  principal,      \* principal[s]: who works in session s, with which roles
  doubled         \* the <<account, class>> that may have several roles

vars == <<registered, role, principal, doubled>>

Roles == Classes \cup {Authenticated}

Has(a, c, i) == role[i] = [account |-> a, class |-> c]

RolesOf(a) == {c \in Roles : \E i \in RoleIds : Has(a, c, i)}

(* The principals of a with the roles of R. *)
Knowing(a, R) ==
  {[account |-> a, active |-> Authenticated, roleMap |-> map] :
     map \in {m \in [R -> RoleIds] : \A c \in R : Has(a, c, m[c])}}

Init ==
  /\ registered = {}
  /\ role = [i \in RoleIds |-> None]
  /\ principal = [s \in Sessions |-> None]
  /\ doubled = {}

Give(a, c) ==
  \E i \in RoleIds :
    /\ role[i] = None
    /\ role' = [role EXCEPT ![i] = [account |-> a, class |-> c]]

SignUp(a) ==
  /\ a \notin registered
  /\ registered' = registered \cup {a}
  /\ Give(a, Authenticated)
  /\ UNCHANGED <<principal, doubled>>

Acquire(a, c) ==
  /\ a \in registered
  /\ c \notin RolesOf(a) \/ <<a, c>> \in doubled
  /\ Give(a, c)
  /\ doubled' \in {doubled, doubled \cup {<<a, c>>}}
  /\ UNCHANGED <<registered, principal>>

SignIn(s, a) ==
  /\ principal[s] = None
  /\ a \in registered
  /\ \E p \in Knowing(a, RolesOf(a)) : principal' = [principal EXCEPT ![s] = p]
  /\ UNCHANGED <<registered, role, doubled>>

SignOut(s) ==
  /\ principal[s] # None
  /\ principal' = [principal EXCEPT ![s] = None]
  /\ UNCHANGED <<registered, role, doubled>>

(* A request makes a role active. *)
Work(s, c) ==
  /\ principal[s] # None
  /\ c \in DOMAIN principal[s].roleMap
  /\ principal' = [principal EXCEPT ![s].active = c]
  /\ UNCHANGED <<registered, role, doubled>>

(* A session is told of the roles R, which its account has. *)
Refresh(s) ==
  /\ principal[s] # None
  /\ LET a == principal[s].account IN
       \E R \in SUBSET RolesOf(a) :
         /\ Authenticated \in R
         /\ \E p \in Knowing(a, R) : principal' = [principal EXCEPT ![s] = p]
  /\ UNCHANGED <<registered, role, doubled>>

Next ==
  \/ \E a \in Accounts : SignUp(a)
  \/ \E a \in Accounts, c \in Classes : Acquire(a, c)
  \/ \E s \in Sessions, a \in Accounts : SignIn(s, a)
  \/ \E s \in Sessions : SignOut(s) \/ Refresh(s)
  \/ \E s \in Sessions, c \in Roles : Work(s, c)

Spec == Init /\ [][Next]_vars
=============================================================================
