---------------------------- MODULE AtomicForms ----------------------------
(***************************************************************************)
(* What the forms promise: rows are created, edited and deleted as if each *)
(* post read and saved its row in one instant, however long the form was   *)
(* open and whatever other desks saved in between.  A version counts the   *)
(* edits, an edit of one aspect of an account leaves the other as it is,   *)
(* announcements do not go back in time, a ticker is used once, and what   *)
(* is deleted stays deleted.  Deadlines are free: a post may take longer   *)
(* than the time that it left.                                             *)
(***************************************************************************)
EXTENDS Integers

CONSTANTS
  Rows,        \* the identifiers of the rows
  Initial,     \* what a row of a populated database may be
  Texts,       \* the texts that are typed
  Rewards,     \* the rewards that a challenge may get
  Tickers,     \* the tickers that are typed
  Times,       \* the instants that may be deadlines
  NoRow, Gone  \* a row that has not been created; one that was deleted

VARIABLES row, now

vars == <<row, now>>

Plain == {"companyRecord", "investorRecord", "worker", "employer", "consumer", "provider"}
Deletable == {"announcement", "challenge", "companyRecord", "investorRecord"}

Is(i, k) == row[i] \notin {NoRow, Gone} /\ row[i].kind = k

Used(k, x) == \E i \in Rows : Is(i, k) /\ row[i].content.ticker = x

Init ==
  /\ row \in [Rows -> Initial \cup {NoRow}]
  /\ \A i, j \in Rows, k \in {"offer", "request"} :
       i # j /\ Is(i, k) /\ Is(j, k) => row[i].content.ticker # row[j].content.ticker
  /\ now = 0

Put(i, k, v, c) ==
  /\ row' = [row EXCEPT ![i] = [kind |-> k, version |-> v, content |-> c]]
  /\ UNCHANGED now

Create(i, k, c) == row[i] = NoRow /\ Put(i, k, 0, c)

CreatePlain(i) == \E k \in Plain, x \in Texts : Create(i, k, [text |-> x])

CreateAnnouncement(i) ==
  \E x \in Texts, m \in 0..now : Create(i, "announcement", [text |-> x, moment |-> m])

CreateChallenge(i) ==
  \E r \in Rewards, e \in Times : Create(i, "challenge", [reward |-> r, deadline |-> e])

SignUp(i) == \E x \in Texts : Create(i, "userAccount", [text |-> x, enabled |-> TRUE])

CreateListing(i) ==
  \E k \in {"offer", "request"}, x \in Tickers, e \in Times :
    /\ ~Used(k, x)
    /\ Create(i, k, [ticker |-> x, deadline |-> e])

Edit(i, k, c) == Is(i, k) /\ Put(i, k, row[i].version + 1, c)

EditText(i) ==
  \E k \in Plain \cup {"configuration"}, x \in Texts :
    /\ Edit(i, k, [text |-> x])
    /\ x # row[i].content.text

EditAnnouncement(i) ==
  \E x \in Texts, m \in 0..now :
    /\ Edit(i, "announcement", [text |-> x, moment |-> m])
    /\ row[i].content.moment <= m

EditChallenge(i) ==
  \E r \in Rewards, e \in Times :
    /\ Edit(i, "challenge", [reward |-> r, deadline |-> e])
    /\ [reward |-> r, deadline |-> e] # row[i].content

EditIdentity(i) ==
  \E x \in Texts :
    /\ Edit(i, "userAccount", [text |-> x, enabled |-> row[i].content.enabled])
    /\ x # row[i].content.text

EditStatus(i) ==
  Edit(i, "userAccount", [text |-> row[i].content.text, enabled |-> ~row[i].content.enabled])

Delete(i) ==
  /\ \E k \in Deletable : Is(i, k)
  /\ row' = [row EXCEPT ![i] = Gone]
  /\ UNCHANGED now

Tick ==
  /\ now' = now + 1
  /\ UNCHANGED row

Next ==
  \/ \E i \in Rows :
       \/ CreatePlain(i) \/ CreateAnnouncement(i) \/ CreateChallenge(i)
       \/ SignUp(i) \/ CreateListing(i)
       \/ EditText(i) \/ EditAnnouncement(i) \/ EditChallenge(i)
       \/ EditIdentity(i) \/ EditStatus(i) \/ Delete(i)
  \/ Tick

Spec == Init /\ [][Next]_vars
=============================================================================
