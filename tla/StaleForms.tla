----------------------------- MODULE StaleForms -----------------------------
(***************************************************************************)
(* What is edited in forms: announcements, challenges, company and         *)
(* investor records, the configuration, user accounts and the profiles of  *)
(* the roles; and the offers and requests of the marketplace, which are    *)
(* only created.  Every row carries a version (DomainEntity, @Version).    *)
(*                                                                         *)
(* A form that shows a row keeps its id and its version in hidden fields,  *)
(* for as long as the tab is open.  Posting it reads the row again, puts   *)
(* the values of the form on it, those two included, and merges the        *)
(* result: a version other than that of the row fails at once, and a row   *)
(* that changes before the commit fails then.  So a post is two steps, a   *)
(* reading one and a saving one, as in JobBoard, and a desk (a controller) *)
(* may serve several requests at a time, each on a thread of its own.      *)
(*                                                                         *)
(* A request that is denied, invalid or spam changes nothing and does not  *)
(* appear.  A form that comes back with errors keeps its version.          *)
(***************************************************************************)
EXTENDS Integers

CONSTANTS
  Rows,         \* the identifiers of the rows, which one sequence gives out
  Populated,    \* the rows that the database may be populated with
  Tabs,         \* the tabs of the browsers, each of which may show a form
  Threads,      \* the threads that serve requests
  Texts,        \* the texts that are typed
  Rewards,      \* the rewards that are typed for a challenge
  Tickers,      \* the tickers that are typed for an offer or a request
  PerDay,       \* units of time per day
  Window,       \* days that an announcement is published (30)
  Horizon,      \* bound: the last instant
  MaxVersion,   \* bound: the last version of a row
  NoRow, Gone,  \* a row that has not been created; one that was deleted
  NoForm,       \* a tab without a form
  NoRequest     \* a thread that serves no request

Profiles == {"worker", "employer", "consumer", "provider"}

Kinds == Profiles \cup
  {"announcement", "challenge", "companyRecord", "investorRecord",
   "configuration", "userAccount", "offer", "request"}

(* The controllers: one per kind, but three for the user accounts. *)
AccountDesks == {"anyAccount", "ownAccount", "signUp"}
Desks == AccountDesks \cup (Kinds \ {"userAccount"})
KindOf(d) == IF d \in AccountDesks THEN "userAccount" ELSE d

Money == [amount : Nat, currency : {"sign", "EUR", "other"}]
Times == 0..Horizon

(* What a row of each kind holds, as far as it matters here. *)
ContentOf(k) ==
  CASE k = "announcement" -> [text : Texts, moment : Times]
    [] k = "challenge" -> [reward : Rewards, deadline : Times]
    [] k = "userAccount" -> [text : Texts, enabled : BOOLEAN]
    [] k \in {"offer", "request"} -> [ticker : Tickers, deadline : Times]
    [] OTHER -> [text : Texts]

Content == UNION {ContentOf(k) : k \in Kinds}
Versions == 0..MaxVersion
Row == {r \in [kind : Kinds, version : Versions, content : Content] :
          r.content \in ContentOf(r.kind)}

(* The desk, the row, its version and what it held when the form was opened. *)
Form == [desk : Desks, row : Rows, version : Versions, seen : Content]

(* What a request has read (version, base) and is going to save (content), *)
(* and what the form that was posted had shown.                            *)
Request ==
  [desk : Desks, command : {"create", "update", "delete"}, row : Rows,
   version : Versions, base : Content, seen : Content, content : Content]

ASSUME PopulatedAssumption == Populated \subseteq Rows
ASSUME RewardsAssumption ==
  Rewards \subseteq [gold : Money, silver : Money, bronze : Money]
ASSUME BoundsAssumption ==
  /\ PerDay \in Nat \ {0} /\ Window \in Nat
  /\ Horizon \in Nat /\ MaxVersion \in Nat
ASSUME NoneAssumption ==
  /\ {NoRow, Gone} \cap Row = {}
  /\ NoRow # Gone
  /\ NoForm \notin Form
  /\ NoRequest \notin Request

VARIABLES
  row,      \* row[i]: what the database has
  form,     \* form[t]: the form that tab t shows
  request,  \* request[u]: the request that thread u serves
  now       \* the clock, of the server and of the database

vars == <<row, form, request, now>>

Exists(i) == row[i] \notin {NoRow, Gone}

(* An amount is in euros when its currency is the sign or the letters. *)
Euros(m) == m.currency \in {"sign", "EUR"}
InEuros(reward) == Euros(reward.gold) /\ Euros(reward.silver) /\ Euros(reward.bronze)

(* The rows of the sample data: old announcements, rewards in euros; Init *)
(* adds that their tickers are unique, as the database has it.            *)
Start == {r \in Row :
            /\ r.version = 0
            /\ r.kind = "announcement" => r.content.moment = 0
            /\ r.kind = "challenge" => InEuros(r.content.reward)}

(* No two offers and no two requests have one ticker, although validation  *)
(* looks for it before the insertion, and for offers the wrong way round.  *)
TickersAreUnique ==
  \A i, j \in Rows :
    /\ i # j /\ Exists(i) /\ Exists(j)
    /\ row[i].kind = row[j].kind /\ row[i].kind \in {"offer", "request"}
    => row[i].content.ticker # row[j].content.ticker

Init ==
  /\ \E start \in [Populated -> Start \cup {NoRow}] :
       row = [i \in Rows |-> IF i \in Populated THEN start[i] ELSE NoRow]
  /\ TickersAreUnique
  /\ form = [t \in Tabs |-> NoForm]
  /\ request = [u \in Threads |-> NoRequest]
  /\ now = 0

-----------------------------------------------------------------------------
(* Tab t shows row i at desk d: the form keeps the id and the version. *)
Show(t, d, i) ==
  /\ d \notin {"signUp", "offer", "request"}
  /\ Exists(i)
  /\ row[i].kind = KindOf(d)
  /\ form' = [form EXCEPT ![t] = [desk |-> d, row |-> i, version |-> row[i].version,
                                  seen |-> row[i].content]]
  /\ UNCHANGED <<row, request, now>>

-----------------------------------------------------------------------------
(* The reading half of a post. *)

Creating(i) == \E u \in Threads : /\ request[u] # NoRequest
                                  /\ request[u].command = "create"
                                  /\ request[u].row = i

(* A thread takes the request; no desk waits for another request of its own. *)
Enter(r) ==
  /\ \E u \in Threads : /\ request[u] = NoRequest
                       /\ request' = [request EXCEPT ![u] = r]
  /\ UNCHANGED <<row, form, now>>

(* instantiate, bind and validate; the id is the next one of the sequence. *)
PostCreate(d, i, c) ==
  /\ row[i] = NoRow /\ ~Creating(i)
  /\ Enter([desk |-> d, command |-> "create", row |-> i, version |-> 0,
            base |-> c, seen |-> c, content |-> c])

(* Tab t posts its form at desk d, and findOne finds the row. *)
Posting(t, d) ==
  /\ form[t] # NoForm
  /\ form[t].desk = d
  /\ Exists(form[t].row)

Posted(t) == row[form[t].row]

Post(t, d, command, c) ==
  Enter([desk |-> d, command |-> command, row |-> form[t].row, version |-> Posted(t).version,
         base |-> Posted(t).content, seen |-> form[t].seen, content |-> c])

(* Mutant: the version is not bound, so merge sees the one just read. *)
MutPostUpdate(t, d, c) == Post(t, d, "update", c)

(* The version of the form is bound to the entity, and merge compares it. *)
PostUpdate(t, d, c) ==
  /\ form[t].version = Posted(t).version
  /\ Post(t, d, "update", c)

(* What is deleted is not bound: its version has just been read. *)
PostDelete(t, d) ==
  /\ Posting(t, d)
  /\ Post(t, d, "delete", Posted(t).content)

CreateAnnouncement(i) ==
  \E x \in Texts : PostCreate("announcement", i, [text |-> x, moment |-> now])

(* Mutant: the moment of the publication is a whole unit in the past. *)
MutUpdateAnnouncement(t) ==
  /\ Posting(t, "announcement")
  /\ \E x \in Texts : PostUpdate(t, "announcement", [text |-> x, moment |-> now - 1])

UpdateAnnouncement(t) ==
  /\ Posting(t, "announcement")
  /\ \E x \in Texts : PostUpdate(t, "announcement", [text |-> x, moment |-> now])

DeleteAnnouncement(t) == PostDelete(t, "announcement")

(* For silver and bronze, the letters are looked for in the gold reward. *)
Accepted(r) ==
  /\ Euros(r.gold)
  /\ r.silver.currency = "sign" \/ r.gold.currency = "EUR"
  /\ r.bronze.currency = "sign" \/ r.gold.currency = "EUR"
  /\ r.gold.amount > r.silver.amount
  /\ r.silver.amount > r.bronze.amount

Challenge == [reward : {r \in Rewards : Accepted(r)}, deadline : {e \in Times : e > now}]

CreateChallenge(i) == \E c \in Challenge : PostCreate("challenge", i, c)

UpdateChallenge(t) ==
  /\ Posting(t, "challenge")
  /\ \E c \in Challenge : PostUpdate(t, "challenge", c)

DeleteChallenge(t) == PostDelete(t, "challenge")

(* Records and profiles have nothing but texts. *)
CreateText(d, i) == \E x \in Texts : PostCreate(d, i, [text |-> x])

UpdateText(t, d) ==
  /\ Posting(t, d)
  /\ \E x \in Texts : PostUpdate(t, d, [text |-> x])

CreateCompanyRecord(i) == CreateText("companyRecord", i)
UpdateCompanyRecord(t) == UpdateText(t, "companyRecord")
DeleteCompanyRecord(t) == PostDelete(t, "companyRecord")

CreateInvestorRecord(i) == CreateText("investorRecord", i)
UpdateInvestorRecord(t) == UpdateText(t, "investorRecord")
DeleteInvestorRecord(t) == PostDelete(t, "investorRecord")

CreateWorker(i) == CreateText("worker", i)
UpdateWorker(t) == UpdateText(t, "worker")
CreateEmployer(i) == CreateText("employer", i)
UpdateEmployer(t) == UpdateText(t, "employer")
CreateConsumer(i) == CreateText("consumer", i)
UpdateConsumer(t) == UpdateText(t, "consumer")
CreateProvider(i) == CreateText("provider", i)
UpdateProvider(t) == UpdateText(t, "provider")

(* Nothing is bound: spam words and threshold are set on the row just read. *)
UpdateConfiguration(t) ==
  /\ Posting(t, "configuration")
  /\ \E x \in Texts : Post(t, "configuration", "update", [text |-> x])

SignUp(i) ==
  \E x \in Texts : PostCreate("signUp", i, [text |-> x, enabled |-> TRUE])

(* The administrator posts a new status, with the identity as the form shows it. *)
UpdateAnyAccount(t) ==
  /\ Posting(t, "anyAccount")
  /\ \E e \in BOOLEAN :
       PostUpdate(t, "anyAccount", [text |-> form[t].seen.text, enabled |-> e])

(* The owner posts the identity; the status stays as it has been read. *)
UpdateOwnAccount(t) ==
  /\ Posting(t, "ownAccount")
  /\ \E x \in Texts :
       PostUpdate(t, "ownAccount", [text |-> x, enabled |-> Posted(t).content.enabled])

TickerTaken(k, x) ==
  \E i \in Rows : Exists(i) /\ row[i].kind = k /\ row[i].content.ticker = x

(* Only a ticker that is taken passes the validation of an offer. *)
CreateOffer(i) ==
  \E x \in Tickers, e \in Times :
    /\ e > now
    /\ TickerTaken("offer", x)
    /\ PostCreate("offer", i, [ticker |-> x, deadline |-> e])

CreateRequest(i) ==
  \E x \in Tickers, e \in Times :
    /\ e > now
    /\ ~TickerTaken("request", x)
    /\ PostCreate("request", i, [ticker |-> x, deadline |-> e])

-----------------------------------------------------------------------------
(* The saving half of a post, up to the commit. *)

Saving(u, command) ==
  /\ request[u] # NoRequest
  /\ request[u].command = command
  /\ request' = [request EXCEPT ![u] = NoRequest]
  /\ UNCHANGED <<form, now>>

(* Mutant: the columns of the tickers are not unique. *)
MutSaveCreateTwice(u) ==
  /\ Saving(u, "create")
  /\ row' = [row EXCEPT ![request[u].row] =
               [kind |-> KindOf(request[u].desk), version |-> 0, content |-> request[u].content]]

(* The columns of the tickers are unique. *)
SaveCreate(u) ==
  /\ Saving(u, "create")
  /\ request[u].desk \in {"offer", "request"} =>
       ~TickerTaken(request[u].desk, request[u].content.ticker)
  /\ row' = [row EXCEPT ![request[u].row] =
               [kind |-> KindOf(request[u].desk), version |-> 0, content |-> request[u].content]]

(* The row is still there with the version that was read. *)
Current(u) ==
  /\ Exists(request[u].row)
  /\ row[request[u].row].version = request[u].version

(* An update that changes nothing is not sent to the database; the moment  *)
(* of an announcement always changes.                                      *)
SaveNothing(u) ==
  /\ Saving(u, "update")
  /\ request[u].desk # "announcement"
  /\ request[u].content = request[u].base
  /\ UNCHANGED row

(* Mutant: the version is not checked again when the row is written. *)
MutSaveUpdateBlind(u) ==
  /\ Saving(u, "update")
  /\ request[u].desk = "announcement" \/ request[u].content # request[u].base
  /\ Exists(request[u].row)
  /\ request[u].version < MaxVersion
  /\ row' = [row EXCEPT ![request[u].row] =
               [kind |-> KindOf(request[u].desk), version |-> request[u].version + 1,
                content |-> request[u].content]]

SaveUpdate(u) ==
  /\ Saving(u, "update")
  /\ request[u].desk = "announcement" \/ request[u].content # request[u].base
  /\ Current(u)
  /\ request[u].version < MaxVersion
  /\ row' = [row EXCEPT ![request[u].row] =
               [kind |-> KindOf(request[u].desk), version |-> request[u].version + 1,
                content |-> request[u].content]]

SaveDelete(u) ==
  /\ Saving(u, "delete")
  /\ Current(u)
  /\ row' = [row EXCEPT ![request[u].row] = Gone]

(* A request fails after its reads: another version, a ticker, a panic. *)
Abort(u) ==
  /\ request[u] # NoRequest
  /\ request' = [request EXCEPT ![u] = NoRequest]
  /\ UNCHANGED <<row, form, now>>

Tick ==
  /\ now < Horizon
  /\ now' = now + 1
  /\ UNCHANGED <<row, form, request>>

Create(i) ==
  \/ CreateAnnouncement(i) \/ CreateChallenge(i)
  \/ CreateCompanyRecord(i) \/ CreateInvestorRecord(i)
  \/ CreateWorker(i) \/ CreateEmployer(i) \/ CreateConsumer(i) \/ CreateProvider(i)
  \/ SignUp(i) \/ CreateOffer(i) \/ CreateRequest(i)

Update(t) ==
  \/ UpdateAnnouncement(t) \/ UpdateChallenge(t)
  \/ UpdateCompanyRecord(t) \/ UpdateInvestorRecord(t)
  \/ UpdateWorker(t) \/ UpdateEmployer(t) \/ UpdateConsumer(t) \/ UpdateProvider(t)
  \/ UpdateConfiguration(t) \/ UpdateAnyAccount(t) \/ UpdateOwnAccount(t)

Delete(t) ==
  \/ DeleteAnnouncement(t) \/ DeleteChallenge(t)
  \/ DeleteCompanyRecord(t) \/ DeleteInvestorRecord(t)

Save(u) == SaveCreate(u) \/ SaveNothing(u) \/ SaveUpdate(u) \/ SaveDelete(u)

Next ==
  \/ \E i \in Rows : Create(i) \/ \E t \in Tabs, d \in Desks : Show(t, d, i)
  \/ \E t \in Tabs : Update(t) \/ Delete(t)
  \/ \E u \in Threads : Save(u) \/ Abort(u)
  \/ Tick

Spec == Init /\ [][Next]_vars
-----------------------------------------------------------------------------
(* What the pages list, and what they let a visitor open. *)

Day(x) == x \div PerDay

(* Mutant: the last day is included. *)
MutListedAnnouncements ==
  {i \in Rows : /\ Exists(i) /\ row[i].kind = "announcement"
                /\ Day(now) - Day(row[i].content.moment) <= Window}

(* DATEDIFF counts the midnights between two instants. *)
ListedAnnouncements ==
  {i \in Rows : /\ Exists(i) /\ row[i].kind = "announcement"
                /\ Day(now) - Day(row[i].content.moment) < Window}

ListedByDeadline(k) ==
  {i \in Rows : Exists(i) /\ row[i].kind = k /\ row[i].content.deadline > now}

ListedChallenges == ListedByDeadline("challenge")
ListedOffers == ListedByDeadline("offer")
ListedRequests == ListedByDeadline("request")

Listed ==
  ListedAnnouncements \cup ListedChallenges \cup ListedOffers \cup ListedRequests

(* The services that show count whole days between two instants. *)
ShownAnnouncement(i) == Day(now - row[i].content.moment) < Window

Shown(i) ==
  /\ Exists(i)
  /\ CASE row[i].kind = "announcement" -> ShownAnnouncement(i)
       [] row[i].kind \in {"challenge", "offer", "request"} -> row[i].content.deadline > now
       [] OTHER -> TRUE

-----------------------------------------------------------------------------
TypeOK ==
  /\ row \in [Rows -> Row \cup {NoRow, Gone}]
  /\ form \in [Tabs -> Form \cup {NoForm}]
  /\ request \in [Threads -> Request \cup {NoRequest}]
  /\ now \in Times

(* A form whose version is that of its row still shows what the row holds: *)
(* comparing versions, as merge does, is as good as comparing contents.    *)
VersionTellsContent ==
  \A t \in Tabs :
    LET f == form[t] IN
      f # NoForm /\ Exists(f.row) /\ f.version = row[f.row].version
        => f.seen = row[f.row].content

(* Nobody overwrites what he has not seen: a row is updated only by the    *)
(* post of a form that had shown what the row holds until that very step,  *)
(* however long the tab was open and whatever was saved in the meantime.   *)
(* The configuration, which binds no version, is the exception.            *)
NoLostUpdate ==
  [][\A i \in Rows :
       Exists(i) /\ row[i].kind # "configuration" /\ row'[i] \notin {row[i], Gone}
         => \E u \in Threads : /\ request[u] # NoRequest
                               /\ request'[u] = NoRequest
                               /\ request[u].row = i
                               /\ request[u].seen = row[i].content]_vars

(* Two desks write user accounts at the same time, and each post saves the *)
(* whole row: still, an account that the administrator has disabled is not *)
(* enabled again by its owner, who saves the status that was read before.  *)
StatusIsTheAdministrators ==
  [][\A i \in Rows :
       Exists(i) /\ row[i].kind = "userAccount" /\ row'[i] # Gone
           /\ row'[i].content.enabled # row[i].content.enabled
         => \E u \in Threads : /\ request[u] # NoRequest
                               /\ request'[u] = NoRequest
                               /\ request[u].desk = "anyAccount"
                               /\ request[u].row = i]_vars

(* Whatever a page lists can be opened, although lists are filtered by the *)
(* database and shows by the services, which count days differently.       *)
ListedIsShown == \A i \in Listed : Shown(i)

(* The forms implement AtomicForms: although a post saves what another     *)
(* step has read, and a deletion and the configuration compare no version  *)
(* with the form, rows change as if each post were one step.               *)
Forms == INSTANCE AtomicForms WITH
  Initial <- Start,
  Rewards <- {r \in Rewards : Accepted(r)}

ImplementsAtomicForms == Forms!Spec

IsOffer(i) == Exists(i) /\ row[i].kind = "offer"

(* No offer is ever added, changed or deleted: what passes the validation  *)
(* of an offer, however others interfere, is refused by the unique column. *)
OffersNeverChange ==
  [][\A i \in Rows : IsOffer(i) \/ IsOffer(i)' => row'[i] = row[i]]_vars

(* "Comprueba que el ticker es único": an offer that passes the validation *)
(* has a ticker that no other offer has.                                   *)
OfferTickerIsFree ==
  [][\A u \in Threads :
       /\ request[u] = NoRequest /\ request'[u] # NoRequest
       /\ request'[u].desk = "offer"
       => ~TickerTaken("offer", request'[u].content.ticker)]_vars
=============================================================================
