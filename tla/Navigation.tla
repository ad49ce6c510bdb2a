----------------------------- MODULE Navigation -----------------------------
(***************************************************************************)
(* How a reader moves among the pages in one tab of the browser.  A click  *)
(* on a row of a listing pushes the address of the listing on a stack      *)
(* (acme.js, in the session storage of the tab); the button Return of a    *)
(* page, and the page /master/referrer to which a successful post is       *)
(* redirected, pop it; the menu clears it.  Links, the Back button and     *)
(* addresses typed by hand leave it alone.                                 *)
(*                                                                         *)
(* The stack changes at the click, and the other page comes later: until   *)
(* then the page on the screen takes more clicks.  So a click and the      *)
(* arrival are two steps, and a double click is two clicks.                *)
(*                                                                         *)
(* A page is the path of its URL, its command and the item that its query  *)
(* names.  The administrator's bulletins are all alike and so are their    *)
(* pages: administrator/announcement stands for every kind that has a      *)
(* listing, a show and a create of its own.  A duty, an audit record or an *)
(* application is named by its job, a message by its thread.  The reader   *)
(* has every role.                                                         *)
(***************************************************************************)
EXTENDS Naturals, Sequences

CONSTANTS
  Jobs, Threads, Bulletins,
  None,         \* the item of a page that has no query
  MaxStack,     \* bound: addresses on the stack
  MaxStrays,    \* bound: how often the reader strays before using the menu
  MaxAgain      \* bound: how often a row is clicked again

Items == Jobs \cup Threads \cup Bulletins

ASSUME NavigationAssumption ==
  /\ None \notin Items
  /\ MaxStack \in Nat
  /\ MaxStrays \in Nat
  /\ MaxAgain \in Nat

VARIABLES
  db,       \* the stage of every item and the jobs that the reader applied for
  at,       \* the page on the screen
  seen,     \* db when it was rendered
  state,    \* "shown", "refused" (the panic page), "posted" (the referrer page)
  left,     \* the kind of the last click, if the page is being left by it
  to,       \* the page that was asked for last
  stack,    \* "return-stack" in the session storage, the last address on top
  strays,   \* how often the reader has strayed since the menu was used
  again     \* how often a row was clicked again since then

tab == <<at, seen, state, left, to, stack, strays, again>>
vars == <<db, tab>>

(* A draft is full when its duties add up to 100 per cent.  A thread is    *)
(* open when it has messages, a bulletin as long as it is there.           *)
Stages == {"draft", "full", "open", "expired", "deleted", "empty"}
Databases == [stage : [Items -> Stages], applied : SUBSET Jobs]

-----------------------------------------------------------------------------
(* The map of the site. *)

Page(path, command, item) == [path |-> path, command |-> command, item |-> item]

Welcome == Page("master", "welcome", None)

MenuListings ==
  {Page("employer/job", "list_mine", None),
   Page("employer/application", "list_by_job", None),
   Page("auditor/job", "list_mine", None),
   Page("auditor/job", "list_not_mine", None),
   Page("authenticated/job", "list", None),
   Page("authenticated/thread", "list_mine", None),
   Page("worker/application", "list_mine", None),
   Page("administrator/announcement", "list", None)}

MenuPages ==
  MenuListings \cup
  {Page("employer/job", "create", None),
   Page("administrator/announcement", "create", None),
   Welcome}

ItemListings ==
  {Page(path, "list_by_job", j) :
     path \in {"employer/duty", "employer/audit-record", "auditor/duty",
               "authenticated/duty", "authenticated/audit-record"},
     j \in Jobs}
  \cup {Page("authenticated/message", "list_by_thread", t) : t \in Threads}

Listings == MenuListings \cup ItemListings

(* redirect("show?id=..."): the address is relative to that of the listing. *)
RowOf(l, i) == Page(l.path, "show", i)

(* The items whose shows a listing may lead to, whatever its query. *)
ItemsOf(l) ==
  IF l.item # None THEN {l.item}
  ELSE CASE l.path = "authenticated/thread" -> Threads
         [] l.path = "administrator/announcement" -> Bulletins
         [] OTHER -> Jobs

RowPages == UNION {{RowOf(l, i) : i \in ItemsOf(l)} : l \in Listings}

(* The buttons of a show that ask for another page of the same item. *)
Buttons ==
  {<<"employer/job", "employer/duty", "list_by_job">>,
   <<"employer/job", "employer/audit-record", "list_by_job">>,
   <<"employer/job", "employer/duty", "create">>,
   <<"auditor/job", "auditor/duty", "list_by_job">>,
   <<"authenticated/job", "authenticated/duty", "list_by_job">>,
   <<"authenticated/job", "authenticated/audit-record", "list_by_job">>,
   <<"authenticated/job", "worker/application", "create">>,
   <<"authenticated/thread", "authenticated/message", "list_by_thread">>}

Linked(p) ==
  {Page(b[2], b[3], p.item) : b \in {c \in Buttons : p.command = "show" /\ p.path = c[1]}}

Pages == MenuPages \cup RowPages \cup UNION {Linked(p) : p \in RowPages}

TypeOK ==
  /\ db \in Databases
  /\ at \in Pages
  /\ seen \in Databases
  /\ state \in {"shown", "refused", "posted"}
  /\ left \in {"no", "row", "link", "return", "menu", "post"}
  /\ to \in Pages
  /\ stack \in Seq(Listings)
  /\ Len(stack) <= MaxStack
  /\ strays \in 0..MaxStrays
  /\ again \in 0..MaxAgain

-----------------------------------------------------------------------------
(* The services. *)

(* Mutant: the auditor's listing lacks "and j.finalMode=True". *)
MutRows(l, d) ==
  IF l.item # None THEN {l.item}
  ELSE CASE l.path \in {"employer/job", "auditor/job"} -> {j \in Jobs : d.stage[j] # "deleted"}
         [] l.path = "authenticated/job" -> {j \in Jobs : d.stage[j] = "open"}
         [] l.path \in {"employer/application", "worker/application"} -> d.applied
         [] l.path = "authenticated/thread" -> Threads
         [] OTHER -> {b \in Bulletins : d.stage[b] = "open"}

(* The rows that a listing shows when it is rendered from d. *)
Rows(l, d) ==
  CASE l.item # None -> {l.item}
    [] l.path = "employer/job" -> {j \in Jobs : d.stage[j] # "deleted"}
    [] l.path = "auditor/job" -> {j \in Jobs : d.stage[j] \in {"open", "expired"}}
    [] l.path = "authenticated/job" -> {j \in Jobs : d.stage[j] = "open"}
    [] l.path \in {"employer/application", "worker/application"} -> d.applied
    [] l.path = "authenticated/thread" -> Threads
    [] OTHER -> {b \in Bulletins : d.stage[b] = "open"}

(* The links that it shows: a duty may be added to a job that is no draft  *)
(* only by typing the address.                                             *)
Links(p, d) ==
  {q \in Linked(p) : q.path = "employer/duty" /\ q.command = "create" =>
                       d.stage[q.item] \in {"draft", "full"}}

(* authorise(), or the row that findOne finds. *)
Opens(p, d) ==
  p.item # None =>
    LET stage == d.stage[p.item]
    IN  /\ p.path \in {"employer/job", "employer/duty", "employer/audit-record"} =>
             stage # "deleted"
        /\ p.path = "employer/duty" /\ p.command = "create" => stage = "draft"
        /\ p.path \in {"auditor/job", "auditor/duty"} => stage \in {"open", "expired"}
        /\ p.path = "auditor/duty" /\ p.command = "list_by_job" => stage = "open"
        /\ p.path \in {"authenticated/job", "authenticated/duty",
                       "authenticated/audit-record", "authenticated/message",
                       "administrator/announcement"} => stage = "open"
        /\ p.path \in {"employer/application", "worker/application"} /\ p.command = "show" =>
             p.item \in d.applied
        /\ p.path = "worker/application" /\ p.command = "create" =>
             stage = "open" /\ p.item \notin d.applied

IsForm(p) ==
  \/ p.command = "create"
  \/ p.command = "show" /\ p.path \in {"employer/job", "employer/application",
                                       "administrator/announcement"}

(* What a successful post may leave in the database. *)
Staged(d, i, stages) == {[d EXCEPT !.stage[i] = s] : s \in stages}

PostJob(j, d) ==
  (IF d.stage[j] \in {"draft", "full"} THEN {d} ELSE {})
  \cup (IF d.stage[j] = "full" THEN Staged(d, j, {"open", "expired"}) ELSE {})
  \cup (IF d.stage[j] # "deleted" /\ j \notin d.applied
        THEN Staged(d, j, {"deleted"}) ELSE {})

Apply(j, d) ==
  IF d.stage[j] = "open" /\ j \notin d.applied
  THEN {[d EXCEPT !.applied = @ \cup {j}]} ELSE {}

Outcomes(p, d) ==
  IF p.item = None THEN {d}
  ELSE CASE p.path = "employer/job" -> PostJob(p.item, d)
         [] p.path = "employer/duty" ->
              IF d.stage[p.item] = "draft" THEN Staged(d, p.item, {"draft", "full"}) ELSE {}
         [] p.path = "employer/application" -> IF p.item \in d.applied THEN {d} ELSE {}
         [] p.path = "worker/application" -> Apply(p.item, d)
         [] OTHER -> IF d.stage[p.item] = "open"
                     THEN Staged(d, p.item, {"open", "deleted"}) ELSE {}

-----------------------------------------------------------------------------
(* The tab. *)

Init ==
  /\ db \in Databases
  /\ \A j \in Jobs : db.stage[j] # "empty"
  /\ \A t \in Threads : db.stage[t] \in {"open", "empty"}
  /\ \A b \in Bulletins : db.stage[b] \in {"open", "deleted"}
  /\ \A j \in db.applied : db.stage[j] \in {"open", "expired"}
  /\ at = Welcome
  /\ seen = db
  /\ state = "shown"
  /\ left = "no"
  /\ to = at
  /\ stack = <<>>
  /\ strays = 0
  /\ again = 0

(* A page comes: it is rendered, or the panic page is. *)
Ask(p) ==
  /\ at' = p
  /\ to' = p
  /\ left' = "no"
  /\ seen' = db
  /\ state' = IF Opens(p, db) THEN "shown" ELSE "refused"

(* redirect(): another page is asked for, and this one stays until it comes. *)
Leave(click, p) ==
  /\ left' = click
  /\ to' = p
  /\ UNCHANGED <<db, at, seen, state>>

Arrive ==
  /\ left \in {"row", "link", "return", "menu"}
  /\ Ask(to)
  /\ UNCHANGED <<db, stack, strays, again>>

(* A click has changed the stack, but its page has not come yet. *)
Moved == left \in {"row", "return", "menu"}

(* Any other click by then is a stray: it belongs to the page that was left. *)
StraysIf(late) ==
  /\ late => strays < MaxStrays
  /\ strays' = IF late THEN strays + 1 ELSE strays

(* Mutant: an address that has none below it is taken for none. *)
MutReturnUrl == IF Len(stack) <= 1 THEN Welcome ELSE stack[Len(stack)]

(* popReturnUrl(): the address on top is removed; without any it is "/". *)
ReturnUrl == IF stack = <<>> THEN Welcome ELSE stack[Len(stack)]

Popped == IF stack = <<>> THEN <<>> ELSE SubSeq(stack, 1, Len(stack) - 1)

(* Mutant: clearReturnUrl() is not called. *)
MutMenu(p) ==
  /\ state # "posted"
  /\ strays' = 0 /\ again' = 0
  /\ Leave("menu", p)
  /\ UNCHANGED stack

Menu(p) ==
  /\ state # "posted"
  /\ stack' = <<>>
  /\ strays' = 0 /\ again' = 0
  /\ Leave("menu", p)

(* Mutant: the address of the show is pushed. *)
MutClickRow(i) ==
  /\ state = "shown" /\ at \in Listings
  /\ i \in Rows(at, seen)
  /\ left # "row" /\ StraysIf(Moved)
  /\ Len(stack) < MaxStack
  /\ stack' = Append(stack, RowOf(at, i))
  /\ Leave("row", RowOf(at, i))
  /\ UNCHANGED again

(* A row is clicked: the address of the listing is pushed. *)
PushAndLeave(i) ==
  /\ state = "shown" /\ at \in Listings
  /\ i \in Rows(at, seen)
  /\ Len(stack) < MaxStack
  /\ stack' = Append(stack, at)
  /\ Leave("row", RowOf(at, i))

ClickRow(i) ==
  /\ left # "row" /\ StraysIf(Moved)
  /\ PushAndLeave(i)
  /\ UNCHANGED again

(* The second click of a double click, or one on another row. *)
ClickRowAgain(i) ==
  /\ left = "row"
  /\ again < MaxAgain /\ again' = again + 1
  /\ PushAndLeave(i)
  /\ UNCHANGED strays

Follow(p) ==
  /\ state = "shown"
  /\ p \in Links(at, seen)
  /\ StraysIf(Moved)
  /\ Leave("link", p)
  /\ UNCHANGED <<stack, again>>

(* The button Return: every show, every create and the lists by job have it. *)
Return ==
  /\ state = "shown"
  /\ at.command \in {"show", "create", "list_by_job"}
  /\ stack' = Popped
  /\ Leave("return", ReturnUrl)
  /\ UNCHANGED <<strays, again>>

(* A post is saved, and answered with a redirection to /master/referrer.   *)
(* A form with errors stays on the screen and changes nothing.             *)
PostSucceeds ==
  /\ state = "shown"
  /\ IsForm(at)
  /\ db' \in Outcomes(at, db)
  /\ StraysIf(Moved)
  /\ left' = "post" /\ to' = at
  /\ UNCHANGED <<at, seen, state, stack, again>>

PostFails ==
  /\ state = "shown"
  /\ IsForm(at)
  /\ StraysIf(Moved)
  /\ state' = "refused" /\ left' = "no" /\ to' = at
  /\ UNCHANGED <<db, at, seen, stack, again>>

(* The referrer page comes. *)
ArriveAtReferrer ==
  /\ left = "post"
  /\ state' = "posted" /\ left' = "no"
  /\ UNCHANGED <<db, at, seen, to, stack, strays, again>>

(* Its script; nothing on the page can be clicked. *)
Referrer ==
  /\ state = "posted"
  /\ stack' = Popped
  /\ Ask(ReturnUrl)
  /\ UNCHANGED <<db, strays, again>>

(* The Back button, a typed address or a bookmark: pages are not cached    *)
(* (the default headers of Spring Security), so they are asked for again.  *)
Stray(p) ==
  /\ state # "posted"
  /\ strays < MaxStrays
  /\ strays' = strays + 1
  /\ Ask(p)
  /\ UNCHANGED <<db, stack, again>>

StrayToReferrer ==
  /\ state # "posted"
  /\ strays < MaxStrays
  /\ strays' = strays + 1
  /\ state' = "posted" /\ left' = "no" /\ to' = at
  /\ UNCHANGED <<db, at, seen, stack, again>>

(* Others post as well, and deadlines pass. *)
OthersPost(p) ==
  /\ IsForm(p)
  /\ db' \in Outcomes(p, db)
  /\ UNCHANGED tab

Expire(j) ==
  /\ db.stage[j] = "open"
  /\ db' = [db EXCEPT !.stage[j] = "expired"]
  /\ UNCHANGED tab

Next ==
  \/ \E p \in MenuPages : Menu(p)
  \/ \E i \in Items : ClickRow(i) \/ ClickRowAgain(i)
  \/ \E p \in Pages : Follow(p) \/ Stray(p) \/ OthersPost(p)
  \/ Return
  \/ PostSucceeds
  \/ PostFails
  \/ Arrive
  \/ ArriveAtReferrer
  \/ Referrer
  \/ StrayToReferrer
  \/ \E j \in Jobs : Expire(j)

Spec == Init /\ [][Next]_vars

-----------------------------------------------------------------------------
(* A row of l leads to p, directly or through a link. *)
LeadsTo(l, p) == \E i \in ItemsOf(l) : p = RowOf(l, i) \/ p \in Linked(RowOf(l, i))

(* Where the reader is as far as the stack is concerned. *)
Here == IF Moved THEN to ELSE at

(* A listing follows itself in the stack only if its rows were clicked again. *)
Precedes(l, p) == LeadsTo(l, p) \/ (again > 0 /\ l = p)

(* Unless the reader strays, the stack is the way from the menu to here:   *)
(* its first address is in the menu, each one is a listing that led to the *)
(* next, and the last one led here, but for the copies that double clicks  *)
(* have left.  So Return goes back to the listing from which the reader    *)
(* came (list.tag pushes, form-return.tag pops, the menu clears, the links *)
(* in between do neither), even when a page is clicked while it is left.   *)
StackFits ==
  strays = 0 =>
    /\ stack = <<>> => Here \in MenuPages
    /\ stack # <<>> => stack[1] \in MenuPages /\ Precedes(stack[Len(stack)], Here)
    /\ \A k \in 1..(Len(stack) - 1) : Precedes(stack[k], stack[k + 1])

(* "we must redirect to the referrer view, which cares of returning to the *)
(* appropriate listing or /master/welcome" (AbstractController.doPost):    *)
(* unless the reader has strayed, a successful post ends on a page that    *)
(* opens, whatever it has deleted and whatever others do meanwhile: the    *)
(* listing that led to the form, or the welcome page if the menu did.  A   *)
(* row that was clicked twice, or a form that was posted twice, does not   *)
(* change that.                                                            *)
PostShowsItsListing ==
  [][state = "posted" /\ state' # state /\ strays = 0 =>
       /\ state' = "shown"
       /\ IF at \in MenuPages THEN at' = Welcome ELSE LeadsTo(at', at)]_vars

(* The pages of this site that refuse a reader who was offered them. *)
DeadEnd(p) ==
  \/ p.path = "auditor/duty" /\ p.command = "list_by_job" /\ db.stage[p.item] = "expired"
  \/ p.path = "authenticated/message" /\ p.command = "list_by_thread" /\ db.stage[p.item] # "open"
  \/ p.path = "employer/duty" /\ p.command = "create" /\ db.stage[p.item] = "full"
  \/ p.path = "worker/application" /\ p.command = "create" /\ p.item \in db.applied

(* A reader who clicks on a row, a link or Return is refused only if the   *)
(* database has changed since the page was rendered, or at one of the four *)
(* known dead ends: what the queries of the listings and the conditions in *)
(* the pages offer, the authorise() of another service accepts.            *)
DeadEndsAreKnown ==
  [][state = "shown" /\ state' = "refused" /\ at' # at /\ strays' = 0 /\ seen = db =>
       DeadEnd(at')]_vars
=============================================================================
