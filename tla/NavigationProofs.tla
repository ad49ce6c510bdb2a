-------------------------- MODULE NavigationProofs --------------------------
(***************************************************************************)
(* For any items and any bounds: the stack is the way from the menu to the *)
(* page, a post ends at its listing, and whoever is offered a page is      *)
(* refused only where that is known.                                       *)
(*                                                                         *)
(* The map of the site is a definition, so the facts about it are lemmas   *)
(* on all its pages (first part); the invariant (second part) adds to the  *)
(* stack that a page on the screen opened when it was rendered, that only  *)
(* forms are posted, and where a page that is being left is left for.      *)
(***************************************************************************)
EXTENDS Navigation, SequenceTheorems, TLAPS

(* A page on the screen was opened by what the database was then. *)
ShownInv == state = "shown" => Opens(at, seen)

(* Only a form gets the reader to the referrer page. *)
PostedInv ==
  /\ (state = "posted" \/ left = "post") /\ strays = 0 => IsForm(at)
  /\ state = "posted" => left = "no"

(* What was clicked last was on the page, and has been done to the stack. *)
LeftInv ==
  /\ left = "row" => /\ at \in Listings
                     /\ \E i \in Rows(at, seen) : to = RowOf(at, i)
                     /\ stack # <<>> /\ stack[Len(stack)] = at
  /\ left = "link" => to \in Links(at, seen)
  /\ left = "menu" => to \in MenuPages /\ stack = <<>>
  /\ left = "return" /\ strays = 0 =>
       to \in MenuPages \/ to = at \/ (to \in Listings /\ LeadsTo(to, at))

IInv ==
  /\ TypeOK
  /\ ShownInv
  /\ PostedInv
  /\ LeftInv
  /\ StackFits

-----------------------------------------------------------------------------
(* The map of the site. *)

LEMMA MenuFacts ==
  ASSUME NEW p \in MenuPages
  PROVE  p.item = None /\ p.command # "show"
BY DEF MenuPages, MenuListings, Welcome, Page

LEMMA MenuOpens ==
  ASSUME NEW p \in MenuPages, NEW d
  PROVE  Opens(p, d)
BY MenuFacts DEF Opens

LEMMA ItemListingFacts ==
  ASSUME NEW l \in ItemListings
  PROVE  /\ l.item \in Items
         /\ l.item # None
         /\ l.command \in {"list_by_job", "list_by_thread"}
         /\ l.path \in {"employer/duty", "employer/audit-record", "auditor/duty",
                        "authenticated/duty", "authenticated/audit-record",
                        "authenticated/message"}
         /\ l = Page(l.path, l.command, l.item)
BY NavigationAssumption DEF ItemListings, Items, Page

LEMMA MenuListingFacts ==
  ASSUME NEW l \in MenuListings
  PROVE  /\ l.item = None
         /\ l \in MenuPages
         /\ l = Page(l.path, l.command, l.item)
         /\ l.path \in {"employer/job", "employer/application", "auditor/job",
                        "authenticated/job", "authenticated/thread",
                        "worker/application", "administrator/announcement"}
BY DEF MenuListings, MenuPages, Page

LEMMA ItemsOfFacts ==
  ASSUME NEW l \in Listings, NEW i \in ItemsOf(l)
  PROVE  i \in Items /\ i # None
<1>1. CASE l \in MenuListings
  BY <1>1, MenuListingFacts, NavigationAssumption DEF ItemsOf, Items
<1>2. CASE l \in ItemListings
  BY <1>2, ItemListingFacts DEF ItemsOf
<1> QED
  BY <1>1, <1>2 DEF Listings

LEMMA LinkedFacts ==
  ASSUME NEW p, NEW q \in Linked(p)
  PROVE  /\ p.command = "show"
         /\ q.item = p.item
         /\ <<p.path, q.path, q.command>> \in Buttons
<1>1. PICK b \in Buttons : p.command = "show" /\ p.path = b[1] /\ q = Page(b[2], b[3], p.item)
  BY DEF Linked
<1>2. b = <<b[1], b[2], b[3]>>
  BY DEF Buttons
<1> QED
  BY <1>1, <1>2 DEF Page

LEMMA ButtonsLink ==
  ASSUME NEW a, NEW path, NEW command, NEW i, <<a, path, command>> \in Buttons
  PROVE  Page(path, command, i) \in Linked(Page(a, "show", i))
<1> DEFINE b == <<a, path, command>>
<1>1. b[1] = a /\ b[2] = path /\ b[3] = command
  OBVIOUS
<1>2. Page(a, "show", i).command = "show" /\ Page(a, "show", i).path = a
      /\ Page(a, "show", i).item = i
  BY DEF Page
<1>3. b \in {c \in Buttons : Page(a, "show", i).command = "show" /\ Page(a, "show", i).path = c[1]}
  BY <1>1, <1>2
<1> QED
  BY <1>1, <1>2, <1>3 DEF Linked

(* No row and no link leads to a page of the menu. *)
LEMMA LeadsToItem ==
  ASSUME NEW l \in Listings, NEW p, LeadsTo(l, p)
  PROVE  p.item # None /\ p \notin MenuPages
<1>1. PICK i \in ItemsOf(l) : p = RowOf(l, i) \/ p \in Linked(RowOf(l, i))
  BY DEF LeadsTo
<1>2. RowOf(l, i).item = i
  BY DEF RowOf, Page
<1>3. p.item = i
  BY <1>1, <1>2, LinkedFacts
<1> QED
  BY <1>3, ItemsOfFacts, MenuFacts

(* The rows of a listing of duties, records or messages have no links. *)
LEMMA NothingLinked ==
  ASSUME NEW l \in ItemListings, NEW i
  PROVE  Linked(RowOf(l, i)) = {}
<1>1. SUFFICES ASSUME NEW q \in Linked(RowOf(l, i)) PROVE FALSE
  OBVIOUS
<1>2. <<l.path, q.path, q.command>> \in Buttons
  BY <1>1, LinkedFacts DEF RowOf, Page
<1> QED
  BY <1>2, ItemListingFacts DEF Buttons

LEMMA ApplicationsNameJobs ==
  ASSUME NEW p \in Pages, p.path = "worker/application", p.item # None
  PROVE  p.item \in Jobs
<1>1. p \notin MenuPages
  BY MenuFacts
<1>2. ASSUME NEW l \in Listings, NEW i \in ItemsOf(l), p = RowOf(l, i)
      PROVE  i \in Jobs
  <2>1. l.path = "worker/application"
    BY <1>2 DEF RowOf, Page
  <2>2. l \in MenuListings
    BY <2>1, ItemListingFacts DEF Listings
  <2> QED
    BY <1>2, <2>1, <2>2, MenuListingFacts DEF ItemsOf
<1>3. ASSUME NEW l \in Listings, NEW i \in ItemsOf(l), p \in Linked(RowOf(l, i))
      PROVE  i \in Jobs /\ p.item = i
  <2>1. p.item = i /\ <<l.path, p.path, p.command>> \in Buttons
    BY <1>3, LinkedFacts DEF RowOf, Page
  <2>2. l.path = "authenticated/job"
    BY <2>1 DEF Buttons
  <2>3. l \in MenuListings
    BY <2>2, ItemListingFacts DEF Listings
  <2> QED
    BY <1>3, <2>1, <2>2, <2>3, MenuListingFacts DEF ItemsOf
<1>4. CASE p \in RowPages
  <2>1. \E l \in Listings : \E i \in ItemsOf(l) : p = RowOf(l, i)
    BY <1>4 DEF RowPages
  <2> QED
    BY <1>2, <2>1 DEF RowOf, Page
<1>5. CASE p \in UNION {Linked(q) : q \in RowPages}
  <2>1. \E l \in Listings : \E i \in ItemsOf(l) : p \in Linked(RowOf(l, i))
    BY <1>5 DEF RowPages
  <2> QED
    BY <1>3, <2>1
<1> QED
  BY <1>1, <1>4, <1>5 DEF Pages

(* What leads to a form is a listing of the menu. *)
LEMMA FormsAreNear ==
  ASSUME NEW l \in Listings, NEW p, LeadsTo(l, p), IsForm(p)
  PROVE  l \in MenuPages
<1>1. PICK i \in ItemsOf(l) : p = RowOf(l, i) \/ p \in Linked(RowOf(l, i))
  BY DEF LeadsTo
<1>2. SUFFICES ASSUME l \in ItemListings PROVE FALSE
  BY MenuListingFacts DEF Listings
<1>3. Linked(RowOf(l, i)) = {}
  BY <1>2, NothingLinked
<1> QED
  BY <1>1, <1>2, <1>3, ItemListingFacts DEF IsForm, RowOf, Page

(* What leads to another listing is a listing of the menu. *)
LEMMA ListingsAreNear ==
  ASSUME NEW l \in Listings, NEW m \in Listings, LeadsTo(l, m)
  PROVE  l \in MenuPages
<1>1. PICK i \in ItemsOf(l) : m = RowOf(l, i) \/ m \in Linked(RowOf(l, i))
  BY DEF LeadsTo
<1>2. SUFFICES ASSUME l \in ItemListings PROVE FALSE
  BY MenuListingFacts DEF Listings
<1>3. Linked(RowOf(l, i)) = {}
  BY <1>2, NothingLinked
<1>4. m.command # "show"
  BY MenuListingFacts, MenuFacts, ItemListingFacts DEF Listings
<1> QED
  BY <1>1, <1>3, <1>4 DEF RowOf, Page

(* A listing shows rows of the items that it may lead to. *)
LEMMA RowsLead ==
  ASSUME NEW l \in Listings, NEW d \in Databases, NEW i \in Rows(l, d)
  PROVE  i \in ItemsOf(l)
<1>1. CASE l \in ItemListings
  BY <1>1, ItemListingFacts DEF Rows, ItemsOf
<1>2. CASE l \in MenuListings
  BY <1>2, MenuListingFacts DEF Rows, ItemsOf, Databases
<1> QED
  BY <1>1, <1>2 DEF Listings

LEMMA ListingsArePages ==
  /\ Listings \subseteq Pages
  /\ Welcome \in MenuPages
  /\ MenuPages \subseteq Pages
<1>1. Welcome \in MenuPages /\ MenuPages \subseteq Pages /\ MenuListings \subseteq Pages
  BY DEF MenuPages, Pages
<1>2. ASSUME NEW l \in ItemListings PROVE l \in Pages
  <2> DEFINE ej == Page("employer/job", "list_mine", None)
             aj == Page("auditor/job", "list_mine", None)
             uj == Page("authenticated/job", "list", None)
             ut == Page("authenticated/thread", "list_mine", None)
  <2>1. /\ {ej, aj, uj, ut} \subseteq MenuListings
        /\ ej.path = "employer/job" /\ aj.path = "auditor/job"
        /\ uj.path = "authenticated/job" /\ ut.path = "authenticated/thread"
        /\ ItemsOf(ej) = Jobs /\ ItemsOf(aj) = Jobs /\ ItemsOf(uj) = Jobs /\ ItemsOf(ut) = Threads
    BY DEF MenuListings, Page, ItemsOf
  <2> HIDE DEF ej, aj, uj, ut
  <2>2. /\ l.path = "authenticated/message" => l.command = "list_by_thread" /\ l.item \in Threads
        /\ l.path # "authenticated/message" => l.command = "list_by_job" /\ l.item \in Jobs
    BY DEF ItemListings, Page
  <2>3. PICK m \in MenuListings :
          <<m.path, l.path, l.command>> \in Buttons /\ l.item \in ItemsOf(m)
    <3>1. CASE l.path \in {"employer/duty", "employer/audit-record"}
      <4>1. <<ej.path, l.path, l.command>> \in Buttons
        BY <2>1, <2>2, <3>1 DEF Buttons
      <4> QED
        BY <2>1, <2>2, <3>1, <4>1
    <3>2. CASE l.path = "auditor/duty"
      <4>1. <<aj.path, l.path, l.command>> \in Buttons
        BY <2>1, <2>2, <3>2 DEF Buttons
      <4> QED
        BY <2>1, <2>2, <3>2, <4>1
    <3>3. CASE l.path \in {"authenticated/duty", "authenticated/audit-record"}
      <4>1. <<uj.path, l.path, l.command>> \in Buttons
        BY <2>1, <2>2, <3>3 DEF Buttons
      <4> QED
        BY <2>1, <2>2, <3>3, <4>1
    <3>4. CASE l.path = "authenticated/message"
      <4>1. <<ut.path, l.path, l.command>> \in Buttons
        BY <2>1, <2>2, <3>4 DEF Buttons
      <4> QED
        BY <2>1, <2>2, <3>4, <4>1
    <3> QED
      BY <3>1, <3>2, <3>3, <3>4, ItemListingFacts
  <2>4. l \in Linked(RowOf(m, l.item))
    BY <2>3, ItemListingFacts, ButtonsLink DEF RowOf
  <2>5. RowOf(m, l.item) \in RowPages
    BY <2>3 DEF RowPages, Listings
  <2> QED
    BY <2>4, <2>5 DEF Pages
<1> QED
  BY <1>1, <1>2 DEF Listings

(* A row of a listing is a page. *)
LEMMA RowsArePages ==
  ASSUME NEW l \in Listings, NEW i \in ItemsOf(l)
  PROVE  RowOf(l, i) \in Pages
BY DEF RowPages, Pages

-----------------------------------------------------------------------------
(* What is offered opens. *)

(* Rows: of a listing that opened itself. *)
LEMMA RowsOpen ==
  ASSUME NEW l \in Listings, NEW d \in Databases, NEW i \in Rows(l, d), Opens(l, d)
  PROVE  Opens(RowOf(l, i), d)
<1>1. RowOf(l, i).path = l.path /\ RowOf(l, i).command = "show" /\ RowOf(l, i).item = i
  BY DEF RowOf, Page
<1>2. CASE l \in ItemListings
  <2>1. l.item # None /\ i = l.item
    BY <1>2, ItemListingFacts DEF Rows
  <2> QED
    BY <1>1, <1>2, <2>1, ItemListingFacts DEF Opens
<1>3. CASE l \in MenuListings
  <2>1. l.item = None
    BY <1>3, MenuListingFacts
  <2>2. CASE l.path = "employer/job"
    BY <1>1, <2>1, <2>2 DEF Rows, Opens
  <2>3. CASE l.path = "auditor/job"
    BY <1>1, <2>1, <2>3 DEF Rows, Opens
  <2>4. CASE l.path = "authenticated/job"
    BY <1>1, <2>1, <2>4 DEF Rows, Opens
  <2>5. CASE l.path \in {"employer/application", "worker/application"}
    BY <1>1, <2>1, <2>5 DEF Rows, Opens
  <2>6. CASE l.path = "authenticated/thread"
    BY <1>1, <2>1, <2>6 DEF Rows, Opens
  <2>7. CASE l.path = "administrator/announcement"
    BY <1>1, <2>1, <2>7 DEF Rows, Opens
  <2> QED
    BY <1>3, <2>2, <2>3, <2>4, <2>5, <2>6, <2>7, MenuListingFacts
<1> QED
  BY <1>2, <1>3 DEF Listings

(* Links: of a page that opens, but for the dead ends. *)
LEMMA LinksOpen ==
  ASSUME NEW p, NEW q \in Links(p, db), Opens(p, db), ~Opens(q, db)
  PROVE  DeadEnd(q)
<1>1. /\ q \in Linked(p)
      /\ q.path = "employer/duty" /\ q.command = "create" =>
           db.stage[q.item] \in {"draft", "full"}
  BY DEF Links
<1>2. q.item = p.item /\ <<p.path, q.path, q.command>> \in Buttons
  BY <1>1, LinkedFacts
<1>3. p.item # None
  BY <1>2 DEF Opens
<1>4. CASE p.path = "employer/job"
  <2>1. q.path \in {"employer/duty", "employer/audit-record"}
    BY <1>2, <1>4 DEF Buttons
  <2>2. db.stage[p.item] # "deleted"
    BY <1>3, <1>4 DEF Opens
  <2> QED
    BY <1>1, <1>2, <1>3, <2>1, <2>2 DEF Opens, DeadEnd
<1>5. CASE p.path = "auditor/job"
  <2>1. q.path = "auditor/duty" /\ q.command = "list_by_job"
    BY <1>2, <1>5 DEF Buttons
  <2>2. db.stage[p.item] \in {"open", "expired"}
    BY <1>3, <1>5 DEF Opens
  <2> QED
    BY <1>2, <1>3, <2>1, <2>2 DEF Opens, DeadEnd
<1>6. CASE p.path = "authenticated/job"
  <2>1. \/ q.path \in {"authenticated/duty", "authenticated/audit-record"}
        \/ q.path = "worker/application" /\ q.command = "create"
    BY <1>2, <1>6 DEF Buttons
  <2>2. db.stage[p.item] = "open"
    BY <1>3, <1>6 DEF Opens
  <2> QED
    BY <1>2, <1>3, <2>1, <2>2 DEF Opens, DeadEnd
<1>7. CASE p.path = "authenticated/thread"
  <2>1. q.path = "authenticated/message" /\ q.command = "list_by_thread"
    BY <1>2, <1>7 DEF Buttons
  <2> QED

    <3>1. db.stage[q.item] # "open"
      BY <1>2, <1>3, <2>1 DEF Opens
    <3> QED
      BY <2>1, <3>1 DEF DeadEnd
<1> QED
  BY <1>2, <1>4, <1>5, <1>6, <1>7 DEF Buttons

(* Return: to a listing that led to a page which opens, but for one dead end. *)
LEMMA ReturnOpens ==
  ASSUME NEW l \in Listings, NEW p, LeadsTo(l, p), Opens(p, db), ~Opens(l, db)
  PROVE  DeadEnd(l)
<1>1. l \in ItemListings
  BY MenuListingFacts, MenuOpens DEF Listings
<1>2. PICK i \in ItemsOf(l) : p = RowOf(l, i)
  BY <1>1, NothingLinked DEF LeadsTo
<1>3. i = l.item /\ l.item # None
  BY <1>1, ItemListingFacts DEF ItemsOf
<1>4. p.path = l.path /\ p.command = "show" /\ p.item = l.item
  BY <1>2, <1>3 DEF RowOf, Page
<1> QED
  BY <1>1, <1>3, <1>4, ItemListingFacts DEF Opens, DeadEnd

-----------------------------------------------------------------------------
(* Types. *)

LEMMA AskTypes ==
  ASSUME db \in Databases, NEW p \in Pages, Ask(p)
  PROVE  /\ at' \in Pages /\ to' \in Pages /\ seen' \in Databases
         /\ state' \in {"shown", "refused"} /\ left' = "no"
BY DEF Ask

LEMMA PopTypes ==
  ASSUME stack \in Seq(Listings)
  PROVE  /\ ReturnUrl \in Pages
         /\ Popped \in Seq(Listings)
         /\ stack # <<>> => /\ Len(stack) \in Nat \ {0}
                           /\ ReturnUrl = stack[Len(stack)]
                           /\ ReturnUrl \in Listings
                           /\ Len(Popped) = Len(stack) - 1
                           /\ \A k \in 1..(Len(stack) - 1) : Popped[k] = stack[k]
         /\ stack = <<>> => ReturnUrl = Welcome /\ Popped = <<>>
<1>1. CASE stack = <<>>
  BY <1>1, ListingsArePages DEF ReturnUrl, Popped
<1>2. CASE stack # <<>>
  <2>1. Len(stack) \in Nat \ {0} /\ stack[Len(stack)] \in Listings
    BY <1>2, EmptySeq, LenProperties, ElementOfSeq
  <2>2. 1 \in 1..(Len(stack) + 1) /\ Len(stack) - 1 \in (1 - 1)..Len(stack)
    BY <2>1
  <2>3. /\ Popped = SubSeq(stack, 1, Len(stack) - 1)
        /\ ReturnUrl = stack[Len(stack)]
    BY <1>2 DEF Popped, ReturnUrl
  <2> DEFINE n == Len(stack) - 1
  <2>4. n \in Int /\ \A k \in 1..n : stack[k] \in Listings
    BY <2>1, ElementOfSeq
  <2> HIDE DEF n
  <2>5. /\ SubSeq(stack, 1, n) \in Seq(Listings)
        /\ Len(SubSeq(stack, 1, n)) = IF 1 <= n THEN n - 1 + 1 ELSE 0
        /\ \A k \in 1..(n - 1 + 1) : SubSeq(stack, 1, n)[k] = stack[1 + k - 1]
    BY <2>4, SubSeqProperties, SMT
  <2>6. /\ Popped \in Seq(Listings)
        /\ Len(Popped) = n
        /\ \A k \in 1..n : Popped[k] = stack[k]
    <3>1. Popped = SubSeq(stack, 1, n)
      BY <2>3 DEF n
    <3>2. n \in Nat
      BY <2>1 DEF n
    <3>3. Len(Popped) = n
      BY <2>5, <3>1, <3>2
    <3>4. ASSUME NEW k \in 1..n PROVE Popped[k] = stack[k]
      <4>1. k \in 1..(n - 1 + 1) /\ 1 + k - 1 = k
        BY <3>2
      <4> QED
        BY <2>5, <3>1, <4>1
    <3> QED
      BY <2>5, <3>1, <3>3, <3>4
  <2> QED
    BY <1>2, <2>1, <2>3, <2>6, ListingsArePages DEF n
<1> QED
  BY <1>1, <1>2

LEMMA OutcomeTypes ==
  ASSUME NEW p \in Pages, NEW d \in Databases, NEW e \in Outcomes(p, d), IsForm(p)
  PROVE  e \in Databases
<1>1. ASSUME NEW i, NEW S \in SUBSET Stages, e \in Staged(d, i, S)
      PROVE  e \in Databases
  <2>1. PICK s \in S : e = [d EXCEPT !.stage[i] = s]
    BY <1>1 DEF Staged
  <2>2. e.stage \in [Items -> Stages] /\ e.applied \in SUBSET Jobs
    BY <2>1 DEF Databases
  <2> QED
    BY <2>1, <2>2 DEF Databases
<1>2. {"open", "expired"} \in SUBSET Stages /\ {"deleted"} \in SUBSET Stages
      /\ {"draft", "full"} \in SUBSET Stages /\ {"open", "deleted"} \in SUBSET Stages
  BY DEF Stages
<1>3. CASE p.item = None
  BY <1>3 DEF Outcomes
<1>4. CASE p.item # None /\ p.path = "employer/job"
  BY <1>1, <1>2, <1>4 DEF Outcomes, PostJob
<1>5. CASE p.item # None /\ p.path = "employer/duty"
  BY <1>1, <1>2, <1>5 DEF Outcomes
<1>6. CASE p.item # None /\ p.path = "employer/application"
  BY <1>6 DEF Outcomes
<1>7. CASE p.item # None /\ p.path = "worker/application"
  <2>1. e = [d EXCEPT !.applied = @ \cup {p.item}]
    BY <1>7 DEF Outcomes, Apply
  <2>2. p.item \in Jobs
    BY <1>7, ApplicationsNameJobs
  <2> QED
    BY <2>1, <2>2 DEF Databases
<1>8. CASE p.item # None /\ p.path \notin {"employer/job", "employer/duty",
                                        "employer/application", "worker/application"}
  BY <1>1, <1>2, <1>8 DEF Outcomes
<1> QED
  BY <1>3, <1>4, <1>5, <1>6, <1>7, <1>8

LEMMA TypeCorrectInit == Init => TypeOK
<1> SUFFICES ASSUME Init PROVE TypeOK
  OBVIOUS
<1>1. Len(<<>>) = 0 /\ <<>> \in Seq(Listings)
  BY EmptySeq
<1> QED
  BY <1>1, ListingsArePages, NavigationAssumption DEF Init, TypeOK

(* Every reachable state of the tab is typed: above all, only addresses of *)
(* listings are ever pushed, so even a reader who has strayed is returned  *)
(* to a listing or to the welcome page (list.tag is the only one that      *)
(* calls pushReturnUrl).                                                   *)
THEOREM TypeCorrect == Spec => []TypeOK
<1>1. Init => TypeOK
  BY TypeCorrectInit
<1>2. TypeOK /\ [Next]_vars => TypeOK'
  <2> SUFFICES ASSUME TypeOK, [Next]_vars PROVE TypeOK'
    OBVIOUS
  <2> USE DEF TypeOK
  <2>0. StraysIf(Moved) => strays' \in 0..MaxStrays
    BY NavigationAssumption DEF StraysIf, Moved
  <2>1. ASSUME NEW p \in MenuPages, Menu(p) PROVE TypeOK'
    <3>1. p \in Pages
      BY ListingsArePages
    <3>2. Len(<<>>) = 0 /\ <<>> \in Seq(Listings)
      BY EmptySeq
    <3> QED
      BY <2>1, <3>1, <3>2, NavigationAssumption DEF Menu, Leave
  <2>2. ASSUME NEW i, PushAndLeave(i), strays' \in 0..MaxStrays, again' \in 0..MaxAgain
        PROVE  TypeOK'
    <3>1. RowOf(at, i) \in Pages
      BY <2>2, RowsLead, RowsArePages DEF PushAndLeave
    <3>2. /\ stack' \in Seq(Listings)
          /\ Len(stack') = Len(stack) + 1
      BY <2>2, AppendProperties DEF PushAndLeave
    <3>3. Len(stack) \in Nat /\ Len(stack) < MaxStack
      BY <2>2, LenProperties DEF PushAndLeave
    <3>4. Len(stack') <= MaxStack
      BY <3>2, <3>3, NavigationAssumption
    <3> QED
      BY <2>2, <3>1, <3>2, <3>4 DEF PushAndLeave, Leave
  <2>3. ASSUME NEW p \in Pages, Follow(p) PROVE TypeOK'
    BY <2>0, <2>3 DEF Follow, Leave
  <2>4. ASSUME NEW p \in Pages, Stray(p) PROVE TypeOK'
    BY <2>4, AskTypes, NavigationAssumption DEF Stray
  <2>5. ASSUME NEW p \in Pages, OthersPost(p) PROVE TypeOK'
    BY <2>5, OutcomeTypes DEF OthersPost, tab
  <2>6. ReturnUrl \in Pages /\ Popped \in Seq(Listings) /\ Len(Popped) <= MaxStack
    <3>1. ReturnUrl \in Pages /\ Popped \in Seq(Listings)
      BY PopTypes
    <3>2. CASE stack = <<>>
      BY <3>1, <3>2, PopTypes
    <3>3. CASE stack # <<>>
      <4>1. Len(stack) \in Nat /\ Len(Popped) = Len(stack) - 1
        BY <3>3, PopTypes
      <4> QED
        BY <3>1, <4>1, NavigationAssumption
    <3> QED
      BY <3>2, <3>3
  <2>7. CASE PostSucceeds
    BY <2>0, <2>7, OutcomeTypes DEF PostSucceeds
  <2>8. CASE PostFails
    BY <2>0, <2>8 DEF PostFails
  <2>9. CASE StrayToReferrer
    BY <2>9, NavigationAssumption DEF StrayToReferrer
  <2>12. CASE Return
    BY <2>6, <2>12 DEF Return, Leave
  <2>13. CASE Referrer
    BY <2>6, <2>13, AskTypes DEF Referrer
  <2>14. CASE Arrive
    BY <2>14, AskTypes DEF Arrive
  <2>15. CASE ArriveAtReferrer
    BY <2>15 DEF ArriveAtReferrer
  <2>16. ASSUME NEW i, ClickRow(i) PROVE TypeOK'
    BY <2>0, <2>2, <2>16 DEF ClickRow
  <2>17. ASSUME NEW i, ClickRowAgain(i) PROVE TypeOK'
    BY <2>2, <2>17, NavigationAssumption DEF ClickRowAgain
  <2>10. ASSUME NEW j \in Jobs, Expire(j) PROVE TypeOK'
    <3>1. db'.stage \in [Items -> Stages] /\ db'.applied \in SUBSET Jobs
      BY <2>10 DEF Expire, Databases, Stages
    <3>2. db' \in Databases
      BY <2>10, <3>1 DEF Expire, Databases
    <3> QED
      BY <2>10, <3>2 DEF Expire, tab
  <2>11. CASE UNCHANGED vars
    BY <2>11 DEF vars, tab
  <2> QED
    BY <2>1, <2>3, <2>4, <2>5, <2>7, <2>8, <2>9, <2>10, <2>11, <2>12, <2>13,
       <2>14, <2>15, <2>16, <2>17
    DEF Next
<1> QED
  BY <1>1, <1>2, PTL DEF Spec

-----------------------------------------------------------------------------
(* The invariant. *)

LEMMA ShownStep ==
  ASSUME TypeOK, ShownInv, [Next]_vars
  PROVE  ShownInv'
<1> USE DEF ShownInv
<1>1. ASSUME NEW p, Ask(p) PROVE ShownInv'
  BY <1>1 DEF Ask
<1>2. CASE UNCHANGED <<at, seen, state>>
  BY <1>2
<1>3. CASE state' # "shown"
  BY <1>3
<1> QED
  BY <1>1, <1>2, <1>3
  DEF Next, vars, tab, Leave, Menu, ClickRow, ClickRowAgain, PushAndLeave, Follow, Stray,
      OthersPost, Return, PostSucceeds, PostFails, Arrive, ArriveAtReferrer, Referrer,
      StrayToReferrer, Expire

(* A click that counts as no stray finds the stack as the page left it. *)
LEMMA NotLate ==
  ASSUME TypeOK, StraysIf(Moved), strays' = 0
  PROVE  ~Moved /\ strays = 0
BY DEF StraysIf, TypeOK

LEMMA PostedStep ==
  ASSUME TypeOK, PostedInv, [Next]_vars
  PROVE  PostedInv'
<1> USE DEF PostedInv
<1>1. ASSUME NEW p, Ask(p) PROVE PostedInv'
  BY <1>1 DEF Ask
<1>2. CASE UNCHANGED <<at, state, left, strays>>
  BY <1>2
<1>3. CASE PostSucceeds
  BY <1>3 DEF PostSucceeds
<1>4. CASE PostFails
  BY <1>4 DEF PostFails
<1>5. CASE StrayToReferrer
  <2>1. strays' # 0 /\ left' = "no"
    BY <1>5 DEF StrayToReferrer, TypeOK
  <2> QED
    BY <2>1
<1>6. CASE ArriveAtReferrer
  BY <1>6 DEF ArriveAtReferrer
<1>7. ASSUME NEW c \in {"row", "link", "return", "menu"}, NEW p, Leave(c, p), state # "posted"
      PROVE  PostedInv'
  BY <1>7 DEF Leave
<1>8. ASSUME NEW p, Menu(p) PROVE PostedInv'
  BY <1>7, <1>8 DEF Menu
<1>9. ASSUME NEW i, ClickRow(i) \/ ClickRowAgain(i) PROVE PostedInv'
  BY <1>7, <1>9 DEF ClickRow, ClickRowAgain, PushAndLeave
<1>10. ASSUME NEW p, Follow(p) PROVE PostedInv'
  BY <1>7, <1>10 DEF Follow
<1>11. CASE Return
  BY <1>7, <1>11 DEF Return
<1>12. CASE Arrive
  BY <1>1, <1>12 DEF Arrive
<1>13. CASE Referrer
  BY <1>1, <1>13 DEF Referrer
<1> QED
  BY <1>1, <1>2, <1>3, <1>4, <1>5, <1>6, <1>8, <1>9, <1>10, <1>11, <1>12, <1>13
  DEF Next, vars, tab, Stray, OthersPost, Expire

(* Return: to the listing that led here, or further back when it has been  *)
(* pressed before.                                                         *)
LEMMA ReturnsNear ==
  ASSUME TypeOK, LeftInv, StackFits, strays = 0
  PROVE  ReturnUrl \in MenuPages \/ ReturnUrl = at
           \/ (ReturnUrl \in Listings /\ LeadsTo(ReturnUrl, at))
<1>1. CASE stack = <<>>
  BY <1>1, PopTypes, ListingsArePages DEF TypeOK
<1>2. CASE stack # <<>>
  <2>1. ReturnUrl = stack[Len(stack)] /\ ReturnUrl \in Listings
    BY <1>2, PopTypes DEF TypeOK
  <2>2. LeadsTo(ReturnUrl, Here) \/ ReturnUrl = Here
    BY <1>2, <2>1 DEF StackFits, Precedes
  <2>3. CASE ~Moved
    BY <2>1, <2>2, <2>3 DEF Here
  <2>4. CASE left = "row"
    BY <2>1, <2>4 DEF LeftInv
  <2>5. CASE left = "menu"
    BY <1>2, <2>5 DEF LeftInv
  <2>6. CASE left = "return"
    <3>1. Here = to
      BY <2>6 DEF Here, Moved
    <3>2. CASE to \in MenuPages
      BY <2>1, <2>2, <3>1, <3>2, LeadsToItem
    <3>3. CASE to = at
      BY <2>1, <2>2, <3>1, <3>3
    <3>4. CASE to \in Listings /\ LeadsTo(to, at)
      BY <2>1, <2>2, <3>1, <3>4, ListingsAreNear
    <3> QED
      BY <2>6, <3>2, <3>3, <3>4 DEF LeftInv
  <2> QED
    BY <2>3, <2>4, <2>5, <2>6 DEF Moved
<1> QED
  BY <1>1, <1>2

LEMMA LeftStep ==
  ASSUME TypeOK, LeftInv, StackFits, [Next]_vars
  PROVE  LeftInv'
<1>1. CASE left' \in {"no", "post"}
  BY <1>1 DEF LeftInv
<1>2. CASE UNCHANGED tab
  BY <1>2 DEF LeftInv, tab
<1>3. ASSUME NEW p \in MenuPages, Menu(p) PROVE LeftInv'
  BY <1>3 DEF LeftInv, Menu, Leave
<1>4. ASSUME NEW i, PushAndLeave(i) PROVE LeftInv'
  <2>1. stack \in Seq(Listings) /\ at \in Listings /\ i \in Rows(at, seen)
    BY <1>4 DEF TypeOK, PushAndLeave
  <2>2. Len(stack') = Len(stack) + 1 /\ stack'[Len(stack) + 1] = at
        /\ stack' \in Seq(Listings) /\ Len(stack) \in Nat
    BY <1>4, <2>1, AppendProperties, LenProperties DEF PushAndLeave
  <2>3. stack' # <<>> /\ stack'[Len(stack')] = at
    BY <2>2, EmptySeq
  <2>4. left' = "row" /\ to' = RowOf(at, i) /\ at' = at /\ seen' = seen
    BY <1>4 DEF PushAndLeave, Leave
  <2> QED
    BY <2>1, <2>3, <2>4 DEF LeftInv
<1>5. ASSUME NEW p, Follow(p) PROVE LeftInv'
  BY <1>5 DEF LeftInv, Follow, Leave
<1>6. CASE Return
  <2>1. left' = "return" /\ to' = ReturnUrl /\ at' = at /\ strays' = strays
    BY <1>6 DEF Return, Leave
  <2> QED
    BY <2>1, ReturnsNear DEF LeftInv
<1> QED
  BY <1>1, <1>2, <1>3, <1>4, <1>5, <1>6
  DEF Next, vars, tab, Ask, ClickRow, ClickRowAgain, Stray, OthersPost, PostSucceeds,
      PostFails, Arrive, ArriveAtReferrer, Referrer, StrayToReferrer, Expire

(* The stack s is the way to h, after a repeated clicks on rows. *)
Way(s, h, a) ==
  /\ s = <<>> => h \in MenuPages
  /\ s # <<>> => /\ s[1] \in MenuPages
                 /\ LeadsTo(s[Len(s)], h) \/ (a > 0 /\ s[Len(s)] = h)
  /\ \A k \in 1..(Len(s) - 1) : LeadsTo(s[k], s[k + 1]) \/ (a > 0 /\ s[k] = s[k + 1])

LEMMA WayFits ==
  /\ StackFits <=> (strays = 0 => Way(stack, Here, again))
  /\ StackFits' <=> (strays' = 0 => Way(stack', Here', again'))
BY DEF StackFits, Way, Precedes

(* A row of a listing: the listing is pushed, and leads there. *)
LEMMA PushKeepsWay ==
  ASSUME NEW s \in Seq(Listings), NEW l \in Listings, NEW p, NEW a \in Nat,
         Way(s, l, a), LeadsTo(l, p)
  PROVE  Way(Append(s, l), p, a)
<1> DEFINE n == Len(s)
           t == Append(s, l)
<1>1. n \in Nat
  BY LenProperties
<1>2. /\ t \in Seq(Listings)
      /\ Len(t) = n + 1
      /\ t[n + 1] = l
      /\ \A k \in 1..n : t[k] = s[k]
  BY AppendProperties
<1> HIDE DEF t
<1>3. CASE s = <<>>
  <2>1. n = 0 /\ l \in MenuPages
    BY <1>3, EmptySeq DEF Way
  <2> HIDE DEF n
  <2>2. t # <<>> /\ Len(t) = 1 /\ t[1] = l
    <3>1. n + 1 = 1
      BY <2>1
    <3>2. Len(t) = 1 /\ t[1] = l
      BY <1>2, <3>1
    <3>3. t # <<>>
      BY <1>1, <1>2, EmptySeq
    <3> QED
      BY <3>2, <3>3
  <2>3. 1..(Len(t) - 1) = {}
    BY <2>2
  <2>4. Way(t, p, a)
    BY <2>1, <2>2, <2>3 DEF Way
  <2> QED
    BY <2>4 DEF t
<1>4. CASE s # <<>>
  <2>1. n # 0
    BY <1>1, <1>4, EmptySeq
  <2>2. /\ s[1] \in MenuPages
        /\ LeadsTo(s[n], l) \/ (a > 0 /\ s[n] = l)
        /\ \A k \in 1..(n - 1) : LeadsTo(s[k], s[k + 1]) \/ (a > 0 /\ s[k] = s[k + 1])
    BY <1>4 DEF Way
  <2> HIDE DEF n
  <2>3. t # <<>>
    BY <1>1, <1>2, EmptySeq
  <2>4. t[1] \in MenuPages
    BY <1>1, <1>2, <2>1, <2>2
  <2>5. ASSUME NEW k \in 1..n PROVE LeadsTo(t[k], t[k + 1]) \/ (a > 0 /\ t[k] = t[k + 1])
    <3>1. CASE k = n
      BY <1>1, <1>2, <2>1, <2>2, <3>1
    <3>2. CASE k # n
      <4>1. k \in 1..(n - 1) /\ k + 1 \in 1..n
        BY <1>1, <3>2
      <4> QED
        BY <1>2, <2>2, <4>1
    <3> QED
      BY <3>1, <3>2
  <2>6. (n + 1) - 1 = n
    BY <1>1
  <2>7. Way(t, p, a)
    BY <1>2, <2>3, <2>4, <2>5, <2>6 DEF Way
  <2> QED
    BY <2>7 DEF t
<1> QED
  BY <1>3, <1>4

(* Return and the referrer page: the rest of the stack led to its top. *)
LEMMA PopKeepsWay ==
  ASSUME stack \in Seq(Listings), NEW h, NEW a, Way(stack, h, a)
  PROVE  Way(Popped, ReturnUrl, a)
<1>1. CASE stack = <<>>
  <2>1. Popped = <<>> /\ ReturnUrl = Welcome /\ Len(<<>>) = 0
    BY <1>1, PopTypes, EmptySeq
  <2> QED
    BY <2>1, ListingsArePages DEF Way
<1>2. CASE stack # <<>>
  <2> DEFINE n == Len(stack)
  <2>1. /\ n \in Nat \ {0}
        /\ ReturnUrl = stack[n]
        /\ Len(Popped) = n - 1
        /\ \A k \in 1..(n - 1) : Popped[k] = stack[k]
        /\ Popped \in Seq(Listings)
    BY <1>2, PopTypes
  <2>2. /\ stack[1] \in MenuPages
        /\ \A k \in 1..(n - 1) :
             LeadsTo(stack[k], stack[k + 1]) \/ (a > 0 /\ stack[k] = stack[k + 1])
    BY <1>2 DEF Way
  <2> HIDE DEF n
  <2>3. CASE n = 1
    <3>1. Popped = <<>> /\ Len(<<>>) = 0
      BY <2>1, <2>3, EmptySeq
    <3> QED
      BY <2>1, <2>2, <2>3, <3>1 DEF Way
  <2>4. CASE n # 1
    <3>1. 1 \in 1..(n - 1) /\ n - 1 \in 1..(n - 1) /\ (n - 1) + 1 = n
      BY <2>1, <2>4
    <3>2. Popped # <<>>
      BY <2>1, <3>1, EmptySeq
    <3>3. /\ Popped[1] \in MenuPages
          /\ LeadsTo(Popped[n - 1], ReturnUrl) \/ (a > 0 /\ Popped[n - 1] = ReturnUrl)
      BY <2>1, <2>2, <3>1
    <3>4. ASSUME NEW k \in 1..((n - 1) - 1)
          PROVE  LeadsTo(Popped[k], Popped[k + 1]) \/ (a > 0 /\ Popped[k] = Popped[k + 1])
      <4>1. k \in 1..(n - 1) /\ k + 1 \in 1..(n - 1)
        BY <2>1
      <4> QED
        BY <2>1, <2>2, <4>1
    <3> QED
      BY <2>1, <3>2, <3>3, <3>4 DEF Way
  <2> QED
    BY <2>3, <2>4
<1> QED
  BY <1>1, <1>2

(* A row that is clicked for the first time. *)
LEMMA ClickFits ==
  ASSUME TypeOK, StackFits, NEW i, ClickRow(i)
  PROVE  StackFits'
<1> SUFFICES ASSUME strays' = 0
             PROVE  Way(stack', Here', again')
  BY WayFits
<1>1. PushAndLeave(i) /\ again' = again /\ ~Moved /\ strays = 0
  BY NotLate DEF ClickRow
<1>2. stack \in Seq(Listings) /\ at \in Listings /\ again \in Nat
  BY <1>1 DEF TypeOK, PushAndLeave
<1>3. Way(stack, at, again)
  BY <1>1, WayFits DEF Here
<1>4. LeadsTo(at, RowOf(at, i))
  BY <1>1, <1>2, RowsLead DEF TypeOK, PushAndLeave, LeadsTo
<1>5. stack' = Append(stack, at) /\ Here' = RowOf(at, i)
  BY <1>1 DEF PushAndLeave, Leave, Here, Moved
<1> QED
  BY <1>1, <1>2, <1>3, <1>4, <1>5, PushKeepsWay

(* A row that is clicked when the page is left for one already: a copy. *)
LEMMA AgainFits ==
  ASSUME TypeOK, LeftInv, StackFits, NEW i, ClickRowAgain(i)
  PROVE  StackFits'
<1> SUFFICES ASSUME strays' = 0
             PROVE  Way(stack', Here', again')
  BY WayFits
<1>1. PushAndLeave(i) /\ again' = again + 1 /\ left = "row" /\ strays = 0
  BY DEF ClickRowAgain
<1>2. /\ stack \in Seq(Listings) /\ at \in Listings
      /\ again' \in Nat /\ again' > 0
  BY <1>1 DEF TypeOK, PushAndLeave
<1>3. Way(stack, Here, again) /\ stack # <<>> /\ stack[Len(stack)] = at
  BY <1>1, WayFits DEF LeftInv
<1>4. Way(stack, at, again')
  BY <1>2, <1>3 DEF Way
<1>5. LeadsTo(at, RowOf(at, i))
  BY <1>1, <1>2, RowsLead DEF TypeOK, PushAndLeave, LeadsTo
<1>6. stack' = Append(stack, at) /\ Here' = RowOf(at, i)
  BY <1>1 DEF PushAndLeave, Leave, Here, Moved
<1> QED
  BY <1>2, <1>4, <1>5, <1>6, PushKeepsWay

(* A link of a row's show: the listing leads there as well. *)
LEMMA LinkKeepsWay ==
  ASSUME NEW s \in Seq(Listings), NEW h, NEW p \in Linked(h), NEW a, Way(s, h, a)
  PROVE  Way(s, p, a)
<1> DEFINE l == s[Len(s)]
<1>1. h.command = "show"
  BY LinkedFacts
<1>2. s # <<>>
  BY <1>1, MenuFacts DEF Way
<1>3. l \in Listings
  <2>1. Len(s) \in Nat \ {0}
    BY <1>2, EmptySeq, LenProperties
  <2> QED
    BY <2>1, ElementOfSeq
<1>4. l # h
  BY <1>1, <1>3, MenuListingFacts, MenuFacts, ItemListingFacts DEF Listings
<1>5. LeadsTo(l, h)
  BY <1>2, <1>4 DEF Way
<1>6. PICK i \in ItemsOf(l) : h = RowOf(l, i) \/ h \in Linked(RowOf(l, i))
  BY <1>5 DEF LeadsTo
<1>7. h = RowOf(l, i)
  <2>1. SUFFICES ASSUME h \in Linked(RowOf(l, i)) PROVE FALSE
    BY <1>6
  <2>2. <<RowOf(l, i).path, h.path, h.command>> \in Buttons
    BY <2>1, LinkedFacts
  <2> QED
    BY <1>1, <2>2 DEF Buttons
<1>8. LeadsTo(l, p)
  BY <1>6, <1>7 DEF LeadsTo
<1> QED
  BY <1>2, <1>8 DEF Way

LEMMA ArriveFits ==
  ASSUME TypeOK, LeftInv, StackFits, Arrive
  PROVE  StackFits'
<1> SUFFICES ASSUME strays = 0
             PROVE  Way(stack, to, again)
  <2>1. /\ Here' = to /\ stack' = stack /\ again' = again /\ strays' = strays
    BY DEF Arrive, Ask, Here, Moved
  <2> QED
    BY <2>1, WayFits
<1>1. Way(stack, Here, again)
  BY WayFits
<1>2. CASE Moved
  BY <1>1, <1>2 DEF Here
<1>3. CASE ~Moved
  <2>1. Here = at /\ to \in Linked(at) /\ stack \in Seq(Listings)
    BY <1>3 DEF Arrive, Moved, Here, LeftInv, Links, TypeOK
  <2> QED
    BY <1>1, <2>1, LinkKeepsWay
<1> QED
  BY <1>2, <1>3

LEMMA PopFits ==
  ASSUME TypeOK, StackFits, stack' = Popped, Here' = ReturnUrl,
         UNCHANGED <<strays, again>>
  PROVE  StackFits'
<1> SUFFICES ASSUME strays = 0 PROVE Way(Popped, ReturnUrl, again)
  BY WayFits
<1>1. Way(stack, Here, again) /\ stack \in Seq(Listings)
  BY WayFits DEF TypeOK
<1> QED
  BY <1>1, PopKeepsWay

LEMMA FitsStep ==
  ASSUME TypeOK, LeftInv, StackFits, [Next]_vars
  PROVE  StackFits'
<1>1. ASSUME NEW p \in MenuPages, Menu(p) PROVE StackFits'
  <2>1. stack' = <<>> /\ Here' = p /\ Len(<<>>) = 0
    BY <1>1, EmptySeq DEF Menu, Leave, Here, Moved
  <2>2. Way(<<>>, p, again')
    BY <2>1 DEF Way
  <2> QED
    BY <2>1, <2>2, WayFits
<1>2. ASSUME NEW p, Stray(p) PROVE StackFits'
  <2>1. strays' # 0
    BY <1>2 DEF Stray, TypeOK
  <2> QED
    BY <2>1, WayFits
<1>3. CASE StrayToReferrer
  <2>1. strays' # 0
    BY <1>3 DEF StrayToReferrer, TypeOK
  <2> QED
    BY <2>1, WayFits
<1>4. CASE Here' = Here /\ UNCHANGED <<stack, strays, again>>
  BY <1>4, WayFits
<1>5. CASE StraysIf(Moved) /\ Here' = at /\ UNCHANGED <<stack, again>>
  <2> SUFFICES ASSUME strays' = 0 PROVE Way(stack, at, again)
    BY <1>5, WayFits
  <2>1. strays = 0 /\ Here = at
    BY <1>5, NotLate DEF Here
  <2> QED
    BY <2>1, WayFits
<1>6. ASSUME NEW p, Follow(p) PROVE StackFits'
  BY <1>5, <1>6 DEF Follow, Leave, Here, Moved
<1>7. CASE PostSucceeds \/ PostFails
  <2>1. StraysIf(Moved) /\ Here' = at /\ UNCHANGED <<stack, again>>
    BY <1>7 DEF PostSucceeds, PostFails, Here, Moved
  <2> QED
    BY <1>5, <2>1
<1>8. CASE Return
  BY <1>8, PopFits DEF Return, Leave, Here, Moved
<1>9. CASE Referrer
  BY <1>9, PopFits DEF Referrer, Ask, Here, Moved
<1>10. CASE ArriveAtReferrer
  BY <1>4, <1>10 DEF ArriveAtReferrer, Here, Moved
<1>11. CASE UNCHANGED tab
  BY <1>4, <1>11 DEF tab, Here, Moved
<1> QED
  BY <1>1, <1>2, <1>3, <1>6, <1>7, <1>8, <1>9, <1>10, <1>11, ClickFits, AgainFits, ArriveFits
  DEF Next, vars, OthersPost, Expire

LEMMA Invariance == Spec => []IInv
<1>1. Init => IInv
  <2> SUFFICES ASSUME Init, TypeOK PROVE IInv
    BY TypeCorrectInit
  <2>1. at \in MenuPages /\ stack = <<>> /\ Len(<<>>) = 0 /\ left = "no"
    BY ListingsArePages, EmptySeq DEF Init
  <2> QED
    BY <2>1, MenuOpens
    DEF Init, IInv, ShownInv, PostedInv, LeftInv, StackFits, Here, Moved
<1>2. IInv /\ TypeOK' /\ [Next]_vars => IInv'
  BY ShownStep, PostedStep, LeftStep, FitsStep DEF IInv
<1> QED
  BY <1>1, <1>2, TypeCorrect, PTL DEF Spec

(* Unless the reader strays, the stack is the way from the menu to the     *)
(* page at hand, so that Return leads back; double clicks on rows leave    *)
(* copies on it and nothing else (list.tag, form-return.tag).              *)
THEOREM ReturnLeadsBack == Spec => []StackFits
BY Invariance, PTL DEF IInv

(* A successful post ends at the listing that led to its form, which       *)
(* opens, or at the welcome page (AbstractController.doPost).              *)
THEOREM PostsEndAtTheirListing == Spec => PostShowsItsListing
<1>1. ASSUME IInv, [Next]_vars, state = "posted", state' # state, strays = 0
      PROVE  /\ state' = "shown"
             /\ IF at \in MenuPages THEN at' = Welcome ELSE LeadsTo(at', at)
  <2>0. left = "no" /\ Here = at
    BY <1>1 DEF IInv, PostedInv, Here, Moved
  <2>1. Referrer
    BY <1>1, <2>0
    DEF Next, vars, tab, Menu, ClickRow, ClickRowAgain, PushAndLeave, Follow, Stray,
        OthersPost, Return, PostSucceeds, PostFails, Arrive, ArriveAtReferrer,
        StrayToReferrer, Expire
  <2>2. stack \in Seq(Listings) /\ IsForm(at)
    BY <1>1 DEF IInv, TypeOK, PostedInv
  <2>3. at' = ReturnUrl /\ (Opens(ReturnUrl, db) => state' = "shown")
    BY <2>1 DEF Referrer, Ask
  <2>4. CASE stack = <<>>
    <3>1. at \in MenuPages
      BY <1>1, <2>0, <2>4 DEF IInv, StackFits
    <3>2. at' = Welcome
      BY <2>2, <2>3, <2>4, PopTypes
    <3> QED
      BY <2>3, <3>1, <3>2, ListingsArePages, MenuOpens
  <2>5. CASE stack # <<>>
    <3>1. at' = stack[Len(stack)] /\ at' \in Listings
      BY <2>2, <2>3, <2>5, PopTypes
    <3>2. LeadsTo(at', at)
      <4>1. at' # at
        BY <2>2, <3>1, MenuListingFacts, MenuFacts, ItemListingFacts
        DEF Listings, IsForm, MenuListings, Page
      <4> QED
        BY <1>1, <2>0, <2>5, <3>1, <4>1 DEF IInv, StackFits, Precedes
    <3>3. at \notin MenuPages /\ at' \in MenuPages
      BY <2>2, <3>1, <3>2, LeadsToItem, FormsAreNear
    <3> QED
      BY <2>3, <3>2, <3>3, MenuOpens
  <2> QED
    BY <2>4, <2>5
<1>2. IInv /\ [Next]_vars =>
        [state = "posted" /\ state' # state /\ strays = 0 =>
           /\ state' = "shown"
           /\ IF at \in MenuPages THEN at' = Welcome ELSE LeadsTo(at', at)]_vars
  BY <1>1
<1> QED
  BY <1>2, Invariance, PTL DEF Spec, PostShowsItsListing

(* What a page offers opens, unless the database has changed since or at   *)
(* one of the known dead ends.                                             *)
THEOREM OffersOpen == Spec => DeadEndsAreKnown
<1>1. ASSUME IInv, [Next]_vars, state = "shown", state' = "refused", at' # at,
             strays' = 0, seen = db
      PROVE  DeadEnd(at')
  <2>1. Opens(at, db) /\ at \in Pages /\ db \in Databases /\ stack \in Seq(Listings)
    BY <1>1 DEF IInv, ShownInv, TypeOK
  <2>2. Arrive
    BY <1>1
    DEF Next, vars, tab, Leave, Menu, ClickRow, ClickRowAgain, PushAndLeave, Follow, Stray,
        OthersPost, Return, PostSucceeds, PostFails, ArriveAtReferrer, Referrer,
        StrayToReferrer, Expire, IInv, TypeOK
  <2>3. at' = to /\ ~Opens(to, db) /\ strays = 0
    BY <1>1, <2>2 DEF Arrive, Ask
  <2>4. CASE left = "menu"
    BY <1>1, <2>3, <2>4, MenuOpens DEF IInv, LeftInv
  <2>5. CASE left = "row"
    BY <1>1, <2>1, <2>3, <2>5, RowsOpen DEF IInv, LeftInv
  <2>6. CASE left = "link"
    BY <1>1, <2>1, <2>3, <2>6, LinksOpen DEF IInv, LeftInv
  <2>7. CASE left = "return"
    <3>1. to \in Listings /\ LeadsTo(to, at)
      BY <1>1, <2>3, <2>7, MenuOpens DEF IInv, LeftInv
    <3> QED
      BY <2>1, <2>3, <3>1, ReturnOpens
  <2> QED
    BY <2>2, <2>4, <2>5, <2>6, <2>7 DEF Arrive
<1>2. IInv /\ [Next]_vars =>
        [state = "shown" /\ state' = "refused" /\ at' # at /\ strays' = 0 /\ seen = db =>
           DeadEnd(at')]_vars
  BY <1>1
<1> QED
  BY <1>2, Invariance, PTL DEF Spec, DeadEndsAreKnown

-----------------------------------------------------------------------------
(* The depth of the stack. *)

(* How many addresses the pages from p on may still push. *)
Reach(p) ==
  IF p \in MenuListings THEN 2
  ELSE IF p \in ItemListings \/ Linked(p) # {} THEN 1 ELSE 0

Depth == 2 + 2 * strays + again

(* Neither from h nor from any page that Return leads to with the stack s  *)
(* can the stack exceed d.                                                 *)
Bound(s, h, d) ==
  /\ Len(s) + Reach(h) <= d
  /\ \A k \in 1..Len(s) : (k - 1) + Reach(s[k]) <= d

ReachInv == Bound(stack, Here, Depth)

LEMMA ReachRange ==
  ASSUME NEW p
  PROVE  Reach(p) \in 0..2
BY DEF Reach

(* A row takes a step towards the leaves of the site. *)
LEMMA RowsDescend ==
  ASSUME NEW l \in Listings, NEW i
  PROVE  Reach(RowOf(l, i)) + 1 <= Reach(l)
<1>1. RowOf(l, i).command = "show"
  BY DEF RowOf, Page
<1>2. RowOf(l, i) \notin MenuListings /\ RowOf(l, i) \notin ItemListings
  BY <1>1, MenuListingFacts, MenuFacts, ItemListingFacts
<1>3. CASE l \in MenuListings
  BY <1>2, <1>3 DEF Reach
<1>4. CASE l \notin MenuListings
  <2>1. l \in ItemListings
    BY <1>4 DEF Listings
  <2> QED
    BY <1>2, <1>4, <2>1, NothingLinked DEF Reach
<1> QED
  BY <1>3, <1>4

(* A link stays at the same distance from them, or gets closer. *)
LEMMA LinksDescend ==
  ASSUME NEW p, NEW q \in Linked(p)
  PROVE  Reach(q) <= Reach(p)
<1>1. q \notin MenuListings
  <2>1. <<p.path, q.path, q.command>> \in Buttons
    BY LinkedFacts
  <2>2. \/ q.path \in {"employer/duty", "employer/audit-record", "auditor/duty",
                       "authenticated/duty", "authenticated/audit-record",
                       "authenticated/message"}
        \/ q.path = "worker/application" /\ q.command = "create"
    BY <2>1 DEF Buttons
  <2>3. ASSUME q \in MenuListings, q.path = "worker/application"
        PROVE  q.command = "list_mine"
    BY <2>3 DEF MenuListings, Page
  <2> QED
    BY <2>2, <2>3, MenuListingFacts
<1>2. Reach(q) <= 1
  BY <1>1 DEF Reach
<1>3. Reach(p) >= 1
  BY DEF Reach
<1> QED
  BY <1>2, <1>3, ReachRange

(* The rows of one listing are equally far from them. *)
LEMMA RowsReach ==
  ASSUME NEW l \in Listings, NEW i, NEW j
  PROVE  Reach(RowOf(l, i)) = Reach(RowOf(l, j))
<1>1. /\ RowOf(l, i).command = "show" /\ RowOf(l, j).command = "show"
      /\ RowOf(l, i).path = l.path /\ RowOf(l, j).path = l.path
  BY DEF RowOf, Page
<1>2. /\ RowOf(l, i) \notin MenuListings \cup ItemListings
      /\ RowOf(l, j) \notin MenuListings \cup ItemListings
  BY <1>1, MenuListingFacts, MenuFacts, ItemListingFacts
<1>3. Linked(RowOf(l, i)) = {} <=> Linked(RowOf(l, j)) = {}
  BY <1>1 DEF Linked
<1> QED
  BY <1>2, <1>3 DEF Reach

LEMMA PushBound ==
  ASSUME NEW s \in Seq(Listings), NEW l \in Listings, NEW p, NEW d \in Nat, NEW e \in Nat,
         \A k \in 1..Len(s) : (k - 1) + Reach(s[k]) <= d, d <= e,
         Len(s) + Reach(l) <= e, Len(s) + 1 + Reach(p) <= e
  PROVE  Bound(Append(s, l), p, e)
<1> DEFINE n == Len(s)
           t == Append(s, l)
<1>1. n \in Nat
  BY LenProperties
<1>2. Len(t) = n + 1 /\ t[n + 1] = l /\ \A k \in 1..n : t[k] = s[k]
  BY AppendProperties
<1> HIDE DEF n, t
<1>3. ASSUME NEW k \in 1..(n + 1) PROVE (k - 1) + Reach(t[k]) <= e
  <2>1. CASE k = n + 1
    BY <1>1, <1>2, <2>1 DEF n
  <2>2. CASE k # n + 1
    <3>1. k \in 1..n
      BY <1>1, <2>2
    <3>2. (k - 1) + Reach(s[k]) <= d /\ Reach(s[k]) \in 0..2
      BY <3>1, ReachRange DEF n
    <3> QED
      BY <1>2, <3>1, <3>2
  <2> QED
    BY <2>1, <2>2
<1>4. Bound(t, p, e)
  BY <1>2, <1>3 DEF Bound, n
<1> QED
  BY <1>4 DEF t

LEMMA ClickReaches ==
  ASSUME TypeOK, LeftInv, ReachInv, NEW i, ClickRow(i) \/ ClickRowAgain(i)
  PROVE  ReachInv'
<1>1. PushAndLeave(i)
  BY DEF ClickRow, ClickRowAgain
<1>2. /\ stack \in Seq(Listings) /\ at \in Listings /\ strays \in Nat /\ again \in Nat
      /\ stack' = Append(stack, at) /\ Here' = RowOf(at, i)
  BY <1>1 DEF TypeOK, PushAndLeave, Leave, Here, Moved
<1>3. /\ Len(stack) + Reach(Here) <= Depth
      /\ \A k \in 1..Len(stack) : (k - 1) + Reach(stack[k]) <= Depth
      /\ Depth \in Nat /\ Len(stack) \in Nat
  BY <1>2, LenProperties DEF ReachInv, Bound, Depth
<1>4. /\ Reach(at) \in 0..2 /\ Reach(Here) \in 0..2
      /\ Reach(RowOf(at, i)) \in 0..2
      /\ Reach(RowOf(at, i)) + 1 <= Reach(at)
  BY <1>2, ReachRange, RowsDescend
<1> SUFFICES /\ Depth' \in Nat /\ Depth <= Depth'
             /\ Len(stack) + Reach(at) <= Depth'
             /\ Len(stack) + 1 + Reach(RowOf(at, i)) <= Depth'
  BY <1>2, <1>3, PushBound DEF ReachInv
<1>5. CASE ClickRow(i) /\ ~Moved
  <2>1. Here = at /\ Depth' = Depth
    BY <1>5 DEF ClickRow, StraysIf, Here, Depth
  <2> QED
    BY <1>3, <1>4, <2>1
<1>6. CASE ClickRow(i) /\ Moved
  <2>1. Depth' = Depth + 2
    BY <1>2, <1>6 DEF ClickRow, StraysIf, Depth
  <2> QED
    BY <1>3, <1>4, <2>1
<1>7. CASE ClickRowAgain(i)
  <2>1. Depth' = Depth + 1 /\ left = "row"
    BY <1>2, <1>7 DEF ClickRowAgain, Depth
  <2>2. PICK j : Here = RowOf(at, j)
    BY <2>1 DEF LeftInv, Here, Moved
  <2>3. Reach(Here) = Reach(RowOf(at, i))
    BY <1>2, <2>2, RowsReach
  <2>4. stack # <<>> /\ stack[Len(stack)] = at
    BY <2>1 DEF LeftInv
  <2>5. Len(stack) # 0
    BY <1>2, <2>4, EmptySeq
  <2>6. (Len(stack) - 1) + Reach(at) <= Depth
    BY <1>3, <2>4, <2>5
  <2> QED
    BY <1>3, <1>4, <2>1, <2>3, <2>6
<1> QED
  BY <1>5, <1>6, <1>7

LEMMA PopReaches ==
  ASSUME TypeOK, ReachInv, stack' = Popped, Here' = ReturnUrl,
         UNCHANGED <<strays, again>>
  PROVE  ReachInv'
<1>1. stack \in Seq(Listings) /\ strays \in Nat /\ again \in Nat
  BY DEF TypeOK
<1>2. Depth' = Depth /\ Depth \in Nat /\ 2 <= Depth
  BY <1>1 DEF Depth
<1> SUFFICES Bound(Popped, ReturnUrl, Depth)
  BY <1>2 DEF ReachInv
<1>3. CASE stack = <<>>
  <2>1. Popped = <<>> /\ Len(<<>>) = 0
    BY <1>1, <1>3, PopTypes, EmptySeq
  <2> QED
    BY <1>2, <2>1, ReachRange DEF Bound
<1>4. CASE stack # <<>>
  <2> DEFINE n == Len(stack)
  <2>1. /\ n \in Nat \ {0}
        /\ ReturnUrl = stack[n]
        /\ Len(Popped) = n - 1
        /\ \A k \in 1..(n - 1) : Popped[k] = stack[k]
    BY <1>1, <1>4, PopTypes
  <2>2. \A k \in 1..n : (k - 1) + Reach(stack[k]) <= Depth
    BY DEF ReachInv, Bound
  <2> HIDE DEF n
  <2>3. (n - 1) + Reach(ReturnUrl) <= Depth
    BY <2>1, <2>2
  <2>4. ASSUME NEW k \in 1..(n - 1) PROVE (k - 1) + Reach(Popped[k]) <= Depth
    <3>1. k \in 1..n
      BY <2>1
    <3> QED
      BY <2>1, <2>2, <3>1
  <2> QED
    BY <2>1, <2>3, <2>4 DEF Bound
<1> QED
  BY <1>3, <1>4

LEMMA ReachStep ==
  ASSUME TypeOK, LeftInv, ReachInv, [Next]_vars
  PROVE  ReachInv'
<1>1. Len(stack) \in Nat /\ strays \in Nat /\ again \in Nat /\ Depth \in Nat
  BY LenProperties DEF TypeOK, Depth
<1>2. ASSUME NEW p \in MenuPages, Menu(p) PROVE ReachInv'
  <2>1. stack' = <<>> /\ Len(<<>>) = 0 /\ Depth' = 2
    BY <1>2, EmptySeq DEF Menu, Depth
  <2> QED
    BY <2>1, ReachRange DEF ReachInv, Bound
<1>3. CASE Here' = Here /\ UNCHANGED <<stack, strays, again>>
  <2>1. Depth' = Depth
    BY <1>3 DEF Depth
  <2> QED
    BY <1>3, <2>1 DEF ReachInv
<1>4. CASE strays' = strays + 1 /\ UNCHANGED <<stack, again>>
  <2>1. Depth' = Depth + 2
    BY <1>1, <1>4 DEF Depth
  <2>2. /\ Reach(Here) \in 0..2 /\ Reach(Here') \in 0..2
        /\ \A k \in 1..Len(stack) : Reach(stack[k]) \in 0..2
    BY ReachRange
  <2>3. Bound(stack, Here', Depth + 2)
    BY <1>1, <2>2 DEF ReachInv, Bound
  <2> QED
    BY <1>4, <2>1, <2>3 DEF ReachInv
<1>5. CASE StraysIf(Moved) /\ Here' = at /\ UNCHANGED <<stack, again>>
  <2>1. CASE Moved
    BY <1>4, <1>5, <2>1 DEF StraysIf
  <2>2. CASE ~Moved
    BY <1>3, <1>5, <2>2 DEF StraysIf, Here
  <2> QED
    BY <2>1, <2>2
<1>6. ASSUME NEW p, Follow(p) PROVE ReachInv'
  <2>1. StraysIf(Moved) /\ Here' = at /\ UNCHANGED <<stack, again>>
    BY <1>6 DEF Follow, Leave, Here, Moved
  <2> QED
    BY <1>5, <2>1
<1>7. CASE PostSucceeds \/ PostFails
  <2>1. StraysIf(Moved) /\ Here' = at /\ UNCHANGED <<stack, again>>
    BY <1>7 DEF PostSucceeds, PostFails, Here, Moved
  <2> QED
    BY <1>5, <2>1
<1>8. CASE Arrive
  <2>1. Here' = to /\ UNCHANGED <<stack, strays, again>>
    BY <1>8 DEF Arrive, Ask, Here, Moved
  <2>2. CASE Moved
    BY <1>3, <2>1, <2>2 DEF Here
  <2>3. CASE ~Moved
    <3>1. Here = at /\ to \in Linked(at)
      BY <1>8, <2>3 DEF Arrive, Moved, Here, LeftInv, Links
    <3>2. Reach(to) <= Reach(at) /\ Reach(to) \in 0..2 /\ Reach(at) \in 0..2
      BY <3>1, LinksDescend, ReachRange
    <3>3. Bound(stack, to, Depth)
      BY <1>1, <3>1, <3>2 DEF ReachInv, Bound
    <3>4. Depth' = Depth
      BY <2>1 DEF Depth
    <3> QED
      BY <2>1, <3>3, <3>4 DEF ReachInv
  <2> QED
    BY <2>2, <2>3
<1>9. CASE Return
  BY <1>9, PopReaches DEF Return, Leave, Here, Moved
<1>10. CASE Referrer
  BY <1>10, PopReaches DEF Referrer, Ask, Here, Moved
<1>11. CASE ArriveAtReferrer
  BY <1>3, <1>11 DEF ArriveAtReferrer, Here, Moved
<1>12. CASE UNCHANGED tab
  BY <1>3, <1>12 DEF tab, Here, Moved
<1> QED
  BY <1>2, <1>4, <1>6, <1>7, <1>8, <1>9, <1>10, <1>11, <1>12, ClickReaches
  DEF Next, vars, Stray, StrayToReferrer, OthersPost, Expire

(* The stack never exceeds the depth of the site: two addresses, two more  *)
(* for every time the reader has strayed since the menu was used, and one  *)
(* for every repeated click on a row.  So a bound that is their sum leaves *)
(* nothing out, and only double clicks and strays fill the session storage *)
(* (acme.js: pushReturnUrl).                                               *)
THEOREM StackIsShallow == Spec => [](Len(stack) <= 2 + 2 * strays + again)
<1>1. Init => ReachInv
  <2> SUFFICES ASSUME Init PROVE ReachInv
    OBVIOUS
  <2>1. stack = <<>> /\ Len(<<>>) = 0 /\ Depth = 2
    BY EmptySeq DEF Init, Depth
  <2> QED
    BY <2>1, ReachRange DEF ReachInv, Bound
<1>2. IInv /\ ReachInv /\ [Next]_vars => ReachInv'
  BY ReachStep DEF IInv
<1>3. IInv /\ ReachInv => Len(stack) <= 2 + 2 * strays + again
  <2>1. SUFFICES ASSUME TypeOK, ReachInv PROVE Len(stack) <= 2 + 2 * strays + again
    BY DEF IInv
  <2>2. Len(stack) \in Nat /\ strays \in Nat /\ again \in Nat /\ Reach(Here) \in 0..2
    BY <2>1, LenProperties, ReachRange DEF TypeOK
  <2>3. Len(stack) + Reach(Here) <= 2 + 2 * strays + again
    BY <2>1 DEF ReachInv, Bound, Depth
  <2> QED
    BY <2>2, <2>3
<1> QED
  BY <1>1, <1>2, <1>3, Invariance, PTL DEF Spec
=============================================================================
