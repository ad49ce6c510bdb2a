-------------------------- MODULE StaleFormsProofs --------------------------
(***************************************************************************)
(* For any number of rows, tabs and texts: a version tells the content of  *)
(* a row, so comparing versions is enough for updates not to be lost.      *)
(*                                                                         *)
(* Neither property is inductive.  IInv adds that the versions of a row    *)
(* only grow, that is: no form and no request has a later version than its *)
(* row, and that identifiers are never given out again.                    *)
(***************************************************************************)
EXTENDS StaleForms, TLAPS

(* The content c and the version v were those of row i at some time. *)
Was(i, v, c) ==
  /\ row[i] # NoRow
  /\ Exists(i) => /\ v <= row[i].version
                  /\ v = row[i].version => c = row[i].content

FormInv ==
  \A t \in Tabs : form[t] # NoForm =>
    /\ form[t].desk \notin {"signUp", "offer", "request"}
    /\ Was(form[t].row, form[t].version, form[t].seen)
    /\ form[t].seen \in ContentOf(KindOf(form[t].desk))
    /\ Exists(form[t].row) => row[form[t].row].kind = KindOf(form[t].desk)

(* A row is created once, by one request. *)
CreateInv ==
  \A u \in Threads : request[u] # NoRequest /\ request[u].command = "create" =>
    /\ row[request[u].row] = NoRow
    /\ \A e \in Threads \ {u} :
         request[e] # NoRequest => request[e].row # request[u].row

(* What a request saves follows from what it has read and its form showed. *)
Honest(u) ==
  /\ request[u].desk \notin {"signUp", "offer", "request"}
  /\ Was(request[u].row, request[u].version, request[u].base)
  /\ Exists(request[u].row) => row[request[u].row].kind = KindOf(request[u].desk)
  /\ request[u].command = "update" =>
       /\ request[u].desk # "configuration" => request[u].seen = request[u].base
       /\ request[u].desk = "ownAccount" =>
            request[u].content.enabled = request[u].base.enabled

UpdateInv ==
  \A u \in Threads :
    request[u] # NoRequest /\ request[u].command # "create" => Honest(u)

ContentInv ==
  \A u \in Threads : request[u] # NoRequest =>
    request[u].content \in ContentOf(KindOf(request[u].desk))

IInv == TypeOK /\ FormInv /\ CreateInv /\ UpdateInv /\ ContentInv

-----------------------------------------------------------------------------
(* The types. *)

LEMMA DeskKinds == \A d \in Desks : KindOf(d) \in Kinds
BY DEF Desks, KindOf, Kinds, AccountDesks, Profiles

LEMMA ContentOfDesk ==
  ASSUME NEW d \in Desks, NEW c \in ContentOf(KindOf(d))
  PROVE  c \in Content
BY DeskKinds DEF Content

LEMMA ContentShapes ==
  /\ ContentOf("announcement") = [text : Texts, moment : Times]
  /\ ContentOf("challenge") = [reward : Rewards, deadline : Times]
  /\ ContentOf("userAccount") = [text : Texts, enabled : BOOLEAN]
  /\ ContentOf("offer") = [ticker : Tickers, deadline : Times]
  /\ ContentOf("request") = [ticker : Tickers, deadline : Times]
  /\ \A k \in Profiles \cup {"companyRecord", "investorRecord", "configuration"} :
       ContentOf(k) = [text : Texts]
BY DEF ContentOf, Profiles

LEMMA RowType ==
  ASSUME NEW k \in Kinds, NEW v \in Versions, NEW c \in ContentOf(k)
  PROVE  [kind |-> k, version |-> v, content |-> c] \in Row
<1>1. c \in Content
  BY DEF Content
<1> DEFINE r == [kind |-> k, version |-> v, content |-> c]
<1>2. r \in [kind : Kinds, version : Versions, content : Content]
  BY <1>1
<1> QED
  BY <1>2 DEF Row

LEMMA RowFacts ==
  ASSUME TypeOK, NEW i \in Rows, Exists(i)
  PROVE  /\ row[i] \in Row
         /\ row[i].kind \in Kinds
         /\ row[i].version \in Versions
         /\ row[i].content \in Content
         /\ row[i].content \in ContentOf(row[i].kind)
BY DEF TypeOK, Exists, Row

LEMMA FormFacts ==
  ASSUME TypeOK, NEW t \in Tabs, form[t] # NoForm
  PROVE  /\ form[t] \in Form
         /\ form[t].desk \in Desks /\ form[t].row \in Rows
         /\ form[t].version \in Versions /\ form[t].seen \in Content
BY DEF TypeOK, Form

LEMMA RequestFacts ==
  ASSUME TypeOK, NEW u \in Threads, request[u] # NoRequest
  PROVE  /\ request[u] \in Request
         /\ request[u].desk \in Desks /\ request[u].command \in {"create", "update", "delete"}
         /\ request[u].row \in Rows /\ request[u].version \in Versions
         /\ request[u].base \in Content /\ request[u].seen \in Content
         /\ request[u].content \in Content
BY DEF TypeOK, Request

-----------------------------------------------------------------------------
(* The reading half of a post. *)

(* A request that enters leaves rows, forms and the other requests alone. *)
LEMMA RequestEnters ==
  ASSUME IInv, NEW u \in Threads, NEW d \in Desks, request[u] = NoRequest,
         NEW r \in Request, r.desk = d, request' = [request EXCEPT ![u] = r],
         UNCHANGED <<row, form, now>>,
         r.content \in ContentOf(KindOf(d)),
         r.command = "create" =>
           /\ row[r.row] = NoRow
           /\ \A e \in Threads : request[e] # NoRequest => request[e].row # r.row,
         r.command # "create" =>
           /\ d \notin {"signUp", "offer", "request"}
           /\ Was(r.row, r.version, r.base)
           /\ Exists(r.row) => row[r.row].kind = KindOf(d)
           /\ r.command = "update" =>
                /\ d # "configuration" => r.seen = r.base
                /\ d = "ownAccount" => r.content.enabled = r.base.enabled
  PROVE  IInv'
<1>1. /\ request'[u] = r
      /\ \A e \in Threads : e # u => request'[e] = request[e]
      /\ r # NoRequest
  BY NoneAssumption DEF IInv, TypeOK
<1>2. TypeOK'
  BY DEF IInv, TypeOK
<1>3. FormInv'
  BY DEF IInv, FormInv, Was, Exists
<1>4. CreateInv'
  <2> SUFFICES ASSUME NEW f \in Threads, request'[f] # NoRequest,
                      request'[f].command = "create"
               PROVE  /\ row[request'[f].row] = NoRow
                      /\ \A e \in Threads \ {f} :
                           request'[e] # NoRequest => request'[e].row # request'[f].row
    BY DEF CreateInv
  <2>1. CASE f = u
    BY <1>1, <2>1
  <2>2. CASE f # u
    <3>1. /\ row[request[f].row] = NoRow
          /\ \A e \in Threads \ {f} :
               request[e] # NoRequest => request[e].row # request[f].row
      BY <1>1, <2>2 DEF IInv, CreateInv
    <3>2. r.row # request[f].row
      <4>1. CASE r.command = "create"
        BY <1>1, <2>2, <4>1
      <4>2. CASE r.command # "create"
        BY <3>1, <4>2 DEF Was
      <4> QED
        BY <4>1, <4>2
    <3> QED
      BY <1>1, <2>2, <3>1, <3>2
  <2> QED
    BY <2>1, <2>2
<1>5. UpdateInv'
  <2> SUFFICES ASSUME NEW e \in Threads, request'[e] # NoRequest,
                      request'[e].command # "create"
               PROVE  Honest(e)'
    BY DEF UpdateInv
  <2>1. CASE e = u
    BY <1>1, <2>1 DEF Honest, Was, Exists
  <2>2. CASE e # u
    <3>1. request'[e] = request[e] /\ Honest(e)
      BY <1>1, <2>2 DEF IInv, UpdateInv
    <3> QED
      BY <3>1 DEF Honest, Was, Exists
  <2> QED
    BY <2>1, <2>2
<1>6. ContentInv'
  BY <1>1 DEF IInv, ContentInv
<1> QED
  BY <1>2, <1>3, <1>4, <1>5, <1>6 DEF IInv

LEMMA PostCreateStep ==
  ASSUME IInv, NEW d \in Desks, NEW i \in Rows, NEW c \in ContentOf(KindOf(d)),
         PostCreate(d, i, c)
  PROVE  IInv'
<1> DEFINE r == [desk |-> d, command |-> "create", row |-> i, version |-> 0,
                 base |-> c, seen |-> c, content |-> c]
<1>1. r \in Request
  BY ContentOfDesk, BoundsAssumption DEF Request, Versions
<1>2. ASSUME NEW e \in Threads, request[e] # NoRequest PROVE request[e].row # i
  BY <1>2 DEF PostCreate, Creating, IInv, UpdateInv, Honest, Was
<1>3. PICK u \in Threads :
        /\ request[u] = NoRequest
        /\ request' = [request EXCEPT ![u] = r]
        /\ UNCHANGED <<row, form, now>>
        /\ row[i] = NoRow
  BY DEF PostCreate, Enter
<1>4. r.desk = d /\ r.command = "create" /\ r.row = i /\ r.content = c
  OBVIOUS
<1> HIDE DEF r
<1> QED
  BY <1>1, <1>2, <1>3, <1>4, RequestEnters

(* A form is posted at a desk: the row is read, with its version. *)
LEMMA PostStep ==
  ASSUME IInv, NEW t \in Tabs, NEW d \in Desks, Posting(t, d),
         NEW command \in {"update", "delete"}, NEW c \in ContentOf(KindOf(d)),
         Post(t, d, command, c),
         command = "update" /\ d # "configuration" =>
           form[t].version = Posted(t).version,
         command = "update" /\ d = "ownAccount" =>
           c.enabled = Posted(t).content.enabled
  PROVE  IInv'
<1> DEFINE i == form[t].row
           r == [desk |-> d, command |-> command, row |-> i, version |-> row[i].version,
                 base |-> row[i].content, seen |-> form[t].seen, content |-> c]
<1>1. /\ form[t] # NoForm /\ form[t].desk = d /\ Exists(i)
  BY DEF Posting
<1>2. i \in Rows /\ form[t].seen \in Content
  BY <1>1, FormFacts DEF IInv
<1>3. row[i].version \in Versions /\ row[i].content \in Content
  BY <1>1, <1>2, RowFacts DEF IInv
<1>4. r \in Request
  BY <1>2, <1>3, ContentOfDesk DEF Request
<1>5. PICK u \in Threads :
        /\ request[u] = NoRequest
        /\ request' = [request EXCEPT ![u] = r]
        /\ UNCHANGED <<row, form, now>>
  BY DEF Post, Posted, Enter
<1>6. /\ d \notin {"signUp", "offer", "request"}
      /\ Was(i, form[t].version, form[t].seen)
      /\ row[i].kind = KindOf(d)
  BY <1>1 DEF IInv, FormInv
<1>7. Was(i, row[i].version, row[i].content)
  BY <1>1, <1>3, BoundsAssumption DEF Was, Exists, Versions
<1>8. command = "update" /\ d # "configuration" => form[t].seen = row[i].content
  BY <1>1, <1>6 DEF Was, Posted
<1>9. /\ r.desk = d /\ r.command = command /\ r.row = i /\ r.version = row[i].version
      /\ r.base = row[i].content /\ r.seen = form[t].seen /\ r.content = c
  OBVIOUS
<1>10. command = "update" /\ d = "ownAccount" => c.enabled = row[i].content.enabled
  BY DEF Posted
<1> HIDE DEF i, r
<1> QED
  BY <1>1, <1>4, <1>5, <1>6, <1>7, <1>8, <1>9, <1>10, RequestEnters

-----------------------------------------------------------------------------
(* The saving half of a post. *)

(* How a row may change: it is created, it gets a later version, or it goes. *)
Changes(i, x) ==
  /\ row' = [row EXCEPT ![i] = x]
  /\ \/ row[i] = NoRow /\ x \in Row
     \/ /\ Exists(i) /\ x \in Row
        /\ x.version > row[i].version /\ x.kind = row[i].kind
     \/ Exists(i) /\ x = Gone

LEMMA WasLasts ==
  ASSUME TypeOK, NEW i \in Rows, NEW x, Changes(i, x) \/ UNCHANGED row,
         NEW j \in Rows, NEW v \in Versions, NEW c, Was(j, v, c)
  PROVE  /\ Was(j, v, c)'
         /\ Exists(j)' => Exists(j) /\ row'[j].kind = row[j].kind
<1>1. CASE UNCHANGED row
  BY <1>1 DEF Was, Exists
<1>2. CASE Changes(i, x) /\ j # i
  <2>1. row'[j] = row[j]
    BY <1>2 DEF Changes, TypeOK
  <2> QED
    BY <2>1 DEF Was, Exists
<1>3. CASE Changes(i, x) /\ j = i
  <2>1. row[i] # NoRow
    BY <1>3 DEF Was
  <2>2. row'[i] = x
    BY <1>3 DEF Changes, TypeOK
  <2>3. CASE Exists(i) /\ x \in Row /\ x.version > row[i].version /\ x.kind = row[i].kind
    <3>1. x.version \in Int /\ row[i].version \in Int /\ v \in Int
      BY <2>3, RowFacts, BoundsAssumption DEF Row, Versions
    <3>2. v <= row[i].version
      BY <1>3, <2>3 DEF Was
    <3>3. v <= x.version /\ v # x.version
      BY <2>3, <3>1, <3>2
    <3>4. x # NoRow
      BY <2>3, NoneAssumption
    <3> QED
      BY <1>3, <2>2, <2>3, <3>3, <3>4 DEF Was, Exists
  <2>4. CASE Exists(i) /\ x = Gone
    BY <1>3, <2>2, <2>4, NoneAssumption DEF Was, Exists
  <2> QED
    BY <1>3, <2>1, <2>3, <2>4 DEF Changes
<1> QED
  BY <1>1, <1>2, <1>3

(* A request leaves, with or without a change of its row. *)
LEMMA RequestLeaves ==
  ASSUME IInv, NEW u \in Threads, request[u] # NoRequest,
         request' = [request EXCEPT ![u] = NoRequest],
         UNCHANGED <<form, now>>,
         NEW x, Changes(request[u].row, x) \/ UNCHANGED row
  PROVE  IInv'
<1> DEFINE i == request[u].row
<1>0. i \in Rows /\ TypeOK
  BY RequestFacts DEF IInv
<1>1. /\ request'[u] = NoRequest
      /\ \A e \in Threads : e # u => request'[e] = request[e]
  BY DEF IInv, TypeOK
<1>2. TypeOK'
  <2>1. row' \in [Rows -> Row \cup {NoRow, Gone}]
    BY <1>0 DEF TypeOK, Changes
  <2> QED
    BY <1>0, <2>1 DEF TypeOK
<1>3. ASSUME NEW j \in Rows, NEW v \in Versions, NEW c, Was(j, v, c)
      PROVE  Was(j, v, c)' /\ (Exists(j)' => Exists(j) /\ row'[j].kind = row[j].kind)
  BY <1>0, <1>3, WasLasts
<1>4. FormInv'
  <2> SUFFICES ASSUME NEW t \in Tabs, form[t] # NoForm
               PROVE  /\ form[t].desk \notin {"signUp", "offer", "request"}
                      /\ Was(form[t].row, form[t].version, form[t].seen)'
                      /\ form[t].seen \in ContentOf(KindOf(form[t].desk))
                      /\ Exists(form[t].row)' => row'[form[t].row].kind = KindOf(form[t].desk)
    BY DEF FormInv, Was, Exists
  <2>1. /\ form[t].desk \notin {"signUp", "offer", "request"}
        /\ Was(form[t].row, form[t].version, form[t].seen)
        /\ form[t].seen \in ContentOf(KindOf(form[t].desk))
        /\ Exists(form[t].row) => row[form[t].row].kind = KindOf(form[t].desk)
    BY DEF IInv, FormInv
  <2>2. form[t].row \in Rows /\ form[t].version \in Versions
    BY <1>0, FormFacts
  <2>3. /\ Was(form[t].row, form[t].version, form[t].seen)'
        /\ Exists(form[t].row)' =>
             Exists(form[t].row) /\ row'[form[t].row].kind = row[form[t].row].kind
    BY <1>3, <2>1, <2>2
  <2> QED
    BY <2>1, <2>3
<1>5. CreateInv'
  <2> SUFFICES ASSUME NEW f \in Threads, request'[f] # NoRequest,
                      request'[f].command = "create"
               PROVE  /\ row'[request'[f].row] = NoRow
                      /\ \A e \in Threads \ {f} :
                           request'[e] # NoRequest => request'[e].row # request'[f].row
    BY DEF CreateInv
  <2>1. f # u /\ request'[f] = request[f]
    BY <1>1
  <2>2. /\ row[request[f].row] = NoRow
        /\ \A e \in Threads \ {f} :
             request[e] # NoRequest => request[e].row # request[f].row
    BY <2>1 DEF IInv, CreateInv
  <2>3. row'[request[f].row] = row[request[f].row]
    <3>1. request[f].row # i /\ request[f].row \in Rows
      BY <1>0, <2>1, <2>2, RequestFacts
    <3> QED
      BY <1>0, <3>1 DEF TypeOK, Changes
  <2> QED
    BY <1>1, <2>1, <2>2, <2>3
<1>6. UpdateInv'
  <2> SUFFICES ASSUME NEW e \in Threads, request'[e] # NoRequest,
                      request'[e].command # "create"
               PROVE  Honest(e)'
    BY DEF UpdateInv
  <2>1. e # u /\ request'[e] = request[e]
    BY <1>1
  <2>2. Honest(e)
    BY <2>1 DEF IInv, UpdateInv
  <2>3. request[e].row \in Rows /\ request[e].version \in Versions
    BY <1>0, <2>1, RequestFacts
  <2>4. /\ Was(request[e].row, request[e].version, request[e].base)'
        /\ Exists(request[e].row)' =>
             Exists(request[e].row) /\ row'[request[e].row].kind = row[request[e].row].kind
    BY <1>3, <2>2, <2>3 DEF Honest
  <2> QED
    BY <2>1, <2>2, <2>4 DEF Honest, Was, Exists
<1>7. ContentInv'
  BY <1>1 DEF IInv, ContentInv
<1> QED
  BY <1>2, <1>4, <1>5, <1>6, <1>7 DEF IInv

LEMMA SaveStep ==
  ASSUME IInv, NEW u \in Threads, Save(u)
  PROVE  IInv'
<1> DEFINE i == request[u].row
           k == KindOf(request[u].desk)
           c == request[u].content
<1>1. /\ request[u] # NoRequest
      /\ request' = [request EXCEPT ![u] = NoRequest]
      /\ UNCHANGED <<form, now>>
  BY DEF Save, SaveCreate, SaveNothing, SaveUpdate, SaveDelete, Saving
<1>2. k \in Kinds /\ c \in ContentOf(k) /\ request[u].version \in Versions
  BY <1>1, DeskKinds, RequestFacts DEF IInv, ContentInv
<1> SUFFICES \E x : Changes(i, x) \/ UNCHANGED row
  BY <1>1, RequestLeaves
<1>3. CASE SaveCreate(u)
  <2> DEFINE x == [kind |-> k, version |-> 0, content |-> c]
  <2>1. x \in Row
    BY <1>2, RowType, BoundsAssumption DEF Versions
  <2>2. row[i] = NoRow
    BY <1>1, <1>3 DEF SaveCreate, Saving, IInv, CreateInv
  <2>3. row' = [row EXCEPT ![i] = x]
    BY <1>3 DEF SaveCreate
  <2> QED
    BY <2>1, <2>2, <2>3 DEF Changes
<1>4. CASE SaveNothing(u)
  BY <1>4 DEF SaveNothing
<1>5. CASE SaveUpdate(u)
  <2> DEFINE v == request[u].version + 1
             x == [kind |-> k, version |-> v, content |-> c]
  <2>1. v \in Versions
    BY <1>2, <1>5, BoundsAssumption DEF SaveUpdate, Versions
  <2>2. x \in Row
    BY <1>2, <2>1, RowType
  <2>3. Exists(i) /\ row[i].version = request[u].version
    BY <1>5 DEF SaveUpdate, Current
  <2>4. row[i].kind = k
    BY <1>1, <1>5, <2>3 DEF SaveUpdate, Saving, IInv, UpdateInv, Honest
  <2>5. x.version > row[i].version
    BY <1>2, <2>3, BoundsAssumption DEF Versions
  <2>6. row' = [row EXCEPT ![i] = x]
    BY <1>5 DEF SaveUpdate
  <2> QED
    BY <2>2, <2>3, <2>4, <2>5, <2>6 DEF Changes
<1>6. CASE SaveDelete(u)
  BY <1>6 DEF SaveDelete, Current, Changes
<1> QED
  BY <1>3, <1>4, <1>5, <1>6 DEF Save

LEMMA AbortStep ==
  ASSUME IInv, NEW u \in Threads, Abort(u)
  PROVE  IInv'
<1>1. request[u] # NoRequest /\ UNCHANGED row
      /\ request' = [request EXCEPT ![u] = NoRequest] /\ UNCHANGED <<form, now>>
  BY DEF Abort
<1> QED
  BY <1>1, RequestLeaves

-----------------------------------------------------------------------------
(* Every action keeps the invariant. *)

LEMMA ShowStep ==
  ASSUME IInv, NEW t \in Tabs, NEW d \in Desks, NEW i \in Rows, Show(t, d, i)
  PROVE  IInv'
<1> DEFINE f == [desk |-> d, row |-> i, version |-> row[i].version,
                 seen |-> row[i].content]
<1>1. /\ Exists(i) /\ row[i].kind = KindOf(d)
      /\ d \notin {"signUp", "offer", "request"}
      /\ UNCHANGED <<row, request, now>>
      /\ form' = [form EXCEPT ![t] = f]
  BY DEF Show
<1>2. /\ row[i].version \in Versions /\ row[i].content \in Content
      /\ row[i].content \in ContentOf(KindOf(d))
  BY <1>1, RowFacts DEF IInv
<1>3. f \in Form
  BY <1>2 DEF Form
<1>4. TypeOK'
  BY <1>1, <1>3 DEF IInv, TypeOK
<1>5. FormInv'
  <2>1. Was(i, row[i].version, row[i].content)
    BY <1>1, <1>2, BoundsAssumption DEF Was, Exists, Versions
  <2>2. /\ f.desk = d /\ f.row = i
        /\ f.version = row[i].version /\ f.seen = row[i].content
    OBVIOUS
  <2>3. form'[t] = f /\ \A u \in Tabs : u # t => form'[u] = form[u]
    BY <1>1 DEF IInv, TypeOK
  <2> HIDE DEF f
  <2> QED
    BY <1>1, <1>2, <2>1, <2>2, <2>3 DEF IInv, FormInv, Was, Exists
<1>6. CreateInv' /\ UpdateInv' /\ ContentInv'
  BY <1>1 DEF IInv, CreateInv, UpdateInv, Honest, Was, Exists, ContentInv
<1> QED
  BY <1>4, <1>5, <1>6 DEF IInv

LEMMA TickStep ==
  ASSUME IInv, Tick
  PROVE  IInv'
<1>1. TypeOK'
  BY BoundsAssumption DEF IInv, TypeOK, Tick, Times
<1>2. FormInv' /\ CreateInv' /\ UpdateInv' /\ ContentInv'
  BY DEF IInv, FormInv, CreateInv, UpdateInv, Honest, Was, Exists, ContentInv, Tick
<1> QED
  BY <1>1, <1>2 DEF IInv

LEMMA CreateStep ==
  ASSUME IInv, NEW i \in Rows, Create(i)
  PROVE  IInv'
<1>1. now \in Times
  BY DEF IInv, TypeOK
<1>2. CASE CreateAnnouncement(i)
  <2>1. PICK x \in Texts : PostCreate("announcement", i, [text |-> x, moment |-> now])
    BY <1>2 DEF CreateAnnouncement
  <2> QED
    BY <1>1, <2>1, PostCreateStep, ContentShapes DEF Desks, Kinds, AccountDesks, KindOf
<1>3. CASE CreateChallenge(i)
  <2>1. PICK c \in Challenge : PostCreate("challenge", i, c)
    BY <1>3 DEF CreateChallenge
  <2>2. c \in ContentOf("challenge")
    BY <2>1, ContentShapes DEF Challenge
  <2> QED
    BY <2>1, <2>2, PostCreateStep DEF Desks, Kinds, AccountDesks, KindOf
<1>4. ASSUME NEW d \in Profiles \cup {"companyRecord", "investorRecord"},
             CreateText(d, i)
      PROVE  IInv'
  <2>1. PICK x \in Texts : PostCreate(d, i, [text |-> x])
    BY <1>4 DEF CreateText
  <2>2. d \in Desks /\ KindOf(d) = d
    BY DEF Desks, Kinds, AccountDesks, KindOf, Profiles
  <2> QED
    BY <2>1, <2>2, PostCreateStep, ContentShapes
<1>5. CASE SignUp(i)
  <2>1. PICK x \in Texts : PostCreate("signUp", i, [text |-> x, enabled |-> TRUE])
    BY <1>5 DEF SignUp
  <2> QED
    BY <2>1, PostCreateStep, ContentShapes DEF Desks, AccountDesks, KindOf
<1>6. CASE CreateOffer(i)
  <2>1. PICK x \in Tickers, e \in Times :
          PostCreate("offer", i, [ticker |-> x, deadline |-> e])
    BY <1>6 DEF CreateOffer
  <2> QED
    BY <2>1, PostCreateStep, ContentShapes DEF Desks, Kinds, AccountDesks, KindOf
<1>7. CASE CreateRequest(i)
  <2>1. PICK x \in Tickers, e \in Times :
          PostCreate("request", i, [ticker |-> x, deadline |-> e])
    BY <1>7 DEF CreateRequest
  <2> QED
    BY <2>1, PostCreateStep, ContentShapes DEF Desks, Kinds, AccountDesks, KindOf
<1> QED
  BY <1>2, <1>3, <1>4, <1>5, <1>6, <1>7
  DEF Create, CreateCompanyRecord, CreateInvestorRecord, CreateWorker, CreateEmployer,
      CreateConsumer, CreateProvider, Profiles

(* The row of a form that is posted is of the kind of the desk. *)
LEMMA PostedContent ==
  ASSUME IInv, NEW t \in Tabs, NEW d \in Desks, Posting(t, d)
  PROVE  /\ Posted(t).content \in ContentOf(KindOf(d))
         /\ form[t].seen \in ContentOf(KindOf(d))
<1>1. /\ form[t] # NoForm /\ form[t].desk = d /\ Exists(form[t].row)
  BY DEF Posting
<1>2. /\ form[t].row \in Rows
      /\ row[form[t].row].kind = KindOf(d)
      /\ form[t].seen \in ContentOf(KindOf(d))
  BY <1>1, FormFacts DEF IInv, FormInv
<1> QED
  BY <1>1, <1>2, RowFacts DEF IInv, Posted

LEMMA PostUpdateStep ==
  ASSUME IInv, NEW t \in Tabs, NEW d \in Desks, Posting(t, d),
         NEW c \in ContentOf(KindOf(d)), PostUpdate(t, d, c),
         d = "ownAccount" => c.enabled = Posted(t).content.enabled
  PROVE  IInv'
BY PostStep DEF PostUpdate

LEMMA UpdateStep ==
  ASSUME IInv, NEW t \in Tabs, Update(t)
  PROVE  IInv'
<1>1. now \in Times
  BY DEF IInv, TypeOK
<1>2. CASE UpdateAnnouncement(t)
  <2>1. PICK x \in Texts : PostUpdate(t, "announcement", [text |-> x, moment |-> now])
    BY <1>2 DEF UpdateAnnouncement
  <2>2. Posting(t, "announcement")
    BY <1>2 DEF UpdateAnnouncement
  <2> QED
    BY <1>1, <2>1, <2>2, PostUpdateStep, ContentShapes DEF Desks, Kinds, AccountDesks, KindOf
<1>3. CASE UpdateChallenge(t)
  <2>1. PICK c \in Challenge : PostUpdate(t, "challenge", c)
    BY <1>3 DEF UpdateChallenge
  <2>2. c \in ContentOf("challenge") /\ Posting(t, "challenge")
    BY <1>3, <2>1, ContentShapes DEF Challenge, UpdateChallenge
  <2> QED
    BY <2>1, <2>2, PostUpdateStep DEF Desks, Kinds, AccountDesks, KindOf
<1>4. ASSUME NEW d \in Profiles \cup {"companyRecord", "investorRecord"},
             UpdateText(t, d)
      PROVE  IInv'
  <2>1. PICK x \in Texts : PostUpdate(t, d, [text |-> x])
    BY <1>4 DEF UpdateText
  <2>2. d \in Desks /\ KindOf(d) = d /\ d # "ownAccount"
    BY DEF Desks, Kinds, AccountDesks, KindOf, Profiles
  <2>3. Posting(t, d)
    BY <1>4 DEF UpdateText
  <2> QED
    BY <2>1, <2>2, <2>3, PostUpdateStep, ContentShapes
<1>5. CASE UpdateConfiguration(t)
  <2>1. PICK x \in Texts : Post(t, "configuration", "update", [text |-> x])
    BY <1>5 DEF UpdateConfiguration
  <2>2. /\ Posting(t, "configuration") /\ "configuration" \in Desks
        /\ [text |-> x] \in ContentOf(KindOf("configuration"))
    BY <1>5, ContentShapes
    DEF UpdateConfiguration, Desks, Kinds, AccountDesks, KindOf
  <2> QED
    BY <2>1, <2>2, PostStep
<1>6. CASE UpdateAnyAccount(t)
  <2>1. PICK e \in BOOLEAN :
          PostUpdate(t, "anyAccount", [text |-> form[t].seen.text, enabled |-> e])
    BY <1>6 DEF UpdateAnyAccount
  <2>2. /\ Posting(t, "anyAccount") /\ "anyAccount" \in Desks
        /\ KindOf("anyAccount") = "userAccount"
    BY <1>6 DEF UpdateAnyAccount, Desks, AccountDesks, KindOf
  <2>3. form[t].seen \in [text : Texts, enabled : BOOLEAN]
    BY <2>2, PostedContent, ContentShapes
  <2> QED
    BY <2>1, <2>2, <2>3, PostUpdateStep, ContentShapes
<1>7. CASE UpdateOwnAccount(t)
  <2>1. PICK x \in Texts :
          PostUpdate(t, "ownAccount", [text |-> x, enabled |-> Posted(t).content.enabled])
    BY <1>7 DEF UpdateOwnAccount
  <2>2. /\ Posting(t, "ownAccount") /\ "ownAccount" \in Desks
        /\ KindOf("ownAccount") = "userAccount"
    BY <1>7 DEF UpdateOwnAccount, Desks, AccountDesks, KindOf
  <2>3. Posted(t).content \in [text : Texts, enabled : BOOLEAN]
    BY <2>2, PostedContent, ContentShapes
  <2> DEFINE c == [text |-> x, enabled |-> Posted(t).content.enabled]
  <2>4. c \in ContentOf(KindOf("ownAccount")) /\ c.enabled = Posted(t).content.enabled
    BY <2>2, <2>3, ContentShapes
  <2> QED
    BY <2>1, <2>2, <2>4, PostUpdateStep
<1> QED
  BY <1>2, <1>3, <1>4, <1>5, <1>6, <1>7
  DEF Update, UpdateCompanyRecord, UpdateInvestorRecord, UpdateWorker, UpdateEmployer,
      UpdateConsumer, UpdateProvider, Profiles

LEMMA DeleteStep ==
  ASSUME IInv, NEW t \in Tabs, Delete(t)
  PROVE  IInv'
<1>1. PICK d \in Desks : PostDelete(t, d)
  BY DEF Delete, DeleteAnnouncement, DeleteChallenge, DeleteCompanyRecord,
         DeleteInvestorRecord, Desks, Kinds
<1>2. Posting(t, d) /\ Post(t, d, "delete", Posted(t).content)
  BY <1>1 DEF PostDelete
<1> QED
  BY <1>2, PostedContent, PostStep

LEMMA InitInvariant == Init => IInv
<1> SUFFICES ASSUME Init PROVE IInv
  OBVIOUS
<1>1. PICK start \in [Populated -> Start \cup {NoRow}] :
        row = [i \in Rows |-> IF i \in Populated THEN start[i] ELSE NoRow]
  BY DEF Init
<1>2. TypeOK
  BY <1>1, BoundsAssumption DEF Init, TypeOK, Start, Times
<1> QED
  BY <1>2 DEF Init, IInv, FormInv, CreateInv, UpdateInv, ContentInv

LEMMA NextInvariant == IInv /\ [Next]_vars => IInv'
<1> SUFFICES ASSUME IInv, [Next]_vars PROVE IInv'
  OBVIOUS
<1>1. CASE UNCHANGED vars
  BY <1>1 DEF IInv, TypeOK, FormInv, CreateInv, UpdateInv, Honest, Was, Exists,
              ContentInv, vars
<1>2. CASE Next
  BY <1>2, CreateStep, ShowStep, UpdateStep, DeleteStep, SaveStep, AbortStep, TickStep
  DEF Next
<1> QED
  BY <1>1, <1>2

(* The invariant holds in every reachable state. *)
THEOREM Invariance == Spec => []IInv
BY InitInvariant, NextInvariant, PTL DEF Spec

-----------------------------------------------------------------------------
(* What the checks and the invariant amount to. *)

(* Rows, forms and requests have their types, whatever the bounds. *)
THEOREM TypeCorrect == Spec => []TypeOK
BY Invariance, PTL DEF IInv

(* A form whose version is that of its row shows what the row holds. *)
THEOREM VersionsTell == Spec => []VersionTellsContent
<1>1. IInv => VersionTellsContent
  BY DEF IInv, FormInv, Was, VersionTellsContent
<1> QED
  BY <1>1, Invariance, PTL

(* Only the saving half of a post writes a row. *)
LEMMA OnlySavesWrite ==
  ASSUME Next, row' # row
  PROVE  \E u \in Threads : Save(u)
<1>1. ASSUME NEW i \in Rows, Create(i) PROVE UNCHANGED row
  BY <1>1 DEF Create, CreateAnnouncement, CreateChallenge, CreateCompanyRecord,
              CreateInvestorRecord, CreateWorker, CreateEmployer, CreateConsumer,
              CreateProvider, CreateText, SignUp, CreateOffer, CreateRequest, PostCreate, Enter
<1>2. ASSUME NEW t \in Tabs, Update(t) PROVE UNCHANGED row
  BY <1>2 DEF Update, UpdateAnnouncement, UpdateChallenge, UpdateCompanyRecord,
              UpdateInvestorRecord, UpdateWorker, UpdateEmployer, UpdateConsumer,
              UpdateProvider, UpdateText, UpdateConfiguration, UpdateAnyAccount,
              UpdateOwnAccount, PostUpdate, Post, Enter
<1>3. ASSUME NEW t \in Tabs, Delete(t) PROVE UNCHANGED row
  BY <1>3 DEF Delete, DeleteAnnouncement, DeleteChallenge, DeleteCompanyRecord,
              DeleteInvestorRecord, PostDelete, Post, Enter
<1> QED
  BY <1>1, <1>2, <1>3 DEF Next, Show, Abort, Tick

(* What a row holds changes by an update whose base is what it held. *)
LEMMA WhoWrites ==
  ASSUME IInv, Next, NEW i \in Rows, Exists(i), row'[i] # row[i], row'[i] # Gone
  PROVE  \E u \in Threads :
           /\ request[u] # NoRequest /\ request'[u] = NoRequest
           /\ request[u].command = "update" /\ request[u].row = i
           /\ row[i].kind = KindOf(request[u].desk) /\ request[u].desk # "signUp"
           /\ request[u].base = row[i].content
           /\ row'[i].content = request[u].content
<1>1. PICK u \in Threads : Save(u)
  BY OnlySavesWrite
<1>2. request[u] # NoRequest /\ request' = [request EXCEPT ![u] = NoRequest]
  BY <1>1 DEF Save, SaveCreate, SaveNothing, SaveUpdate, SaveDelete, Saving
<1>3. request'[u] = NoRequest
  BY <1>2 DEF IInv, TypeOK
<1>4. CASE SaveCreate(u)
  <2>1. row[request[u].row] = NoRow
    BY <1>2, <1>4 DEF SaveCreate, Saving, IInv, CreateInv
  <2>2. request[u].row # i
    BY <2>1 DEF Exists
  <2> QED
    BY <1>4, <2>2 DEF SaveCreate, IInv, TypeOK
<1>5. CASE SaveNothing(u)
  BY <1>5 DEF SaveNothing
<1>6. CASE SaveDelete(u)
  <2>1. request[u].row = i => row'[i] = Gone
    BY <1>6 DEF SaveDelete, IInv, TypeOK
  <2> QED
    BY <1>6, <2>1 DEF SaveDelete, IInv, TypeOK
<1>7. CASE SaveUpdate(u)
  <2>1. request[u].row = i
    BY <1>7 DEF SaveUpdate, IInv, TypeOK
  <2>2. request[u].command = "update" /\ row[i].version = request[u].version
    BY <1>7, <2>1 DEF SaveUpdate, Saving, Current
  <2>3. Honest(u)
    BY <1>2, <2>2 DEF IInv, UpdateInv
  <2>4. request[u].base = row[i].content /\ row[i].kind = KindOf(request[u].desk) /\ request[u].desk # "signUp"
    BY <2>1, <2>2, <2>3 DEF Honest, Was
  <2>5. row'[i].content = request[u].content
    BY <1>7, <2>1 DEF SaveUpdate, IInv, TypeOK
  <2> QED
    BY <1>2, <1>3, <2>1, <2>2, <2>4, <2>5
<1> QED
  BY <1>1, <1>4, <1>5, <1>6, <1>7 DEF Save

(* Nobody overwrites what his form has not shown. *)
THEOREM NoneLost == Spec => NoLostUpdate
<1> DEFINE Seen(i) ==
      Exists(i) /\ row[i].kind # "configuration" /\ row'[i] \notin {row[i], Gone}
        => \E u \in Threads : /\ request[u] # NoRequest
                              /\ request'[u] = NoRequest
                              /\ request[u].row = i
                              /\ request[u].seen = row[i].content
<1>1. ASSUME IInv, Next PROVE \A i \in Rows : Seen(i)
  <2> SUFFICES ASSUME NEW i \in Rows, Exists(i), row[i].kind # "configuration",
                      row'[i] # row[i], row'[i] # Gone
               PROVE  \E u \in Threads : /\ request[u] # NoRequest
                                         /\ request'[u] = NoRequest
                                         /\ request[u].row = i
                                         /\ request[u].seen = row[i].content
    OBVIOUS
  <2>1. PICK u \in Threads :
          /\ request[u] # NoRequest /\ request'[u] = NoRequest
          /\ request[u].command = "update" /\ request[u].row = i
          /\ row[i].kind = KindOf(request[u].desk)
          /\ request[u].base = row[i].content
    BY <1>1, WhoWrites
  <2>2. request[u].desk # "configuration"
    BY <2>1 DEF KindOf, AccountDesks
  <2>3. request[u].seen = request[u].base
    BY <1>1, <2>1, <2>2 DEF IInv, UpdateInv, Honest
  <2> QED
    BY <2>1, <2>3
<1>2. ASSUME UNCHANGED vars PROVE \A i \in Rows : Seen(i)
  BY <1>2 DEF vars
<1>3. IInv /\ [Next]_vars => [\A i \in Rows : Seen(i)]_vars
  BY <1>1
<1> QED
  BY <1>3, Invariance, PTL DEF Spec, NoLostUpdate

(* The status of an account is changed by the administrator only. *)
THEOREM StatusKept == Spec => StatusIsTheAdministrators
<1> DEFINE Kept(i) ==
      Exists(i) /\ row[i].kind = "userAccount" /\ row'[i] # Gone
          /\ row'[i].content.enabled # row[i].content.enabled
        => \E u \in Threads : /\ request[u] # NoRequest
                              /\ request'[u] = NoRequest
                              /\ request[u].desk = "anyAccount"
                              /\ request[u].row = i
<1>1. ASSUME IInv, Next PROVE \A i \in Rows : Kept(i)
  <2> SUFFICES ASSUME NEW i \in Rows, Exists(i), row[i].kind = "userAccount",
                      row'[i] # Gone, row'[i].content.enabled # row[i].content.enabled
               PROVE  \E u \in Threads : /\ request[u] # NoRequest
                                         /\ request'[u] = NoRequest
                                         /\ request[u].desk = "anyAccount"
                                         /\ request[u].row = i
    OBVIOUS
  <2>1. PICK u \in Threads :
          /\ request[u] # NoRequest /\ request'[u] = NoRequest
          /\ request[u].command = "update" /\ request[u].row = i
          /\ row[i].kind = KindOf(request[u].desk) /\ request[u].desk # "signUp"
          /\ request[u].base = row[i].content
          /\ row'[i].content = request[u].content
    BY <1>1, WhoWrites
  <2>2. request[u].desk \in AccountDesks
    BY <1>1, <2>1, RequestFacts DEF IInv, KindOf, Desks
  <2>3. request[u].desk # "ownAccount"
    BY <1>1, <2>1 DEF IInv, UpdateInv, Honest
  <2> QED
    BY <2>1, <2>2, <2>3 DEF AccountDesks
<1>3. IInv /\ [Next]_vars => [\A i \in Rows : Kept(i)]_vars
  BY <1>1
<1> QED
  BY <1>3, Invariance, PTL DEF Spec, StatusIsTheAdministrators

(* Updates leave the tickers alone, and the database lets a new one in only *)
(* when it is free.                                                         *)
LEMMA SaveKeepsTickers ==
  ASSUME IInv, TickersAreUnique, NEW u \in Threads, Save(u)
  PROVE  TickersAreUnique'
<1> DEFINE k == request[u].row
           d == request[u].desk
<1>1. request[u] # NoRequest /\ k \in Rows
  BY RequestFacts DEF Save, SaveCreate, SaveNothing, SaveUpdate, SaveDelete, Saving, IInv
<1>2. \A i \in Rows \ {k} : row'[i] = row[i]
  BY <1>1 DEF Save, SaveCreate, SaveNothing, SaveUpdate, SaveDelete, IInv, TypeOK
<1>3. CASE SaveCreate(u)
  <2>1. row'[k].kind = KindOf(d) /\ row'[k].content = request[u].content
    BY <1>1, <1>3 DEF SaveCreate, IInv, TypeOK
  <2>2. KindOf(d) \in {"offer", "request"} => d = KindOf(d)
    BY DEF KindOf
  <2>3. ASSUME NEW i \in Rows \ {k}, Exists(i), row[i].kind = KindOf(d),
               KindOf(d) \in {"offer", "request"}
        PROVE  row[i].content.ticker # request[u].content.ticker
    BY <1>3, <2>2, <2>3 DEF SaveCreate, TickerTaken
  <2> QED
    BY <1>2, <2>1, <2>3 DEF TickersAreUnique, Exists
<1>4. CASE SaveNothing(u)
  BY <1>4 DEF SaveNothing, TickersAreUnique, Exists
<1>5. CASE SaveUpdate(u)
  <2>1. d \notin {"signUp", "offer", "request"}
    BY <1>1, <1>5 DEF SaveUpdate, Saving, IInv, UpdateInv, Honest
  <2>2. row'[k].kind = KindOf(d)
    BY <1>1, <1>5 DEF SaveUpdate, IInv, TypeOK
  <2>3. KindOf(d) \notin {"offer", "request"}
    BY <2>1 DEF KindOf
  <2> QED
    BY <1>2, <2>2, <2>3 DEF TickersAreUnique, Exists
<1>6. CASE SaveDelete(u)
  <2>1. row'[k] = Gone
    BY <1>1, <1>6 DEF SaveDelete, IInv, TypeOK
  <2> QED
    BY <1>2, <2>1 DEF TickersAreUnique, Exists
<1> QED
  BY <1>3, <1>4, <1>5, <1>6 DEF Save

(* No two offers and no two requests have one ticker. *)
THEOREM Unique == Spec => []TickersAreUnique
<1>1. Init => TickersAreUnique
  BY DEF Init
<1>2. IInv /\ TickersAreUnique /\ [Next]_vars => TickersAreUnique'
  <2> SUFFICES ASSUME IInv, TickersAreUnique, [Next]_vars PROVE TickersAreUnique'
    OBVIOUS
  <2>1. CASE UNCHANGED row
    BY <2>1 DEF TickersAreUnique, Exists
  <2>2. CASE row' # row
    BY <2>2, OnlySavesWrite, SaveKeepsTickers DEF vars
  <2> QED
    BY <2>1, <2>2
<1> QED
  BY <1>1, <1>2, Invariance, PTL DEF Spec

-----------------------------------------------------------------------------
(* An offer on its way has the ticker of one that is there, and as that one *)
(* stays, the unique column refuses the other.                              *)

OfferInv ==
  \A u \in Threads : request[u] # NoRequest /\ request[u].desk = "offer" =>
    /\ request[u].command = "create"
    /\ TickerTaken("offer", request[u].content.ticker)

(* Only CreateOffer brings a request to the desk of the offers. *)
LEMMA OffersEnter ==
  ASSUME IInv, Next, NEW u \in Threads, request'[u] \notin {NoRequest, request[u]},
         request'[u].desk = "offer"
  PROVE  \E i \in Rows : CreateOffer(i)
<1>1. ASSUME NEW r, Enter(r)
      PROVE  r.desk = "offer"
  <2>1. PICK v \in Threads : request' = [request EXCEPT ![v] = r]
    BY <1>1 DEF Enter
  <2>2. request'[u] = r
    BY <2>1 DEF IInv, TypeOK
  <2> QED
    BY <2>2
<1>2. ASSUME NEW d, NEW i \in Rows, NEW c, PostCreate(d, i, c)
      PROVE  d = "offer"
  BY <1>1, <1>2 DEF PostCreate
<1>3. ASSUME NEW t \in Tabs, NEW d, NEW command, NEW c, Post(t, d, command, c)
      PROVE  d = "offer"
  BY <1>1, <1>3 DEF Post
<1>4. ASSUME NEW i \in Rows, Create(i) PROVE CreateOffer(i)
  <2>1. ASSUME NEW d \in Desks \ {"offer"}, NEW c PROVE ~PostCreate(d, i, c)
    BY <1>2
  <2> QED
    BY <1>4, <2>1
    DEF Create, CreateAnnouncement, CreateChallenge, CreateCompanyRecord,
        CreateInvestorRecord, CreateWorker, CreateEmployer, CreateConsumer,
        CreateProvider, CreateText, SignUp, CreateRequest, Desks, Kinds, Profiles,
        AccountDesks
<1>5. ASSUME NEW t \in Tabs PROVE ~Update(t) /\ ~Delete(t)
  <2>1. ASSUME NEW d \in Desks \ {"offer"}, NEW command, NEW c
        PROVE  ~Post(t, d, command, c)
    BY <1>3
  <2> QED
    BY <2>1
    DEF Update, UpdateAnnouncement, UpdateChallenge, UpdateCompanyRecord,
        UpdateInvestorRecord, UpdateWorker, UpdateEmployer, UpdateConsumer,
        UpdateProvider, UpdateText, UpdateConfiguration, UpdateAnyAccount,
        UpdateOwnAccount, PostUpdate, Delete, DeleteAnnouncement, DeleteChallenge,
        DeleteCompanyRecord, DeleteInvestorRecord, PostDelete, Desks, Kinds, Profiles,
        AccountDesks
<1>6. ASSUME NEW v \in Threads, request' = [request EXCEPT ![v] = NoRequest] PROVE FALSE
  BY <1>6 DEF IInv, TypeOK
<1> QED
  BY <1>4, <1>5, <1>6
  DEF Next, Show, Save, SaveCreate, SaveNothing, SaveUpdate, SaveDelete, Saving, Abort, Tick

LEMMA OffersStay ==
  ASSUME IInv, OfferInv, Next, NEW i \in Rows, IsOffer(i) \/ IsOffer(i)'
  PROVE  row'[i] = row[i]
<1> SUFFICES ASSUME row'[i] # row[i] PROVE FALSE
  OBVIOUS
<1>1. PICK u \in Threads : Save(u)
  BY OnlySavesWrite
<1> DEFINE d == request[u].desk
<1>2. request[u] # NoRequest /\ (KindOf(d) = "offer" => d = "offer")
  BY <1>1 DEF Save, SaveCreate, SaveNothing, SaveUpdate, SaveDelete, Saving, KindOf
<1>3. CASE SaveCreate(u)
  <2>1. d # "offer"
    <3> SUFFICES ASSUME d = "offer" PROVE FALSE
      OBVIOUS
    <3>1. TickerTaken("offer", request[u].content.ticker)
      BY <1>2 DEF OfferInv
    <3> QED
      BY <1>3, <3>1 DEF SaveCreate
  <2>2. request[u].row = i /\ row'[i].kind = KindOf(d)
    BY <1>3 DEF SaveCreate, IInv, TypeOK
  <2>3. row[i] = NoRow
    BY <1>2, <1>3, <2>2 DEF SaveCreate, Saving, IInv, CreateInv
  <2> QED
    BY <1>2, <1>3, <2>1, <2>2, <2>3 DEF IsOffer, Exists, SaveCreate, Saving, KindOf
<1>4. CASE SaveNothing(u)
  BY <1>4 DEF SaveNothing
<1>5. CASE SaveUpdate(u) \/ SaveDelete(u)
  <2>1. request[u] # NoRequest /\ request[u].command # "create" /\ Exists(request[u].row)
    BY <1>5 DEF SaveUpdate, SaveDelete, Saving, Current
  <2>2. d # "offer" /\ row[request[u].row].kind = KindOf(d)
    BY <2>1 DEF IInv, UpdateInv, Honest
  <2>3. request[u].row = i /\ (row'[i] = Gone \/ row'[i].kind = KindOf(d))
    BY <1>5 DEF SaveUpdate, SaveDelete, IInv, TypeOK
  <2> QED
    BY <2>2, <2>3 DEF IsOffer, Exists, KindOf
<1> QED
  BY <1>1, <1>3, <1>4, <1>5 DEF Save

LEMMA OfferNext == IInv /\ OfferInv /\ [Next]_vars => OfferInv'
<1> SUFFICES ASSUME IInv, OfferInv, [Next]_vars,
                    NEW u \in Threads, request'[u] # NoRequest, request'[u].desk = "offer"
             PROVE  /\ request'[u].command = "create"
                    /\ \E i \in Rows : /\ IsOffer(i)'
                                      /\ row'[i].content.ticker
                                           = request'[u].content.ticker
  BY DEF OfferInv, TickerTaken, IsOffer, Exists
<1>1. ASSUME NEW x, TickerTaken("offer", x)
      PROVE  \E i \in Rows : IsOffer(i)' /\ row'[i].content.ticker = x
  <2>1. PICK i \in Rows : IsOffer(i) /\ row[i].content.ticker = x
    BY <1>1 DEF TickerTaken, IsOffer
  <2>2. row'[i] = row[i]
    BY <2>1, OffersStay DEF vars
  <2> QED
    BY <2>1, <2>2 DEF IsOffer, Exists
<1>2. CASE request'[u] = request[u]
  <2>1. /\ request[u].command = "create"
        /\ TickerTaken("offer", request[u].content.ticker)
    BY <1>2 DEF OfferInv
  <2> QED
    BY <1>1, <1>2, <2>1
<1>3. CASE request'[u] # request[u]
  <2>1. PICK i \in Rows : CreateOffer(i)
    BY <1>3, OffersEnter DEF vars
  <2>2. PICK x \in Tickers, e \in Times :
          /\ TickerTaken("offer", x)
          /\ PostCreate("offer", i, [ticker |-> x, deadline |-> e])
    BY <2>1 DEF CreateOffer
  <2>3. PICK v \in Threads :
          request' = [request EXCEPT ![v] =
            [desk |-> "offer", command |-> "create", row |-> i, version |-> 0,
             base |-> [ticker |-> x, deadline |-> e], seen |-> [ticker |-> x, deadline |-> e],
             content |-> [ticker |-> x, deadline |-> e]]]
    BY <2>2 DEF PostCreate, Enter
  <2>4. request'[u].command = "create" /\ request'[u].content.ticker = x
    BY <1>3, <2>3 DEF IInv, TypeOK
  <2> QED
    BY <1>1, <2>2, <2>4
<1> QED
  BY <1>2, <1>3

(* The offers that the database was populated with are all there ever are. *)
THEOREM NoOfferIsCreated == Spec => OffersNeverChange
<1>1. Init => OfferInv
  BY DEF Init, OfferInv, Desks, Kinds, AccountDesks
<1>2. IInv /\ OfferInv /\ [Next]_vars =>
        [\A i \in Rows : IsOffer(i) \/ IsOffer(i)' => row'[i] = row[i]]_vars
  BY OffersStay
<1> QED
  BY <1>1, <1>2, OfferNext, Invariance, PTL DEF Spec, OffersNeverChange

-----------------------------------------------------------------------------
(* The days between two instants, counted whole or by their midnights. *)

LEMMA DayBounds ==
  ASSUME NEW x \in Int
  PROVE  Day(x) \in Int /\ PerDay * Day(x) <= x /\ x < PerDay * Day(x) + PerDay
BY BoundsAssumption DEF Day

LEMMA DaysInOrder ==
  ASSUME NEW p \in Int, NEW q \in Int, PerDay * p < PerDay * q + PerDay
  PROVE  p <= q
BY BoundsAssumption

(* There are at least as many midnights between two instants as whole days. *)
LEMMA WholeDays ==
  ASSUME NEW x \in Int, NEW y \in Int
  PROVE  Day(x - y) <= Day(x) - Day(y)
<1> DEFINE p == Day(x)
           q == Day(y)
           r == Day(x - y)
           pp == PerDay * p
           pq == PerDay * q
           pr == PerDay * r
<1>1. p \in Int /\ pp <= x /\ x < pp + PerDay
  BY DayBounds
<1>2. q \in Int /\ pq <= y /\ y < pq + PerDay
  BY DayBounds
<1>3. r \in Int /\ pr <= x - y
  BY DayBounds
<1> HIDE DEF p, q, r
<1>4. /\ pp \in Int /\ pq \in Int /\ pr \in Int
      /\ PerDay * (p - q) = pp - pq
  BY <1>1, <1>2, <1>3, BoundsAssumption
<1> HIDE DEF pp, pq, pr
<1>5. pr < (pp - pq) + PerDay
  BY <1>1, <1>2, <1>3, <1>4, BoundsAssumption
<1>6. r <= p - q
  BY <1>1, <1>2, <1>3, <1>4, <1>5, DaysInOrder DEF pr
<1> QED
  BY <1>6 DEF p, q, r

(* Whatever is listed can be opened, for any length of a day and any window. *)
THEOREM ListsOpen == Spec => []ListedIsShown
<1>1. ASSUME TypeOK, NEW i \in Listed PROVE Shown(i)
  <2>1. i \in Rows /\ Exists(i)
    BY <1>1 DEF Listed, ListedAnnouncements, ListedByDeadline,
           ListedChallenges, ListedOffers, ListedRequests
  <2>2. CASE row[i].kind = "announcement"
    <3> DEFINE m == row[i].content.moment
    <3>1. row[i].content \in [text : Texts, moment : Times]
      BY <1>1, <2>1, <2>2, RowFacts, ContentShapes
    <3>2. m \in Int /\ now \in Int
      BY <1>1, <3>1, BoundsAssumption DEF TypeOK, Times
    <3>3. Day(now) - Day(m) < Window
      BY <1>1, <2>2 DEF Listed, ListedAnnouncements, ListedByDeadline,
           ListedChallenges, ListedOffers, ListedRequests
    <3> HIDE DEF m
    <3>4. Day(now - m) < Window
      <4>1. Day(now - m) <= Day(now) - Day(m)
        BY <3>2, WholeDays
      <4>2. Day(now) \in Int /\ Day(m) \in Int /\ Day(now - m) \in Int
        BY <3>2, DayBounds
      <4> DEFINE x == Day(now)
                 y == Day(m)
                 z == Day(now - m)
      <4> HIDE DEF x, y, z
      <4>3. x \in Int /\ y \in Int /\ z \in Int /\ z <= x - y /\ x - y < Window
        BY <3>3, <4>1, <4>2 DEF x, y, z
      <4>4. z < Window
        BY <4>3, BoundsAssumption
      <4> QED
        BY <4>4 DEF z
    <3> USE DEF m
    <3> QED
      BY <2>1, <2>2, <3>4 DEF Shown, ShownAnnouncement
  <2>3. CASE row[i].kind \in {"challenge", "offer", "request"}
    <3>1. row[i].content.deadline > now
      BY <1>1, <2>3 DEF Listed, ListedAnnouncements, ListedByDeadline,
           ListedChallenges, ListedOffers, ListedRequests
    <3> QED
      BY <2>1, <2>3, <3>1 DEF Shown
  <2>4. row[i].kind \in {"announcement", "challenge", "offer", "request"}
    BY <1>1 DEF Listed, ListedAnnouncements, ListedByDeadline,
           ListedChallenges, ListedOffers, ListedRequests
  <2> QED
    BY <2>2, <2>3, <2>4
<1>2. TypeOK => ListedIsShown
  BY <1>1 DEF ListedIsShown
<1> QED
  BY <1>2, TypeCorrect, PTL

-----------------------------------------------------------------------------
(* The forms implement AtomicForms.  What a desk is going to save was      *)
(* sound for what it had read, and is so when it is saved: then the row    *)
(* still is what was read, and only time has passed.                       *)

Sound(d, r) ==
  /\ r.command = "create" => /\ d \notin {"anyAccount", "ownAccount", "configuration"}
                             /\ d = "signUp" => r.content.enabled = TRUE
  /\ r.command # "delete" => /\ d = "announcement" => r.content.moment <= now
                             /\ d = "challenge" => Accepted(r.content.reward)
  /\ r.command = "update" =>
       /\ d = "announcement" => r.base.moment <= r.content.moment
       /\ d = "anyAccount" => r.content.text = r.base.text
  /\ r.command = "delete" =>
       d \in {"announcement", "challenge", "companyRecord", "investorRecord"}

SoundInv ==
  /\ \A i \in Rows :
       Exists(i) /\ row[i].kind = "announcement" => row[i].content.moment <= now
  /\ \A u \in Threads : request[u] # NoRequest => Sound(request[u].desk, request[u])

LEMMA SoundEnters ==
  ASSUME TypeOK, SoundInv, NEW r, Enter(r), Sound(r.desk, r)
  PROVE  SoundInv'
<1>0. PICK u \in Threads : request' = [request EXCEPT ![u] = r] /\ UNCHANGED <<row, now>>
  BY DEF Enter
<1>1. \A i \in Rows : Exists(i)' /\ row'[i].kind = "announcement" =>
        row'[i].content.moment <= now'
  BY <1>0 DEF SoundInv, Exists
<1>2. ASSUME NEW e \in Threads, request'[e] # NoRequest
      PROVE  Sound(request[e].desk, request[e])'
  <2>1. CASE e = u
    <3>1. request'[e] = r
      BY <1>0, <2>1 DEF TypeOK
    <3> QED
      BY <1>0, <2>1, <3>1 DEF Sound
  <2>2. CASE e # u
    <3>1. request'[e] = request[e] /\ Sound(request[e].desk, request[e])
      BY <1>0, <1>2, <2>2 DEF TypeOK, SoundInv
    <3> QED
      BY <1>0, <3>1 DEF Sound
  <2> QED
    BY <2>1, <2>2
<1> QED
  BY <1>1, <1>2 DEF SoundInv, Exists

LEMMA CreateSound ==
  ASSUME TypeOK, SoundInv, NEW d \in Desks, NEW i \in Rows, NEW c, PostCreate(d, i, c),
         d \notin {"anyAccount", "ownAccount", "configuration"},
         d = "signUp" => c.enabled = TRUE,
         d = "announcement" => c.moment <= now,
         d = "challenge" => Accepted(c.reward)
  PROVE  SoundInv'
<1> DEFINE r == [desk |-> d, command |-> "create", row |-> i, version |-> 0,
                 base |-> c, seen |-> c, content |-> c]
<1>1. Enter(r)
  BY DEF PostCreate
<1>2. r.desk = d /\ r.command = "create" /\ r.content = c
  OBVIOUS
<1> HIDE DEF r
<1>3. Sound(r.desk, r)
  BY <1>2 DEF Sound
<1> QED
  BY <1>1, <1>3, SoundEnters

LEMMA PostSound ==
  ASSUME TypeOK, SoundInv, NEW t \in Tabs, NEW d \in Desks,
         NEW command \in {"update", "delete"}, NEW c, Post(t, d, command, c),
         command = "update" =>
           /\ d = "announcement" => c.moment <= now /\ Posted(t).content.moment <= c.moment
           /\ d = "challenge" => Accepted(c.reward)
           /\ d = "anyAccount" => c.text = Posted(t).content.text,
         command = "delete" =>
           d \in {"announcement", "challenge", "companyRecord", "investorRecord"}
  PROVE  SoundInv'
<1> DEFINE r == [desk |-> d, command |-> command, row |-> form[t].row, version |-> Posted(t).version,
                 base |-> Posted(t).content, seen |-> form[t].seen, content |-> c]
<1>1. Enter(r)
  BY DEF Post
<1>2. r.desk = d /\ r.command = command /\ r.base = Posted(t).content /\ r.content = c
  OBVIOUS
<1> HIDE DEF r
<1>3. Sound(r.desk, r)
  BY <1>2 DEF Sound
<1> QED
  BY <1>1, <1>3, SoundEnters

LEMMA CreateKeepsSound ==
  ASSUME IInv, SoundInv, NEW i \in Rows, Create(i)
  PROVE  SoundInv'
<1>1. TypeOK /\ now \in Int
  BY BoundsAssumption DEF IInv, TypeOK, Times
<1>2. CASE CreateAnnouncement(i)
  <2>1. PICK x \in Texts, m \in Int :
          m <= now /\ PostCreate("announcement", i, [text |-> x, moment |-> m])
    BY <1>1, <1>2 DEF CreateAnnouncement
  <2>2. "announcement" \in Desks /\ [text |-> x, moment |-> m].moment <= now
    BY <2>1 DEF Desks, Kinds
  <2> QED
    BY <1>1, <2>1, <2>2, CreateSound
<1>3. CASE CreateChallenge(i)
  <2>1. PICK c \in Challenge : PostCreate("challenge", i, c)
    BY <1>3 DEF CreateChallenge
  <2>2. Accepted(c.reward)
    BY <2>1 DEF Challenge
  <2> QED
    BY <1>1, <2>1, <2>2, CreateSound DEF Desks, Kinds
<1>4. ASSUME NEW d \in Profiles \cup {"companyRecord", "investorRecord"},
             CreateText(d, i)
      PROVE  SoundInv'
  <2>1. PICK x \in Texts : PostCreate(d, i, [text |-> x])
    BY <1>4 DEF CreateText
  <2>2. d \in Desks
    BY DEF Desks, Kinds, Profiles
  <2>3. d \notin {"anyAccount", "ownAccount", "configuration", "signUp",
                 "announcement", "challenge"}
    BY DEF Profiles
  <2> QED
    BY <1>1, <2>1, <2>2, <2>3, CreateSound
<1>5. CASE SignUp(i)
  <2>1. PICK x \in Texts : PostCreate("signUp", i, [text |-> x, enabled |-> TRUE])
    BY <1>5 DEF SignUp
  <2>2. "signUp" \in Desks /\ [text |-> x, enabled |-> TRUE].enabled = TRUE
    BY DEF Desks, AccountDesks
  <2> QED
    BY <1>1, <2>1, <2>2, CreateSound
<1>6. CASE CreateOffer(i) \/ CreateRequest(i)
  <2>1. PICK d \in {"offer", "request"}, x \in Tickers, e \in Times :
          PostCreate(d, i, [ticker |-> x, deadline |-> e])
    BY <1>6 DEF CreateOffer, CreateRequest
  <2> QED
    BY <1>1, <2>1, CreateSound DEF Desks, Kinds
<1> QED
  BY <1>2, <1>3, <1>4, <1>5, <1>6
  DEF Create, CreateCompanyRecord, CreateInvestorRecord, CreateWorker, CreateEmployer,
      CreateConsumer, CreateProvider, Profiles

LEMMA UpdateKeepsSound ==
  ASSUME IInv, SoundInv, NEW t \in Tabs, Update(t)
  PROVE  SoundInv'
<1>1. TypeOK /\ now \in Int
  BY BoundsAssumption DEF IInv, TypeOK, Times
<1>2. CASE UpdateAnnouncement(t)
  <2>1. PICK x \in Texts : PostUpdate(t, "announcement", [text |-> x, moment |-> now])
    BY <1>2 DEF UpdateAnnouncement
  <2>2. /\ form[t] # NoForm /\ form[t].desk = "announcement" /\ Exists(form[t].row)
    BY <1>2 DEF UpdateAnnouncement, Posting
  <2>3. form[t].row \in Rows /\ row[form[t].row].kind = KindOf("announcement")
    BY <1>1, <2>2, FormFacts DEF IInv, FormInv
  <2>4. Posted(t).content.moment <= now
    BY <2>2, <2>3 DEF SoundInv, Posted, KindOf, AccountDesks
  <2>5. "announcement" \in Desks /\ Post(t, "announcement", "update", [text |-> x, moment |-> now])
    BY <2>1 DEF PostUpdate, Desks, Kinds
  <2> QED
    BY <1>1, <2>4, <2>5, PostSound
<1>3. CASE UpdateChallenge(t)
  <2>1. PICK c \in Challenge : Post(t, "challenge", "update", c)
    BY <1>3 DEF UpdateChallenge, PostUpdate
  <2>2. Accepted(c.reward) /\ "challenge" \in Desks
    BY <2>1 DEF Challenge, Desks, Kinds
  <2> QED
    BY <1>1, <2>1, <2>2, PostSound
<1>4. ASSUME NEW d \in Profiles \cup {"companyRecord", "investorRecord", "configuration"},
             NEW c, Post(t, d, "update", c)
      PROVE  SoundInv'
  <2>1. d \in Desks /\ d \notin {"announcement", "challenge", "anyAccount"}
    BY DEF Desks, Kinds, Profiles
  <2> QED
    BY <1>1, <1>4, <2>1, PostSound
<1>5. CASE UpdateAnyAccount(t)
  <2>1. PICK e \in BOOLEAN :
          PostUpdate(t, "anyAccount", [text |-> form[t].seen.text, enabled |-> e])
    BY <1>5 DEF UpdateAnyAccount
  <2>2. /\ form[t] # NoForm /\ Exists(form[t].row)
        /\ form[t].version = Posted(t).version
        /\ Post(t, "anyAccount", "update", [text |-> form[t].seen.text, enabled |-> e])
    BY <1>5, <2>1 DEF UpdateAnyAccount, Posting, PostUpdate
  <2>3. form[t].seen = Posted(t).content
    BY <2>2 DEF IInv, FormInv, Was, Posted
  <2> QED
    BY <1>1, <2>2, <2>3, PostSound DEF Desks, AccountDesks
<1>6. CASE UpdateOwnAccount(t)
  <2>1. \E c : Post(t, "ownAccount", "update", c)
    BY <1>6 DEF UpdateOwnAccount, PostUpdate
  <2> QED
    BY <1>1, <2>1, PostSound DEF Desks, AccountDesks
<1>7. ASSUME NEW d \in Profiles \cup {"companyRecord", "investorRecord"}, UpdateText(t, d)
      PROVE  SoundInv'
  BY <1>4, <1>7 DEF UpdateText, PostUpdate
<1>8. CASE UpdateConfiguration(t)
  BY <1>4, <1>8 DEF UpdateConfiguration
<1> QED
  BY <1>2, <1>3, <1>5, <1>6, <1>7, <1>8
  DEF Update, UpdateCompanyRecord, UpdateInvestorRecord, UpdateWorker, UpdateEmployer,
      UpdateConsumer, UpdateProvider, Profiles

LEMMA DeleteKeepsSound ==
  ASSUME IInv, SoundInv, NEW t \in Tabs, Delete(t)
  PROVE  SoundInv'
<1>1. PICK d \in {"announcement", "challenge", "companyRecord", "investorRecord"} :
        Post(t, d, "delete", Posted(t).content)
  BY DEF Delete, DeleteAnnouncement, DeleteChallenge, DeleteCompanyRecord,
         DeleteInvestorRecord, PostDelete
<1> QED
  BY <1>1, PostSound DEF Desks, Kinds, IInv

LEMMA LeaveKeepsSound ==
  ASSUME IInv, SoundInv, NEW u \in Threads, Save(u) \/ Abort(u)
  PROVE  SoundInv'
<1> DEFINE i == request[u].row
           d == request[u].desk
<1>1. /\ request[u] # NoRequest /\ i \in Rows
      /\ request' = [request EXCEPT ![u] = NoRequest] /\ UNCHANGED now
  BY RequestFacts
  DEF Save, SaveCreate, SaveNothing, SaveUpdate, SaveDelete, Saving, Abort, IInv
<1>2. ASSUME NEW e \in Threads, request'[e] # NoRequest
      PROVE  Sound(request[e].desk, request[e])'
  <2>1. request'[e] = request[e] /\ Sound(request[e].desk, request[e])
    BY <1>1, <1>2 DEF IInv, TypeOK, SoundInv
  <2> QED
    BY <1>1, <2>1 DEF Sound
<1>3. \A j \in Rows \ {i} : row'[j] = row[j]
  BY <1>1 DEF Save, SaveCreate, SaveNothing, SaveUpdate, SaveDelete, Abort, IInv, TypeOK
<1>4. \/ row'[i] = row[i] \/ row'[i] = Gone
      \/ /\ row'[i].kind = KindOf(d) /\ row'[i].content = request[u].content
         /\ request[u].command # "delete"
  BY <1>1 DEF Save, SaveCreate, SaveNothing, SaveUpdate, SaveDelete, Saving, Abort, IInv, TypeOK
<1>5. KindOf(d) = "announcement" => d = "announcement"
  BY DEF KindOf
<1>6. Sound(d, request[u])
  BY <1>1 DEF SoundInv
<1>7. ASSUME NEW j \in Rows, Exists(j)', row'[j].kind = "announcement"
      PROVE  row'[j].content.moment <= now
  BY <1>3, <1>4, <1>5, <1>6, <1>7 DEF SoundInv, Sound, Exists
<1> QED
  BY <1>1, <1>2, <1>7 DEF SoundInv, Exists

LEMMA SoundNext ==
  ASSUME IInv, SoundInv, [Next]_vars
  PROVE  SoundInv'
<1>1. CASE UNCHANGED <<row, request, now>>
  BY <1>1 DEF SoundInv, Sound, Exists
<1>2. CASE Tick
  <2>1. /\ now \in Int /\ now' = now + 1 /\ UNCHANGED <<row, request>>
        /\ \A i \in Rows : Exists(i) /\ row[i].kind = "announcement" =>
             row[i].content.moment \in Int
        /\ \A u \in Threads : request[u] # NoRequest /\ request[u].desk = "announcement" =>
             request[u].content.moment \in Int
    <3>1. now \in Int /\ now' = now + 1 /\ UNCHANGED <<row, request>>
      BY <1>2, BoundsAssumption DEF Tick, IInv, TypeOK, Times
    <3>2. ASSUME NEW i \in Rows, Exists(i), row[i].kind = "announcement"
          PROVE  row[i].content.moment \in Int
      <4>1. row[i].content \in [text : Texts, moment : Times]
        BY <3>2, RowFacts, ContentShapes DEF IInv
      <4>2. row[i].content.moment \in Times
        BY <4>1
      <4> QED
        BY <4>2, BoundsAssumption DEF Times
    <3>3. ASSUME NEW u \in Threads, request[u] # NoRequest, request[u].desk = "announcement"
          PROVE  request[u].content.moment \in Int
      <4>1. request[u].content \in ContentOf("announcement")
        BY <3>3 DEF IInv, ContentInv, KindOf, AccountDesks
      <4>2. request[u].content \in [text : Texts, moment : Times]
        BY <4>1, ContentShapes
      <4>3. request[u].content.moment \in Times
        BY <4>2
      <4> QED
        BY <4>3, BoundsAssumption DEF Times
    <3> QED
      BY <3>1, <3>2, <3>3
  <2> QED
    BY <2>1 DEF SoundInv, Sound, Exists
<1> QED
  BY <1>1, <1>2, CreateKeepsSound, UpdateKeepsSound, DeleteKeepsSound, LeaveKeepsSound
  DEF Next, Show, vars

LEMMA SoundInit == Init => SoundInv
<1> SUFFICES ASSUME Init PROVE SoundInv
  OBVIOUS
<1>1. ASSUME NEW i \in Rows, Exists(i) PROVE row[i] \in Start
  BY <1>1 DEF Init, Exists
<1>2. ASSUME NEW i \in Rows, Exists(i), row[i].kind = "announcement"
      PROVE  row[i].content.moment <= now
  BY <1>1, <1>2 DEF Init, Start
<1> QED
  BY <1>2 DEF Init, SoundInv

-----------------------------------------------------------------------------
(* Every step is a step of AtomicForms or changes no row and no clock.     *)

LEMMA FormsInit == Init => Forms!Init
<1> SUFFICES ASSUME Init PROVE Forms!Init
  OBVIOUS
<1>1. row \in [Rows -> Start \cup {NoRow}]
  BY DEF Init
<1>2. \A i, j \in Rows, k \in {"offer", "request"} :
        i # j /\ Forms!Is(i, k) /\ Forms!Is(j, k) => row[i].content.ticker # row[j].content.ticker
  BY DEF Init, TickersAreUnique, Forms!Is, Exists
<1> QED
  BY <1>1, <1>2 DEF Init, Forms!Init

(* A row that is saved. *)
LEMMA SaveCreateForms ==
  ASSUME IInv, SoundInv, NEW u \in Threads, SaveCreate(u)
  PROVE  Forms!Next
<1> PICK i \in Rows, c \in Content, d \in Desks :
        d = request[u].desk /\ i = request[u].row /\ c = request[u].content
  BY RequestFacts DEF SaveCreate, Saving, IInv
<1>1. /\ request[u] # NoRequest /\ request[u].command = "create"
      /\ row' = [row EXCEPT ![i] = [kind |-> KindOf(d), version |-> 0, content |-> c]]
      /\ UNCHANGED now
      /\ d \in {"offer", "request"} => ~TickerTaken(d, c.ticker)
  BY DEF SaveCreate, Saving
<1>2. row[i] = NoRow /\ c \in ContentOf(KindOf(d)) /\ Sound(d, request[u])
  BY <1>1 DEF IInv, CreateInv, ContentInv, SoundInv
<1>3. Forms!Create(i, KindOf(d), c)
  BY <1>1, <1>2 DEF Forms!Create, Forms!Put
<1>4. CASE d = "announcement"
  <2>1. KindOf(d) = "announcement" /\ c \in [text : Texts, moment : Times]
    BY <1>2, <1>4, ContentShapes DEF KindOf, AccountDesks
  <2>2. /\ c = [text |-> c.text, moment |-> c.moment]
        /\ c.text \in Texts /\ c.moment \in 0..now
    BY <1>1, <1>2, <1>4, <2>1, BoundsAssumption DEF Sound, Times, IInv, TypeOK
  <2>3. PICK x \in Texts, m \in 0..now : c = [text |-> x, moment |-> m]
    BY <2>2
  <2>4. Forms!CreateAnnouncement(i)
    BY <1>3, <2>1, <2>3 DEF Forms!CreateAnnouncement
  <2> QED
    BY <2>4 DEF Forms!Next
<1>5. CASE d = "challenge"
  <2>1. KindOf(d) = "challenge" /\ c \in [reward : Rewards, deadline : Times]
    BY <1>2, <1>5, ContentShapes DEF KindOf, AccountDesks
  <2>2. Accepted(c.reward)
    BY <1>1, <1>2, <1>5 DEF Sound
  <2>3. PICK r \in {q \in Rewards : Accepted(q)}, e \in Times : c = [reward |-> r, deadline |-> e]
    BY <2>1, <2>2
  <2>4. Forms!CreateChallenge(i)
    BY <1>3, <2>1, <2>3 DEF Forms!CreateChallenge
  <2> QED
    BY <2>4 DEF Forms!Next
<1>6. CASE d = "signUp"
  <2>1. KindOf(d) = "userAccount" /\ c \in [text : Texts, enabled : BOOLEAN]
    BY <1>2, <1>6, ContentShapes DEF KindOf, AccountDesks
  <2>2. c.enabled = TRUE
    BY <1>1, <1>2, <1>6 DEF Sound
  <2>3. PICK x \in Texts : c = [text |-> x, enabled |-> TRUE]
    BY <2>1, <2>2
  <2>4. Forms!SignUp(i)
    BY <1>3, <2>1, <2>3 DEF Forms!SignUp
  <2> QED
    BY <2>4 DEF Forms!Next
<1>7. CASE d \in {"offer", "request"}
  <2>1. KindOf(d) = d /\ c \in [ticker : Tickers, deadline : Times]
    BY <1>2, <1>7, ContentShapes DEF KindOf, AccountDesks
  <2>2. PICK x \in Tickers, e \in Times : c = [ticker |-> x, deadline |-> e]
    BY <2>1
  <2>3. ~Forms!Used(d, x)
    BY <1>1, <1>7, <2>2 DEF TickerTaken, Exists, Forms!Used, Forms!Is
  <2>4. Forms!CreateListing(i)
    BY <1>3, <1>7, <2>1, <2>2, <2>3 DEF Forms!CreateListing
  <2> QED
    BY <2>4 DEF Forms!Next
<1>8. CASE d \in Forms!Plain
  <2>1. KindOf(d) = d /\ c \in [text : Texts]
    BY <1>2, <1>8, ContentShapes DEF Forms!Plain, KindOf, AccountDesks, Profiles
  <2>2. PICK x \in Texts : c = [text |-> x]
    BY <2>1
  <2>3. Forms!CreatePlain(i)
    BY <1>3, <1>8, <2>1, <2>2 DEF Forms!CreatePlain
  <2> QED
    BY <2>3 DEF Forms!Next
<1>9. d \in Forms!Plain \cup {"announcement", "challenge", "signUp", "offer", "request"}
  BY <1>1, <1>2 DEF Sound, Forms!Plain, Desks, AccountDesks, Kinds, Profiles
<1> QED
  BY <1>4, <1>5, <1>6, <1>7, <1>8, <1>9

(* A row that is changed still holds what was read. *)
LEMMA SaveUpdateForms ==
  ASSUME IInv, SoundInv, NEW u \in Threads, SaveUpdate(u)
  PROVE  Forms!Next
<1> PICK i \in Rows, c \in Content, d \in Desks :
        d = request[u].desk /\ i = request[u].row /\ c = request[u].content
  BY RequestFacts DEF SaveUpdate, Saving, IInv
<1>1. /\ request[u] # NoRequest /\ request[u].command = "update"
      /\ Exists(i) /\ row[i].version = request[u].version
      /\ row' = [row EXCEPT ![i] =
                  [kind |-> KindOf(d), version |-> request[u].version + 1, content |-> c]]
      /\ UNCHANGED now
      /\ d = "announcement" \/ c # request[u].base
  BY DEF SaveUpdate, Saving, Current
<1>2. c \in ContentOf(KindOf(d)) /\ Sound(d, request[u]) /\ Honest(u)
  BY <1>1 DEF IInv, UpdateInv, ContentInv, SoundInv
<1>3. PICK b \in Content : b = row[i].content /\ b = request[u].base
  BY <1>1, <1>2, RequestFacts DEF Honest, Was, IInv
<1>4. row[i].kind = KindOf(d) /\ b \in ContentOf(KindOf(d))
  BY <1>1, <1>2, <1>3, RowFacts DEF Honest, IInv
<1>5. Forms!Edit(i, KindOf(d), c)
  BY <1>1, <1>4 DEF Forms!Edit, Forms!Is, Forms!Put, Exists
<1>6. CASE d = "announcement"
  <2>1. /\ KindOf(d) = "announcement"
        /\ c \in [text : Texts, moment : Times] /\ b \in [text : Texts, moment : Times]
    BY <1>2, <1>4, <1>6, ContentShapes DEF KindOf, AccountDesks
  <2>2. c.moment \in 0..now /\ b.moment <= c.moment
    BY <1>1, <1>2, <1>3, <1>6, <2>1, BoundsAssumption DEF Sound, Times, IInv, TypeOK
  <2>3. PICK x \in Texts, m \in 0..now : c = [text |-> x, moment |-> m] /\ b.moment <= m
    BY <2>1, <2>2
  <2>4. Forms!EditAnnouncement(i)
    BY <1>3, <1>5, <2>1, <2>3 DEF Forms!EditAnnouncement
  <2> QED
    BY <2>4 DEF Forms!Next
<1>7. CASE d = "challenge"
  <2>1. KindOf(d) = "challenge" /\ c \in [reward : Rewards, deadline : Times]
    BY <1>2, <1>7, ContentShapes DEF KindOf, AccountDesks
  <2>2. Accepted(c.reward)
    BY <1>1, <1>2, <1>7 DEF Sound
  <2>3. PICK r \in {q \in Rewards : Accepted(q)}, e \in Times : c = [reward |-> r, deadline |-> e]
    BY <2>1, <2>2
  <2>4. Forms!EditChallenge(i)
    BY <1>1, <1>3, <1>5, <1>7, <2>1, <2>3 DEF Forms!EditChallenge
  <2> QED
    BY <2>4 DEF Forms!Next
<1>8. CASE d \in {"anyAccount", "ownAccount"}
  <2>1. /\ KindOf(d) = "userAccount"
        /\ c \in [text : Texts, enabled : BOOLEAN] /\ b \in [text : Texts, enabled : BOOLEAN]
    BY <1>2, <1>4, <1>8, ContentShapes DEF KindOf, AccountDesks
  <2>2. c.text # b.text \/ c.enabled # b.enabled
    BY <1>1, <1>3, <1>8, <2>1
  <2>3. CASE d = "anyAccount"
    <3>1. c.text = b.text
      BY <1>1, <1>2, <1>3, <2>3 DEF Sound
    <3>2. c.enabled = ~b.enabled
      BY <2>1, <2>2, <3>1
    <3>3. c = [text |-> b.text, enabled |-> ~b.enabled]
      BY <2>1, <3>1, <3>2
    <3>4. Forms!EditStatus(i)
      BY <1>3, <1>5, <2>1, <3>3 DEF Forms!EditStatus
    <3> QED
      BY <3>4 DEF Forms!Next
  <2>4. CASE d = "ownAccount"
    <3>1. c.enabled = b.enabled
      BY <1>1, <1>2, <1>3, <2>4 DEF Honest
    <3>2. PICK x \in Texts : c = [text |-> x, enabled |-> b.enabled] /\ x # b.text
      BY <2>1, <2>2, <3>1
    <3>3. Forms!EditIdentity(i)
      BY <1>3, <1>5, <2>1, <3>2 DEF Forms!EditIdentity
    <3> QED
      BY <3>3 DEF Forms!Next
  <2> QED
    BY <1>8, <2>3, <2>4
<1>9. CASE d \in Forms!Plain \cup {"configuration"}
  <2>1. KindOf(d) = d /\ c \in [text : Texts] /\ b \in [text : Texts]
    BY <1>2, <1>4, <1>9, ContentShapes DEF Forms!Plain, KindOf, AccountDesks, Profiles
  <2>2. c # b
    BY <1>1, <1>3, <1>9 DEF Forms!Plain
  <2>3. PICK x \in Texts : c = [text |-> x] /\ x # b.text
    BY <2>1, <2>2
  <2>4. Forms!EditText(i)
    BY <1>3, <1>5, <1>9, <2>1, <2>3 DEF Forms!EditText
  <2> QED
    BY <2>4 DEF Forms!Next
<1>10. d \in Forms!Plain \cup {"announcement", "challenge", "anyAccount", "ownAccount",
                              "configuration"}
  BY <1>2 DEF Honest, Forms!Plain, Desks, AccountDesks, Kinds, Profiles
<1> QED
  BY <1>6, <1>7, <1>8, <1>9, <1>10

LEMMA SaveDeleteForms ==
  ASSUME IInv, SoundInv, NEW u \in Threads, SaveDelete(u)
  PROVE  Forms!Next
<1> PICK i \in Rows, d \in Desks :
        d = request[u].desk /\ i = request[u].row
  BY RequestFacts DEF SaveDelete, Saving, IInv
<1>1. /\ request[u] # NoRequest /\ request[u].command = "delete"
      /\ Exists(i) /\ row' = [row EXCEPT ![i] = Gone] /\ UNCHANGED now
  BY DEF SaveDelete, Saving, Current
<1>2. Sound(d, request[u]) /\ Honest(u)
  BY <1>1 DEF SoundInv, IInv, UpdateInv
<1>3. d \in Forms!Deletable /\ row[i].kind = KindOf(d) /\ KindOf(d) = d
  BY <1>1, <1>2 DEF Sound, Honest, Forms!Deletable, KindOf, AccountDesks
<1>4. Forms!Delete(i)
  BY <1>1, <1>3 DEF Forms!Delete, Forms!Is, Exists
<1> QED
  BY <1>4 DEF Forms!Next

LEMMA OnlyTicks ==
  ASSUME Next, now' # now
  PROVE  Tick
<1>1. ASSUME NEW i \in Rows, Create(i) PROVE UNCHANGED now
  BY <1>1 DEF Create, CreateAnnouncement, CreateChallenge, CreateCompanyRecord,
              CreateInvestorRecord, CreateWorker, CreateEmployer, CreateConsumer,
              CreateProvider, CreateText, SignUp, CreateOffer, CreateRequest, PostCreate, Enter
<1>2. ASSUME NEW t \in Tabs, Update(t) PROVE UNCHANGED now
  BY <1>2 DEF Update, UpdateAnnouncement, UpdateChallenge, UpdateCompanyRecord,
              UpdateInvestorRecord, UpdateWorker, UpdateEmployer, UpdateConsumer,
              UpdateProvider, UpdateText, UpdateConfiguration, UpdateAnyAccount,
              UpdateOwnAccount, PostUpdate, Post, Enter
<1>3. ASSUME NEW t \in Tabs, Delete(t) PROVE UNCHANGED now
  BY <1>3 DEF Delete, DeleteAnnouncement, DeleteChallenge, DeleteCompanyRecord,
              DeleteInvestorRecord, PostDelete, Post, Enter
<1>4. ASSUME NEW u \in Threads, Save(u) PROVE UNCHANGED now
  BY <1>4 DEF Save, SaveCreate, SaveNothing, SaveUpdate, SaveDelete, Saving
<1> QED
  BY <1>1, <1>2, <1>3, <1>4 DEF Next, Show, Abort

(* Rows change as if each post were one step, for any number of rows, tabs *)
(* and requests that read at a time, of one desk or of several.            *)
THEOREM PostsAreAtomic == Spec => ImplementsAtomicForms
<1>1. ASSUME IInv, SoundInv, [Next]_vars PROVE [Forms!Next]_(Forms!vars)
  <2>1. CASE UNCHANGED <<row, now>>
    BY <2>1 DEF Forms!vars
  <2>2. CASE Tick
    BY <2>2 DEF Tick, Forms!Tick, Forms!Next
  <2>3. CASE row' # row
    <3>1. PICK u \in Threads : Save(u)
      BY <1>1, <2>3, OnlySavesWrite DEF vars
    <3> QED
      BY <1>1, <2>3, <3>1, SaveCreateForms, SaveUpdateForms, SaveDeleteForms
      DEF Save, SaveNothing
  <2>4. CASE now' # now /\ row' = row
    BY <1>1, <2>2, <2>4, OnlyTicks DEF vars
  <2> QED
    BY <2>1, <2>3, <2>4
<1> QED
  BY <1>1, FormsInit, SoundInit, SoundNext, Invariance, PTL
  DEF Spec, ImplementsAtomicForms, Forms!Spec
=============================================================================
