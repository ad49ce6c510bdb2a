# A TLA+ model of Acme-Jobs

Acme-Jobs is a Spring Boot web application (Java 8, JPA/Hibernate, MySQL with
InnoDB's default isolation, REPEATABLE READ) in which employers publish jobs,
workers apply for them, auditors write records, consumers and providers post
offers and requests, and an administrator posts bulletins.  It has a small
framework (`src/main/java/acme/framework`) and a set of features, one service
class per command (`src/main/java/acme/features`).  There are no tests.

These modules model the parts of it in which several requests meet: the request
handler with its transactions, the job board, the sessions of an account, and the
forms in which everything else is edited; and two parts in which one actor takes
many steps: the walk of a reader through the pages, and the tool that populates
the database.  TLC checks them on small instances, TLAPS proves the safety
properties for every value of the constants.

## 1. The system

| Component | State | Operations | What makes it hard |
|---|---|---|---|
| Request handler: `AbstractController` | one controller object per role and entity, with a field `transactionStatus`; a persistence context per thread | `handleRequest`: start, dispatch, commit or rollback, hook, catch | the field is shared by the threads that serve the controller; failures at every statement, also inside the catch block |
| Framework services: `ServiceWrapper`, `CommandManager`, `Request`, `Errors`, `Model`, `Response` | per request | authorise, bind, validate, create/update/delete, onSuccess, onFailure | order of the calls; entities are detached after `findOne` |
| Job board: services of `employer/job`, `employer/duty`, `worker/application`, `employer/application` | jobs, descriptors, duties, applications | create, update, publish, delete a job; add a duty; apply; decide | checks on a snapshot, saved later; no unique column for (worker, job) |
| Session: `Principal`, `PrincipalHelper`, `AuthenticationService` | principal of a session: account, role map, active role | sign in, `setActiveRole`, `handleUpdate`, `handleSignOut` | shared by concurrent requests of a session |
| Accounts and roles | user accounts, one row per role | sign up, add and update a role, enable, disable | check-then-insert, several entities per request |
| Spam filter `esSpam`, copied into 24 services | spam words, threshold | decide whether a text is spam | ratio against percentage, `>=` |
| Offers and requests | independent records with a ticker | create | check-then-insert of the ticker |
| Bulletins of the administrator | announcements, challenges, company and investor records, configuration | create, update, delete | forms that are older than what they overwrite; money and deadline checks |
| Database population: `DatabasePopulator`, `DatabaseUtil` | list of entities, transaction | deferring entities until their references are persisted | bound on the attempts; swallowed commit errors |
| Pages: `acme.js`, the tags `list`, `menu-option`, `menu-suboption`, `form-return`, `form-submit`, the views | a return stack in the session storage of a tab | push, pop and clear it, ask for a page | must match over every walk; what a page offers, another service authorises |
| Threads, messages, audit records and all lists and shows | - | read only | what is listed must open |
| Tools, formatters, converters, patches, pages | - | input, output, layout | - |

Components meet in three ways.  A controller calls its services in the request's
thread and transaction.  Services of different controllers meet only in the
database.  Requests of one session meet in the `Principal` of that session.  The
pages that a service renders decide which service is asked next, and after a
successful post the browser decides where it goes on.  The population runs alone,
before the application is started.
`PROJECT.json` lists every component with its status, and the hazards at their
lines.

## 2. The modules

| Module | What it is |
|---|---|
| `RequestLifecycle` | `AbstractController.handleRequest`, one action per statement that touches shared state, and what the code uses of the transaction manager |
| `AtomicRequest` | what a request promises: all writes or none, a truthful answer, an answer at all |
| `RequestLifecycleProofs` | its theorems |
| `MCRequestLifecycle` | two threads, one or two controllers |
| `JobBoard` | the services of the job board, each a reading step and a saving step, any number of them at a time |
| `AtomicBoard` | the same services, each in one instant, and what overlapping requests may spoil |
| `JobBoardProofs` | its theorems |
| `MCJobBoard` | one job, two workers, two applications, three requests at a time |
| `AccountSessions` | sign up, the roles of an account, the Principals of its sessions and the requests that share them |
| `AtomicRoles` | sessions with one principal each, roles that are asked for and saved in one instant unless they are created twice at once |
| `AccountSessionsProofs` | its theorems |
| `MCAccountSessions` | two accounts, two sessions, two requests |
| `StaleForms` | the rows that forms create, edit and delete, the tabs that show them and the pages that list them |
| `AtomicForms` | the rows, where each post reads and saves in one instant |
| `StaleFormsProofs` | its theorems |
| `MCStaleForms` | one row in two tabs beside an offer, two requests at a time; or two rows |
| `Population` | populating the tables from files: attempts, deferrals, transactions and what fails |
| `PopulationProofs` | its theorems |
| `MCPopulation` | two files, of one and of three entities |
| `Navigation` | a reader in one tab: pages, links, the return stack and what the services accept |
| `NavigationProofs` | its theorems |
| `MCNavigation` | one job, one thread, one bulletin |

### RequestLifecycle

`pc[t]` is the statement that thread `t` executes, `ctl[t]` the controller it
runs; `svc[t]`, `errs[t]` are the local variable `service` (null or not) and
`response.hasErrors()`.  `status[c]` is the field `transactionStatus` of
controller `c`: null, or the owner of the transaction, whether `getTransaction`
began it or joined it, and whether it is completed.  `bound[t]` is the persistence
context that Spring keeps for the thread: none, active, or *stale*, the remains of
a transaction that another thread completed.  `pending[t]` and `durable[t]` count
the writes of the current request that wait for a commit and that are committed.

Each action is a stretch of the method between two accesses to shared state.
`commitTransaction` is three actions (`LoadRequest`, `FinishRequest`,
`ForgetRequest`, and the same at its other calls): the assertion and the load of the
field, the commit of the status that was loaded, and `transactionStatus = null`.
`taken[t]` is the loaded status while thread `t` is inside commit or rollback.  The
commit takes its time in the database, and before, between and after the three any
other request of the controller may start, read, write and commit.  Two threads may
even be inside commit with the same status; then the writes that it saves may be any
part, as both use one persistence context (`MayBeSaved`, `EndTransaction`).

Everything may fail: beginning a transaction, a write, validation, a commit (rolled
back, or committed with the acknowledgement lost), a rollback, a hook, and the same
statements inside the catch block, from where the exception goes to
`ControllerConfiguration` (label "escape").  Assertions are taken as enabled; a failing
one and the `IllegalTransactionStateException` or null pointer that follows without it
lead to the same catch block.

`AtomicRequest` is what one request promises; the model implements it with
`InFlight = 1`.  With more, little is left: every request is still answered, and a
transaction that was overtaken in the field before anybody had loaded it for
completion is lost for good (`OvertakenIsLost`).  One that is overtaken later, inside
its commit, is saved, and so is the one that overtakes it, although each has read
without the other: the field does not make the transactions of a controller take
turns.

The model is sequentially consistent: a thread sees the last value written to the
field.  The transaction manager is external: it is modelled from the five calls
that the controller makes and from the rule that a status that joined a
transaction does not complete it.

### JobBoard

`stage`, `load`, `duties`, `euros`, `open` and `application` are the database. The
descriptor of a job is one-to-one with it and is folded into it; its duties are kept as
their number and the sum of their percentages, which is all that any service reads of
them.  Percentages are whole parts of `Full`.  `request[t]` is the request that thread
`t` serves, with what it has read and what it is going to save; any number of threads
may serve the same controller, job or worker.

A request reads (`Create`, `Publish`, `AddDuty`, ...: authorise and validate) in one
step, because all its queries see the snapshot of its first query, and saves
(`SaveCreate`, `SavePublish`, `SaveDuty`, ...) in another, because theorem Atomicity of
RequestLifecycle says that its writes become visible together where its own thread
completes it (*OwnTransaction* below).  At the saving step only
what the database enforces is checked again: foreign keys (a duty needs its descriptor,
an application its job, a job that is referred to is not deleted).  `Abort` is every
other end of a request: spam, a duplicate reference, the old version in a form, a lock
timeout.  Requests that are denied write nothing and are left out, as are the ownership
of jobs and the texts. Inputs are what the forms post: a job form posts `finalMode` as
it is.  Edits of jobs and decisions meet a version (`outdated`: those whose row somebody
has changed since they read it); additions of duties and applications change no row and
meet none.

*What overlaps.*  Two requests that add duties to one job, or file an application of
one worker for one job, may both have read before either is saved.  The field
`transactionStatus` does not prevent it: the second may begin while the first is
inside its commit.  `crowded` and `doubled` are history variables that remember the
jobs and the pairs for which requests did overlap in this way, and no property hides
behind them otherwise: a job that is not crowded, or a pair that is not doubled, is
safe against everything else that is on its way.  A second application takes a
second form with another reference, because references are unique; a double click
on one form is refused by the column.

*OwnTransaction.*  The saving step is whole and is that of the request itself.  When
requests of a controller overlap before the first one has loaded the field, this is
not so: one is lost, or is committed by the other when it has done a part of its
writes.  That is the subject of RequestLifecycle (`lifecycle_answer`) and is not
repeated in JobBoard, AccountSessions and StaleForms: a lost request is an `Abort` or
`Fail` there, and torn ones are left out.

### AccountSessions

`registered` and `role` are the database: the accounts, and per role id the
account and the class of the role.  `heap` has the Principal objects in use,
`context[s]` the one in the security context of session `s` (no Principal: nobody
has signed in).  `pc[t]` and `req[t]` are the request that thread `t` serves: the
Principal that the constructor of `Request` found, the class of role it is about,
and the fresh Principal that `handleUpdate` has made.  All requests of a session
share its context, and its Principal object, until the context gets another one;
Spring Security is external and modelled from how `PrincipalHelper` uses it.

`Receive` is `hasRole` and `setActiveRole`, which writes the shared object; `Use`
is a service that asks for `getActiveRoleId`.  A service that creates or updates a
role goes through `Authorise` (the query for a role of the account), `Save` (the
insertion and the commit that follows), `HandleUpdate` (the account is looked up
again, in the fresh transaction of `onSuccess`) and `SetAuthentication` (the
context is replaced).  `SignUp` saves an account with its role Authenticated;
`SignIn` and `SignOut` change a context while requests are on their way; `Fail` is
every other end of a request.  The four kinds of role have the same pair of
services word for word, so `Authorise` stands for all of them with the class as a
parameter.

What is merged, and why.  `Receive` takes the Principal out of the context and
sets its active role in one step: if the context gets another Principal in
between, the request works on with the old object as it does here.  `SignIn` is one
step because nobody else knows the Principal it makes.  Nothing else is: two requests
that create a role of the same class for the same account may both pass `Authorise`
before either reaches `Save`, at one controller or from two sessions.  `doubled`
remembers the pairs of account and class that were saved while another request had
already found none.

`AtomicRoles` has no threads and no objects: `principal[s]` is who works in session `s`
with which roles, and it maps to the object that the context of the session refers to.
`Save` is its `Acquire`, which asks for the role and gives it in one instant, or gives
it a second time to a doubled pair; `SetAuthentication` is `Refresh`, the principal of
the same account with roles that this account has, perhaps not all of them.  Until it
signs out, a session works for one account, although the principal that replaces the one
in its context was made for a request that may be older.

### StaleForms

`row[i]` is what the database has under identifier `i`: a kind, a version and a
content, or nothing yet, or nothing any more.  One sequence gives the identifiers
of all tables.  `form[t]` is the form that tab `t` shows, with the identifier and
the version that `form.tag` keeps in hidden fields and with what the row held when
it was shown.  `request[u]` is the request that thread `u` serves, with its desk
(controller); a desk may serve several at a time.  `now` is the clock of server and
database.  Of a content only what a property
tells apart is kept: a text, the moment of an announcement, the deadline and the
rewards of a challenge, the status of an account, the ticker of an offer or
request.

As in JobBoard a post is a reading step (`CreateAnnouncement`, `UpdateChallenge`,
`DeleteCompanyRecord`, ..., one per service) and a saving step (`SaveCreate`,
`SaveUpdate`, `SaveDelete`).  What the steps take from the code:

* `findOne` is followed by `detachPersistenceContext`, so `bind` writes on an
  entity that Hibernate no longer tracks, and `save` merges it.  `Request.bind`
  never excludes `id` and `version`, so the merge compares the version of the form
  with the one just read and fails if they differ (`PostUpdate`).
* At the saving step the version is compared again, in the `WHERE` of the
  `UPDATE` (`Current`); an update without changes is not sent (`SaveNothing`).
  Under REPEATABLE READ the merge finds the row of its own snapshot, so it does
  not insert again what somebody has deleted meanwhile.
* A deletion binds nothing (`PostDelete`), and neither does the update of the
  configuration (`UpdateConfiguration`): they compare no version with the form.
* The two services that update an account belong to different controllers: the
  administrator posts the status, the owner posts the rest, and each saves the
  whole row.
* The tickers are looked for in the reading step and are unique columns in the
  saving one.

`Rows` in `Populated` may exist at the start, as sample data, with tickers that
differ, since the columns are unique then as well.  `ListedX` are the
queries of the lists, `Shown` is `authorise` of the services that show.

`AtomicForms` knows neither forms nor requests.  A row is created, edited and deleted
in one instant by steps that say what each post may change: a version counts the
edits, the identity and the status of an account are changed apart, the moment of an
announcement does not go back, rewards have passed the validation, a ticker is used
once.  Deadlines are free in it, for a post may take longer than its deadline is
ahead, and so is which texts are typed.

### Population

`needs`, `valid` and `declared` are what the files contain: which entities each one
must reference, which pass their validation and in which order a file declares
them.  They are inputs, chosen by `Init`.  `file`, `list`, `attempts`, `persisted`
and `position` are the local variables of `run`, `populate`, `persist` and
`tryPersist` (`entityList`, `attemptCounter`, `persistedCounter`, `result`);
`managed` and `active` are the transaction, `rows` what is committed, `charm` and
`lost` the files that were reported as persisted and those whose commit failed.

`Export`, `DropSchema` and `CreateSchema` come first, each a script in a transaction
of its own; every command of a script commits by itself in MySQL, so a script that
fails may have dropped tables (`old`).  A file is then validated, and persisted in
attempts: `PersistEntity` for each entity, `DeferEntity` for the first one that
fails, which goes to the end of the list while everything is rolled back, `Commit`
or `CommitFails` when all are persisted.  The catch block of `tryPersist` does not
ask why `persist` failed, and neither does `DeferEntity`: the entity may come too
early or the database may have failed.  `commitTransaction` swallows what a commit
throws.  `SaveEntityMap` is the `finally` of `populate` with its report.
`EntityManager.persist` is external (`Refused`): it refuses a mandatory reference to
an entity that was not persisted in the same transaction.  Optional references and
the identifiers in the entity map are left out.

### Navigation

A page is the path of its URL, its command and the item in its query; `db` is what
the pages depend on: the stage of every item (a draft, a draft whose duties add up
to 100 per cent, open, expired, deleted; a thread with or without messages) and the
jobs that the reader applied for.  `at` is the page on the screen, `seen` the database
when it was rendered, `state` whether it was shown, refused with the panic page, or
posted, which leaves the browser on `/master/referrer`.  `stack` is `return-stack` of
the session storage.

A click and the page it leads to are two steps, since `redirect` (`window.open` in
`_self`) only starts a navigation: until the page comes, the old one takes more
clicks.  `left` is the kind of the last click and `to` the page that was asked for
last; `Arrive` shows it.  `PushAndLeave` is the script of `list.tag` (`pushReturnUrl`,
`redirect`), as the first click on a row (`ClickRow`) or as another one before the page
has come (`ClickRowAgain`, counted by `again`): a double click pushes the listing
twice.  `Menu` is the script of the menu (`clearReturnUrl`, `redirect`), `Follow` a
button with method get or a link, `Return` the button of `form-return.tag` and
`Referrer` the script of `referrer.jsp` (both `redirect(popReturnUrl())`),
`PostSucceeds` and `PostFails` what `doPost` answers, which may be posted twice as
well; `ArriveAtReferrer` is the redirection that follows.  `OthersPost` and `Expire`
change the database meanwhile.

`strays` counts what leaves the walk that the pages lead through.  `Stray` is the Back
button, a bookmark or a typed address, `StrayToReferrer` the referrer page in the
history; pages are not cached, as Spring Security's default headers forbid it.  Late
clicks are strays as well (`StraysIf`): after a click on a row, the menu or Return,
when the stack has already moved, a link, a button that posts, or, after the menu or
Return, a row of the page that is being left.  These are no strays: another click on a
row or on Return, the menu at any time, a link that is clicked twice or is overtaken
by a row, and a form that is posted twice.

`Rows` are the queries of the listings, `Links` the conditions in the views, `Opens`
the `authorise` methods of the services.  The reader has every role and owns every
item, so what is refused is refused for the state of the item.  The bulletins of
the administrator have the same pages, and `administrator/announcement` stands for
all of them.  The anonymous pages, which are listings with shows as well, the
footer and the links that leave the site are left out.

## 3. What the runs check

| Run | Bounds | Shows |
|---|---|---|
| `lifecycle_exclusive` | 2 threads, 2 controllers, `InFlight = 1`, at most 2 writes | atomicity, truthful answers, no leaked transaction, hooks in fresh transactions, assertions hold, refinement of `AtomicRequest` with its liveness |
| `lifecycle_overlap` | 2 threads, 1 controller, `InFlight = 2`, 1 write | every request is answered; a transaction overtaken before anybody loaded it is lost |
| `lifecycle_answer` | as above | *violated*: the requested view means that the request was saved |
| `board` | 1 job, 2 workers, 2 applications, 3 threads, `Full = 2`, percentages -1, 1, 2 and 3, at most 2 duties | consistency of jobs, duties and applications where requests overlap freely; refinement of `AtomicBoard` |
| `board_salary` | as above | *violated*: published jobs have a positive salary in euros |
| `accounts_sessions` | 2 accounts, 2 sessions, 2 threads, 1 class of role beside Authenticated, `RoleIds = 1..3`, 4 Principals | one role of a class per account unless it was created twice at once, Principals agree with the roles, a session learns the role it has created; refinement of `AtomicRoles` |
| `accounts_role_id` | as above | *violated*: a service reads the id of the role that its controller serves |
| `forms` | 1 row beside an offer, 2 tabs, 2 threads, 2 texts, 3 rewards, 2 instants a day, `Window = 1`, `Horizon = 2`, `MaxVersion = 2` | no update is lost, the status of an account is the administrator's, what is listed can be opened; refinement of `AtomicForms` |
| `forms_ticker` | 2 rows, 1 tab, `Window = 1`, `Horizon = 2`, `MaxVersion = 1` | *violated*: an offer that is accepted has a ticker of its own |
| `population` | a file of 1 entity and one of 3, any order and any references within it, any of them invalid, `MaxFaults = 1` | files are committed whole and in order, reports are true, attempts advance, files that are almost sorted are persisted, the populator ends |
| `population_sort` | as above | *violated*: entities that are valid and whose references do not go round in a circle are persisted |
| `navigation` | 1 job, 1 thread, 1 bulletin, `MaxStack = 5`, `MaxStrays = 1`, `MaxAgain = 1` | the stack is the way to the reader, posts end at their listings, only four known pages refuse who was offered them |

Why the bounds suffice.  Two threads are the smallest number that shares a field, and
two controllers the smallest that must not; two writes are enough for a write to
fail between others.

Jobs have no row in common, so one job has every interaction; three threads let two
additions or two applications overlap while a third request publishes, deletes or
edits the job.  A workload of two halves reaches 0, half, full and, where two
additions overlap, more than full; the percentages go one below and one above what
validation admits.  A duty of 0 per cent, which validation admits too, is left to the
proofs.  Two applications and two workers are enough for two applications of one
worker and for two workers on one job.  `InFlight`, `MaxWrites` and `MaxDuties` are the
bounds; workers, applications and threads are symmetric.  The run has 857,776 states.

No operation on an account writes rows of another, but a session may sign out of one
and into another while its requests are on their way, so there are two accounts.
`RoleIds` has room for the first roles of both and for one more, or for two of a class
that were created at once; 4 Principals let each session have the one of its context
and each request one more, an older or a fresh one.  The run has 250,596 states.

A service of StaleForms reads and writes one row, so one row in two tabs has
every way of overtaking, also of two requests of one desk, and three versions are
enough for a form to be two versions old; only tickers relate two rows, and the second
row is an offer whose ticker may be asked for again (two requests that race for one ticker take two free
rows and are left to the proofs).  Two instants a day are what it takes
for midnights and whole days to be counted differently, and the horizon lets an
announcement leave the window.  `Horizon` and `MaxVersion` are the bounds; texts,
tabs and threads are symmetric.  The run has 140,965 states.

Three entities are the fewest whose sorting needs more attempts than there are
entities, and all their orders and references are initial states, circles included;
a second file is needed for one that must not be populated.  One command that fails
may be any command of the whole run; the proofs hold for any number of them.  The
deepest walk that the site allows without straying pushes two addresses (a listing
in the menu, a show, the listing of its duties, records or messages); each stray may
add two more, and each row that is clicked again one.  This is theorem
`StackIsShallow`, so with one stray and one such click `MaxStack = 5` never bites;
pages of two jobs differ in nothing but the job.  The run has 859,480 states.

Fairness.  `FairSpec` gives every thread weak fairness on its own steps: a servlet
thread that serves a request is scheduled and its calls return (the database
driver and the pool have timeouts).  No fairness on `Accept`: nobody has to send a
request.  JobBoard states no liveness, that a request ends is the business of
RequestLifecycle.

Deadlock is checked in the lifecycle runs.  The board may stop, once all of its
finitely many jobs are deleted, so its runs do not check it.  Sessions never stop,
and their run checks it; no liveness is stated for them either.  The clock and the
identifiers of StaleForms are bounded, so its runs end and do not check it.  The
populator ends, which is what `Ends` says under weak fairness of its only thread: a
program that runs takes its next step.  A reader can always use the menu or leave
the referrer page, and `navigation` checks that; no liveness is stated, for nobody
has to click.

The disagreements found:

* `transactionStatus` is a field of an object that threads share.  With two
  requests of the same controller at a time the assertions of
  `AbstractController` (lines 93 and 100) fail, and a user is shown the requested
  view of a request that was never saved, against the comment at line 247
  (`lifecycle_answer`).
* The same field does not keep requests apart that overlap inside the commit
  (line 95), and neither do the rows: two duties may be added to a job from the same
  sum, so that it exceeds 100 per cent or changes after its publication; two
  applications of a worker for one job, from two forms, and two roles of one class of
  an account may be saved, after which every query for the one role of the account
  throws.  `crowded` and `doubled` are these cases; the messages of the repository that
  say otherwise are quoted at `PublishedIsComplete`, `WorkloadNeverAboveFull`,
  `OneApplicationPerWorker` and `OneRolePerClass`, which hold in all the others.
* `EmployerJobPublishService` binds and saves the whole editable form, but repeats
  only the spam and workload checks: a published job can have a salary of zero or
  in another currency, which `EmployerJobCreateService` and
  `EmployerJobUpdateService` refuse.
* `AbstractController` makes sure that the principal has the role (line 215) and
  stores it as the active role of a Principal that the requests of the session
  share.  A request for another role replaces it, and a service that then calls
  `getActiveRoleId` (`EmployerJobListMineService`, `EmployerJobCreateService`, ...)
  gets the id of the other role.  `OwnRoleIdWhenAlone` says when it does not.
* Whether the silver and the bronze reward of a challenge are in euros is asked of
  the gold reward (`AdministratorChallengeCreateService`, lines 95 and 100, and the
  update service): with gold in EUR any currency is accepted for the others.  This
  is read from the code (`Accepted` has it); no run states it, as a property would
  only repeat the guard.
* `ConsumerOfferCreateService` (line 99) accepts only tickers that are taken, the
  reverse of what its comment and its message say and of what
  `ProviderRequestCreateService` does.  The unique column then refuses them: no
  offer can be created at all, which is theorem `NoOfferIsCreated`.
* `DatabasePopulator.persist` makes as many attempts as there are entities, and all
  but the last one only move one entity each.  Three valid entities d, c, b of which
  d needs c and c needs b are given up when the list has just been sorted, with a
  message that blames validation errors or associations that are not linked.  The
  files of the repository are far from the limit: `initial-data.xml` needs 1 attempt
  for 6 entities, `sample-data.xml` 17 for 86, as 16 entities are declared too early
  and each of them is deferred once.  Why such files are safe whatever their size is
  `AlmostSortedIsPersisted`: entities that are declared too early may need each other
  only in the order in which they are declared, and nothing else may need them.

Four pages refuse a reader who was offered them (`DeadEnd`): the duties of an
expired job to an auditor, who may see the job and each duty; the messages of a
thread that has none; another duty for a draft whose duties add up to 100 per cent;
the form for a second application.  No text of the repository promises otherwise,
so they are part of the property and not a finding.  After Back or a refused click
the stack has an address too many, and a later Return or post leads to a listing
that the reader has left; `strays` says so.  After a double click on a row, Return
stays at the listing once; `again` says so.  Two labels promise another page than
the stack leads to: "Return to the threads list" of a message and "Return to job
list" of a duty go back to the messages and to the duties.

`SessionLearnsRole` has the condition of `OwnRoleIdWhenAlone`: two requests of a session
that both call `handleUpdate` may replace the Principal in the wrong order, and then the
older set of roles stays until the next update or sign in.

## 4. What is proved

`RequestLifecycleProofs`, for any finite set of threads, any set of controllers
and any number of writes:

* `TypeCorrect`, for any number of overlapping requests.
* `OvertakenStaysLost`, also for any number of overlapping requests: a status in a field
  that can still be completed belongs to a thread between its start and its completion,
  which completes no other (`HeldInv`), a thread that has its transaction begins no new
  one, and only what the field holds can be loaded.
* `RequestsAreBounded`, also for any number of overlapping requests: `Left` gives each
  label the most steps that may follow it, at most 20, with one more for every write to
  come.  Each step of a thread makes its own number smaller and no step of another
  thread touches it.  With fairness that is why every request is answered.
* Under `InFlight = 1`: `NoLeak`, `FreshHooks`, `AssertionsHold`, `Atomicity`,
  `TruthfulAnswers`, `OwnTransactionsOnly`, and `ImplementsContractSafety`, the safety
  part of the refinement of `AtomicRequest`.

None of the latter is inductive.  The invariant `IInv` ties the three views of a
transaction together per label of the handler: what the field holds
(`FieldInv`: a status that is not completed is that of the thread serving the
controller, fresh, exactly at the labels between start and completion), what is
bound to the thread (`ContextInv`) and what has been written, is pending or is
durable (`OutcomeInv`).  `Exclusive` says that a controller has at most one
thread, which is where `InFlight = 1` is used.

`JobBoardProofs`, for any set of jobs, workers, applications and threads, any `Full`
and any set of percentages: `TypeCorrect`, `Completeness`, `WorkloadBound`,
`CleanDeletion`, `ApplicationsArePublished`, `NoDoubleApplication`, the action
properties `Frozen` and `Decided`, and the refinement `ImplementsBoard`.  The
invariant adds to the properties what each request on its way still knows when it
saves: an edit of a job that is not outdated, what it has read of the job (`EditInv`);
a decision that is not outdated, that the application is pending (`DecideInv`).  The
argument for the most delicate one, `AddInv`: a duty is only begun on a draft whose
workload is incomplete; if the job is not crowded, nobody else is adding to it, so the
workload stays incomplete until the duty is saved, and publishing, which wants it
complete, is impossible meanwhile.  `ApplyInv` says the same of the application of a
pair that is not doubled.  The action properties follow from the refinement: they hold
of every step of `AtomicBoard`.

`AccountSessionsProofs`, for any sets of accounts, sessions, threads, classes, role ids
and Principals: `TypeCorrect`, `OneRole`, `ActiveRole`, `KnownRoles`, `OwnRole`,
`Learns` and the refinement `SessionsAreSimple`.  The invariant says that a Principal is
a part of the table of roles however old it is (`HeapInv`), that everything referred to
is there (`ReferenceInv`), what a saving request knows of the rows (`SavingInv`: between
`Authorise` and `Save` the role it wants is still missing, unless another request that
had found none either has inserted it, and then the pair is doubled), that who shares a
Principal or a session is not alone (`SharingInv`) and that a fresh Principal is known
to nobody else (`FreshInv`).  `OwnInv` and `LearnInv` carry the two conditional
properties through the steps in between.  The refinement adds `KeepInv`: the Principal
that a request is about to put into a context belongs to the account that works in that
session now, with Authenticated as its active role, for a session that signs out is
forgotten by its requests.

`StaleFormsProofs`, for any sets of rows, tabs, threads, texts, rewards and tickers, any
length of a day and any window: `TypeCorrect`, `VersionsTell`, `NoneLost`, `StatusKept`,
`Unique`, `NoOfferIsCreated`, `ListsOpen` and the refinement `PostsAreAtomic`.  The
invariant says that a row which is shown in a form, updated or deleted has been created
and keeps its kind, that versions never go back and that whoever knows the current
version knows the content (`FormInv`, `UpdateInv`, `ContentInv`), and that no two
requests create the same row (`CreateInv`).  From this the action properties follow:
`SaveUpdate` demands the version that was read, which is the one the form had, so what
the form showed is what the row holds until that step.  `ListsOpen` rests on a lemma
about floors, `WholeDays`: the whole days between two instants are never more than the
midnights between them.  `PostsAreAtomic` needs that what was sound when it was read
still is when it is saved (`SoundInv`): the row is what was read, as the version says,
and only time has passed.  `NoOfferIsCreated` has an invariant of its own (`OfferInv`):
an offer on its way has the ticker of one that is there, and that one stays, since no
service updates or deletes offers.

`PopulationProofs`, for any number of files, entities and failures: `TypeCorrect` (the
list is at all times a permutation of the entities of its file, which is what removing
at one place and adding at the end must preserve), `FilesAreWhole`,
`ReferencesAreInOrder`, `ReportsAreTrue`, `AttemptsDoAdvance`,
`AlmostSortedFilesAreSafe` and `LoopsAreBounded`.  The invariant says what an attempt
has persisted, a prefix of the list in which every entity comes after those it needs,
and what the counters say of the transaction. `ReferencesAreInOrder` speaks of all sets
of committed rows: of those in one file the entity that was persisted first needs none
of the others.  That attempts advance rests on the prefix before a deferred entity
staying as it was. `AlmostSortedFilesAreSafe` follows the deferred entities: after `n`
attempts the last `n` places of the list hold `n` of them, which will not be deferred
again, and the rest has the order of the file (`MoveInv`).  The attempts would only run
out when every entity has been deferred, but then every entity is one that is declared
too early, and such a file is in order and was persisted at the first attempt.
`LoopsAreBounded` gives a lexicographic order of four natural numbers (files, stages of
a file, attempts, entities of an attempt) in which every step, failures included, leaves
less: what `Ends` adds to it is only that the program takes its steps.

`NavigationProofs`, for any number of jobs, threads and bulletins and any bounds:
`TypeCorrect`, `ReturnLeadsBack`, `PostsEndAtTheirListing`, `OffersOpen` and
`StackIsShallow`. The map of the site is a definition, so most lemmas are facts about
all of its pages: what leads where, and that what a query lists or a view offers passes
the `authorise` of the page behind it.  `ReturnLeadsBack` is then a case analysis over
pushes and pops: a listing is reached from the menu or from a show whose own listing is
on top of the stack.  `LeftInv` says what the page that is about to come has to do with
the one that is being left, and `Way` that the stack leads to where the reader is, with
copies of a listing where rows were clicked again.  `PostsEndAtTheirListing` uses that
every form is in the menu or one click and one link from a listing of the menu
(`FormsAreNear`), which no service refuses.  The invariant adds that a page on the
screen opened when it was rendered, which `OffersOpen` needs for links, and that only
forms are posted. `StackIsShallow` counts how many addresses may still be pushed from a
page on (`Reach`: two from a listing of the menu, one from a listing of an item or a
page that links to one, none from elsewhere) and shows that neither here nor anywhere
that Return may lead can the stack outgrow two addresses, two for each stray and one for
each row that was clicked again.

The assumptions are the `ASSUME`s of the modules: a finite set of threads,
bounds that are numbers, null values that are not records, percentages that are
integers and a positive `Full`, a role Authenticated that nobody acquires.

Proved and not checked by a run: `ActiveRole`, `KnownRoles`, `VersionsTell`, `Unique`
and `NoOfferIsCreated`, of which the first four are near what the refinements say
already; and `RequestsAreBounded`, `LoopsAreBounded` and `StackIsShallow`, most of which
speak of definitions of the proofs.

Only model-checked: liveness under fairness, which needs ENABLED and is out of the
prover's reach (`EveryRequestAnswered`, the fairness part of `AtomicRequest`, and
`Ends`); the variants that `RequestsAreBounded` and `LoopsAreBounded` prove are the
part of the argument that does not need it.  Every other property of a passing run is
proved.

## 5. Not modelled

* The spam filter: `esSpam` is a pure function, and in the models it is one of the
  reasons for which a request fails.  Read from the code: it compares the share of
  spam words, between 0 and 1 unless terms overlap, with a threshold that the form
  labels "(%)" and that may be anything from 0 to 100 (`initial-data.xml` has 1.0).
  From 1 on it catches only texts that consist of spam words, at 0 every text.  The
  terms are compiled as regular expressions, so a term such as "(" makes every
  request that posts a text end in the panic page until the configuration is
  corrected.
* The description of a job: the form carries the version of the job and not that of
  its descriptor, so an old form overwrites a newer description unnoticed.  Nothing
  in the repository promises more.
* The rounding of the sums of percentages, which are doubles: ten duties of 9.1 and
  one of 9.0 add up to 99.99999999999999, and the job cannot be published.  The
  model has whole parts.
* Registration of commands and services (once, at start-up), remember-me tokens,
  passwords, the anonymous principal, and who owns an item.
* What a form contains beyond what the properties tell apart, layout, formatters,
  converters, printers, message sources and patches.
* The launcher, exporter and inquirer: input and output.  The launcher ignores the
  result of the population and ends with the same exit status.
* The libraries under `webapp/META-INF/resources/libraries` (Bootstrap, chart.js,
  DataTables, Font Awesome, jQuery, popper.js and others).  They are most of the
  repository's lines, about 84000, and vendored: none of this system's behaviour is
  defined in them.  The one script of its own, `acme.js`, is in Navigation except
  for `String.prototype.format`.

What would come next: jobs as a kind of StaleForms, with the two versions of job and
descriptor; the ratio of `esSpam` against a reference definition; the anonymous pages
in Navigation.
