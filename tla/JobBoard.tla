------------------------------ MODULE JobBoard ------------------------------
(***************************************************************************)
(* The job board: the services by which employers write, publish and       *)
(* delete jobs, add duties to them and answer applications, and by which   *)
(* workers apply.                                                          *)
(*                                                                         *)
(* A request runs in one transaction of a database with snapshots          *)
(* (REPEATABLE READ): everything that authorise and validate read comes    *)
(* from the snapshot taken by the first query, and the changes reach the   *)
(* database when the transaction commits.  So a request is two steps, a    *)
(* reading one and a saving one, between which any other request may read  *)
(* or save: the field transactionStatus of a controller excludes none, not *)
(* even at the same controller (RequestLifecycle).  The commit checks      *)
(* foreign keys, unique columns and the version of the rows it changes,    *)
(* and nothing else of what was read.                                      *)
(* That a request completes its own transaction, and whole, is taken from  *)
(* RequestLifecycle: where another request completes it there, that one    *)
(* may lose or tear it (one that is lost is an Abort here).                *)
(*                                                                         *)
(* Versions protect the rows of jobs and applications.  Nothing protects a *)
(* sum of percentages or the absence of an application: two requests that  *)
(* add to one job, or file for one job and worker, may both be saved.      *)
(* "crowded" and "doubled" say where such requests have overlapped.        *)
(*                                                                         *)
(* A request that is denied or found invalid changes nothing and does not  *)
(* appear; one that fails later is an Abort step.  Texts, references and   *)
(* ownership of the jobs only add reasons to fail.  Percentages are whole  *)
(* parts of a workload of Full.                                            *)
(***************************************************************************)
EXTENDS Integers

CONSTANTS
  Jobs, Workers, Applications,
  Threads,          \* the threads of the server, each with at most one request
  Full,             \* the workload that a published job needs (100.00)
  Percentages,      \* the percentages that the duty form posts
  MaxDuties,        \* bound: the most duties of a job when another is added
  NoApplication,    \* an application that nobody has filed
  NoRequest         \* a thread that serves no request

ASSUME FullAssumption == Full \in Nat \ {0}
ASSUME PercentagesAssumption == Percentages \subseteq Int
ASSUME MaxDutiesAssumption == MaxDuties \in Nat

Stages == {"none", "draft", "published", "deleted"}
Statuses == {"PENDING", "ACCEPTED", "REJECTED"}

Application == [job : Jobs, worker : Workers, status : Statuses]

(* What a request has read, and what it is going to save. *)
JobCommands == {"create", "update", "publish", "delete"}
JobRequest ==
  [command : JobCommands, job : Jobs, duties : Nat, euros : BOOLEAN, open : BOOLEAN]
DutyRequest == [command : {"add"}, job : Jobs, percentage : Int]
ApplyRequest ==
  [command : {"apply"}, application : Applications, job : Jobs, worker : Workers]
DecideRequest ==
  [command : {"decide"}, application : Applications, status : Statuses]
Requests == JobRequest \cup DutyRequest \cup ApplyRequest \cup DecideRequest

ASSUME NoApplicationAssumption == NoApplication \notin Application
ASSUME NoRequestAssumption == NoRequest \notin Requests

VARIABLES
  stage,        \* stage[j]: not created, a draft, published (finalMode) or deleted
  load, duties, \* load[j]: the sum of the percentages of the duties[j] duties of j
  euros,        \* euros[j]: the salary of j is a positive amount of euros
  open,         \* open[j]: the deadline of j is in the future
  application,  \* application[a]: the job, the worker and the status
  request,      \* request[t]: the request that thread t serves
  outdated,     \* the threads that have read an old version of what they change
  crowded,      \* history: the jobs to which two requests were adding at once
  doubled       \* history: the <<job, worker>> for which two were filing at once

board == <<stage, load, duties, euros, open, application>>
overlaps == <<crowded, doubled>>
vars == <<board, request, outdated, overlaps>>

Init ==
  /\ stage = [j \in Jobs |-> "none"]
  /\ load = [j \in Jobs |-> 0]
  /\ duties = [j \in Jobs |-> 0]
  /\ euros = [j \in Jobs |-> FALSE]
  /\ open = [j \in Jobs |-> FALSE]
  /\ application = [a \in Applications |-> NoApplication]
  /\ request = [t \in Threads |-> NoRequest]
  /\ outdated = {}
  /\ crowded = {}
  /\ doubled = {}

(* countApplicationsByJob and findByJobAndWorker *)
Applicants(j) == {a \in Applications :
                    application[a] # NoApplication /\ application[a].job = j}

(* The threads whose request is one of these commands. *)
Serving(commands) ==
  {t \in Threads : request[t] # NoRequest /\ request[t].command \in commands}

Edits(j) == {t \in Serving(JobCommands) : request[t].job = j}
Additions(j) == {t \in Serving({"add"}) : request[t].job = j}
Filings(j, w) ==
  {t \in Serving({"apply"}) : request[t].job = j /\ request[t].worker = w}
Decisions(a) == {t \in Serving({"decide"}) : request[t].application = a}

-----------------------------------------------------------------------------
(* A request reads: its board stays, and r is what it will save. *)
Read(t, r) ==
  /\ request[t] = NoRequest
  /\ request' = [request EXCEPT ![t] = r]
  /\ UNCHANGED <<board, outdated>>

(* The version of what t saves has changed for all the others.             *)
Answer(t, others) ==
  /\ request' = [request EXCEPT ![t] = NoRequest]
  /\ outdated' = (outdated \cup others) \ {t}
  /\ UNCHANGED overlaps

-----------------------------------------------------------------------------
(* EmployerJobController: authorise and validate. *)

ReadJob(t, c, j, e, o) ==
  /\ Read(t, [command |-> c, job |-> j, duties |-> duties[j],
              euros |-> e, open |-> o])
  /\ UNCHANGED overlaps

(* The salary that is saved is in euros and the deadline is in the future; *)
(* the sequence gives a new job an id that no other request has.           *)
Create(t, j) ==
  /\ stage[j] = "none"
  /\ Edits(j) = {}
  /\ ReadJob(t, "create", j, TRUE, TRUE)

(* The form posts finalMode as it is, and a job in final mode is refused. *)
Update(t, j) ==
  /\ stage[j] = "draft"
  /\ ReadJob(t, "update", j, TRUE, TRUE)


(* Mutant: the workload is not compared with 100. *)
MutPublish(t, j) ==
  /\ stage[j] = "draft"
  /\ \E e, o \in BOOLEAN : ReadJob(t, "publish", j, e, o)

(* Saves the salary and the deadline of the form, whatever they are. *)
Publish(t, j) ==
  /\ stage[j] = "draft"
  /\ load[j] = Full
  /\ \E e, o \in BOOLEAN : ReadJob(t, "publish", j, e, o)

Delete(t, j) ==
  /\ stage[j] \in {"draft", "published"}
  /\ Applicants(j) = {}
  /\ ReadJob(t, "delete", j, FALSE, FALSE)

-----------------------------------------------------------------------------
(* EmployerJobController: create, update, publish and delete, with the     *)
(* commit that follows, which fails if the version of the job has changed. *)
(* An update that changes nothing is not sent: it ends in Abort.           *)


(* Mutant: the row of a job has no version. *)
MutSave(t, c, s) ==
  /\ t \in Serving({c})
  /\ LET r == request[t] IN
       /\ stage' = [stage EXCEPT ![r.job] = s]
       /\ euros' = [euros EXCEPT ![r.job] = r.euros]
       /\ open' = [open EXCEPT ![r.job] = r.open]
       /\ Answer(t, Edits(r.job))
  /\ UNCHANGED <<load, duties, application>>

Save(t, c, s) ==
  /\ t \in Serving({c}) \ outdated
  /\ LET r == request[t] IN
       /\ stage' = [stage EXCEPT ![r.job] = s]
       /\ euros' = [euros EXCEPT ![r.job] = r.euros]
       /\ open' = [open EXCEPT ![r.job] = r.open]
       /\ Answer(t, Edits(r.job))
  /\ UNCHANGED <<load, duties, application>>

SaveCreate(t) == Save(t, "create", "draft")
SaveUpdate(t) == Save(t, "update", "draft")
SavePublish(t) == Save(t, "publish", "published")


(* Mutant: an application keeps the number of its job, not a foreign key. *)
MutSaveDelete(t) ==
  /\ t \in Serving({"delete"}) \ outdated
  /\ LET r == request[t] IN
       /\ duties[r.job] = r.duties
       /\ stage' = [stage EXCEPT ![r.job] = "deleted"]
       /\ load' = [load EXCEPT ![r.job] = 0]
       /\ duties' = [duties EXCEPT ![r.job] = 0]
       /\ Answer(t, Edits(r.job))
  /\ UNCHANGED <<euros, open, application>>

(* Deletes the job, the duties that were read and the descriptor.  Foreign *)
(* keys refuse it if another duty or an application has arrived meanwhile. *)
SaveDelete(t) ==
  /\ t \in Serving({"delete"}) \ outdated
  /\ LET r == request[t] IN
       /\ duties[r.job] = r.duties
       /\ Applicants(r.job) = {}
       /\ stage' = [stage EXCEPT ![r.job] = "deleted"]
       /\ load' = [load EXCEPT ![r.job] = 0]
       /\ duties' = [duties EXCEPT ![r.job] = 0]
       /\ Answer(t, Edits(r.job))
  /\ UNCHANGED <<euros, open, application>>

-----------------------------------------------------------------------------
(* EmployerDutyController *)

ReadDuty(t, j, p) ==
  /\ Read(t, [command |-> "add", job |-> j, percentage |-> p])
  /\ crowded' = IF Additions(j) = {} THEN crowded ELSE crowded \cup {j}
  /\ UNCHANGED doubled


(* Mutant: validate looks at the percentage alone, not at the sum. *)
MutAddDutyAlone(t, j, p) ==
  /\ duties[j] < MaxDuties
  /\ stage[j] = "draft"
  /\ load[j] < Full
  /\ p \in 0..Full
  /\ ReadDuty(t, j, p)

(* Mutant: a negative percentage is not refused. *)
MutAddDutyNegative(t, j, p) ==
  /\ duties[j] < MaxDuties
  /\ stage[j] = "draft"
  /\ load[j] < Full
  /\ load[j] + p <= Full
  /\ p <= Full
  /\ ReadDuty(t, j, p)

AddDuty(t, j, p) ==
  /\ duties[j] < MaxDuties
  /\ stage[j] = "draft"
  /\ load[j] < Full
  /\ load[j] + p <= Full
  /\ p \in 0..Full
  /\ ReadDuty(t, j, p)

(* The foreign key to the descriptor is all that is checked again. *)
SaveDuty(t) ==
  /\ t \in Serving({"add"})
  /\ LET r == request[t] IN
       /\ stage[r.job] # "deleted"
       /\ load' = [load EXCEPT ![r.job] = @ + r.percentage]
       /\ duties' = [duties EXCEPT ![r.job] = @ + 1]
  /\ Answer(t, {})
  /\ UNCHANGED <<stage, euros, open, application>>

-----------------------------------------------------------------------------
(* WorkerApplicationController *)

(* The sequence gives the application an id that no other request has. *)
ReadApplication(t, a, j, w) ==
  /\ application[a] = NoApplication
  /\ \A u \in Serving({"apply"}) : request[u].application # a
  /\ Read(t, [command |-> "apply", application |-> a, job |-> j, worker |-> w])
  /\ doubled' = IF Filings(j, w) = {} THEN doubled ELSE doubled \cup {<<j, w>>}
  /\ UNCHANGED crowded


(* Mutant: authorise does not ask whether the job is in final mode. *)
MutApply(t, a, j, w) ==
  /\ open[j]
  /\ \A b \in Applicants(j) : application[b].worker # w
  /\ ReadApplication(t, a, j, w)

(* Mutant: authorise does not look for an application of the same worker. *)
MutApplyTwice(t, a, j, w) ==
  /\ stage[j] = "published"
  /\ open[j]
  /\ ReadApplication(t, a, j, w)

Apply(t, a, j, w) ==
  /\ stage[j] = "published"
  /\ open[j]
  /\ \A b \in Applicants(j) : application[b].worker # w
  /\ ReadApplication(t, a, j, w)

(* Besides its reference, which is unique (Abort), the foreign key to the  *)
(* job is all that is checked again.                                       *)
SaveApplication(t) ==
  /\ t \in Serving({"apply"})
  /\ LET r == request[t] IN
       /\ stage[r.job] # "deleted"
       /\ application' = [application EXCEPT ![r.application] =
                           [job |-> r.job, worker |-> r.worker, status |-> "PENDING"]]
  /\ Answer(t, {})
  /\ UNCHANGED <<stage, load, duties, euros, open>>

-----------------------------------------------------------------------------
(* EmployerApplicationController *)

Decide(t, a, s) ==
  /\ application[a] # NoApplication
  /\ application[a].status = "PENDING"
  /\ Read(t, [command |-> "decide", application |-> a, status |-> s])
  /\ UNCHANGED overlaps


(* Mutant: the row of an application has no version. *)
MutSaveDecision(t) ==
  /\ t \in Serving({"decide"})
  /\ LET r == request[t] IN
       /\ application' = [application EXCEPT ![r.application].status = r.status]
       /\ Answer(t, Decisions(r.application))
  /\ UNCHANGED <<stage, load, duties, euros, open>>

(* Fails if the version of the application has changed. *)
SaveDecision(t) ==
  /\ t \in Serving({"decide"}) \ outdated
  /\ LET r == request[t] IN
       /\ application' = [application EXCEPT ![r.application].status = r.status]
       /\ Answer(t, Decisions(r.application))
  /\ UNCHANGED <<stage, load, duties, euros, open>>

-----------------------------------------------------------------------------

(* A request fails after its reads: spam, an old version, a broken key...  *)
Abort(t) ==
  /\ request[t] # NoRequest
  /\ Answer(t, {})
  /\ UNCHANGED board

DeadlinePasses(j) ==
  /\ open[j]
  /\ open' = [open EXCEPT ![j] = FALSE]
  /\ UNCHANGED <<stage, load, duties, euros, application, request, outdated,
                 overlaps>>

Next ==
  \/ \E t \in Threads :
       \/ \E j \in Jobs :
            \/ Create(t, j) \/ Update(t, j) \/ Publish(t, j) \/ Delete(t, j)
            \/ \E p \in Percentages : AddDuty(t, j, p)
            \/ \E a \in Applications, w \in Workers : Apply(t, a, j, w)
       \/ \E a \in Applications, s \in Statuses : Decide(t, a, s)
       \/ SaveCreate(t) \/ SaveUpdate(t) \/ SavePublish(t) \/ SaveDelete(t)
       \/ SaveDuty(t) \/ SaveApplication(t) \/ SaveDecision(t)
       \/ Abort(t)
  \/ \E j \in Jobs : DeadlinePasses(j)

Spec == Init /\ [][Next]_vars

-----------------------------------------------------------------------------
(* Properties.                                                             *)

(* Every variable keeps to its type; no workload is negative. *)
TypeOK ==
  /\ stage \in [Jobs -> Stages]
  /\ load \in [Jobs -> Nat]
  /\ duties \in [Jobs -> Nat]
  /\ euros \in [Jobs -> BOOLEAN]
  /\ open \in [Jobs -> BOOLEAN]
  /\ application \in [Applications -> Application \cup {NoApplication}]
  /\ request \in [Threads -> Requests \cup {NoRequest}]
  /\ outdated \subseteq Threads
  /\ crowded \subseteq Jobs
  /\ doubled \subseteq Jobs \X Workers

(* "You can not publish a job whose percentage of total work is not equal  *)
(* to 100%" (employer/job/i18n_en.messages), and it stays so whatever duty *)
(* was on its way when the job was published, unless two requests were     *)
(* adding duties to the job at once: of these, one may be saved after the  *)
(* publication (EmployerDutyCreateService:55).                             *)
PublishedIsComplete ==
  \A j \in Jobs \ crowded : stage[j] = "published" => load[j] = Full

(* "You can not update published jobs": what workers apply for does not    *)
(* change, nor is it withdrawn, except by deleting the job.  An update     *)
(* that was on its way meets another version; so does a second publication *)
(* or deletion.  The duties may change where two were added at once.       *)
PublishedIsFrozen ==
  [][\A j \in Jobs : stage[j] = "published" =>
       \/ stage'[j] = "deleted"
       \/ /\ stage'[j] = "published"
          /\ euros'[j] = euros[j] /\ open'[j] \in {open[j], FALSE}
          /\ j \notin crowded => duties'[j] = duties[j] /\ load'[j] = load[j]]_vars

(* "You can not delete a job with applications", and a job is deleted with *)
(* all its duties, also those that were saved while it was being deleted.  *)
NoOrphans ==
  \A j \in Jobs : stage[j] = "deleted" => duties[j] = 0 /\ Applicants(j) = {}

(* Workers only apply for jobs that were published (authorise of           *)
(* WorkerApplicationCreateService) and no application outlives that.       *)
ApplicationsOnPublishedJobs ==
  \A a \in Applications :
    application[a] # NoApplication => stage[application[a].job] = "published"

(* "A worker cannot apply for a job he has already requested"              *)
(* (worker/application/i18n_en.messages).  No column is unique for the     *)
(* pair: only where two applications of the worker were being filed at     *)
(* once, from two forms with a reference each, may both be saved.          *)
OneApplicationPerWorker ==
  \A a, b \in Applications :
    /\ a # b
    /\ application[a] # NoApplication /\ application[b] # NoApplication
    /\ <<application[a].job, application[a].worker>> \notin doubled
    => \/ application[a].job # application[b].job
       \/ application[a].worker # application[b].worker

(* The percentages of the duties of a job never add up to more than 100    *)
(* (validate of EmployerDutyCreateService), unless two requests added to   *)
(* the job at once, each from a sum without the other.                     *)
WorkloadNeverAboveFull == \A j \in Jobs \ crowded : load[j] <= Full

(* An application that was accepted or rejected is never decided again,    *)
(* also not by a request that still saw it pending, and never leaves the   *)
(* job or the worker it belongs to (EmployerApplicationUpdateService:58).  *)
DecisionIsFinal ==
  [][\A a \in Applications :
       application[a] # NoApplication =>
         /\ application'[a] # NoApplication
         /\ application'[a].job = application[a].job
         /\ application'[a].worker = application[a].worker
         /\ application[a].status # "PENDING" =>
              application'[a].status = application[a].status]_vars

(* The services decide on an old snapshot, and yet the board changes as if *)
(* each of them had read and saved in one instant, except for the sums and *)
(* applications that AtomicBoard leaves open where requests have crowded.  *)
Board == INSTANCE AtomicBoard

ImplementsAtomicBoard == Board!Spec

(* "The monetary unit must be euros (EUR)!" and the salary above zero, as  *)
(* create and update demand: so should be those of the published jobs.     *)
PublishedSalaryInEuros ==
  \A j \in Jobs : stage[j] = "published" => euros[j]

=============================================================================
