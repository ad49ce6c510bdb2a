---------------------------- MODULE AtomicBoard ----------------------------
(***************************************************************************)
(* What the job board promises: jobs, their duties and the applications    *)
(* for them change as if each service read the board and saved its changes *)
(* in one instant.  JobBoard shows that the services keep the promise      *)
(* although they decide on a snapshot that is older than their commit.     *)
(*                                                                         *)
(* The promise has two gaps, and no others: a job to which two requests    *)
(* were adding at once is "crowded", and its workload is not kept to Full  *)
(* any longer; a worker who was applying twice at once is "doubled" for    *)
(* the job.  Which jobs and pairs these are is left to the implementation. *)
(***************************************************************************)
EXTENDS Naturals

CONSTANTS
  Jobs, Workers, Applications,
  Full,             \* the workload of a published job, 100 per cent
  NoApplication     \* the value of an application that nobody has filed

VARIABLES
  stage,        \* stage[j]: where job j is in its life
  load, duties, \* load[j]: the sum of the percentages of the duties[j] duties of j
  euros,        \* euros[j]: the salary of j is a positive amount of euros
  open,         \* open[j]: the deadline of j is in the future
  application,  \* application[a]: who applies for which job, and the answer
  crowded,      \* the jobs whose workload is not kept
  doubled       \* the <<job, worker>> that may have several applications

overlaps == <<crowded, doubled>>
board == <<stage, load, duties, euros, open, application, overlaps>>

Applicants(j) == {a \in Applications :
                    application[a] # NoApplication /\ application[a].job = j}

Init ==
  /\ stage = [j \in Jobs |-> "none"]
  /\ load = [j \in Jobs |-> 0]
  /\ duties = [j \in Jobs |-> 0]
  /\ euros = [j \in Jobs |-> FALSE]
  /\ open = [j \in Jobs |-> FALSE]
  /\ application = [a \in Applications |-> NoApplication]
  /\ crowded = {}
  /\ doubled = {}

Edit(j, before, after, e, o) ==
  /\ stage[j] = before
  /\ stage' = [stage EXCEPT ![j] = after]
  /\ euros' = [euros EXCEPT ![j] = e]
  /\ open' = [open EXCEPT ![j] = o]
  /\ UNCHANGED <<load, duties, application, overlaps>>

Create(j) == Edit(j, "none", "draft", TRUE, TRUE)

Update(j) == Edit(j, "draft", "draft", TRUE, TRUE)

(* A job is published with its workload complete. *)
Publish(j) ==
  /\ load[j] = Full \/ j \in crowded
  /\ \E e, o \in BOOLEAN : Edit(j, "draft", "published", e, o)

(* A job for which somebody applied stays. *)
Delete(j) ==
  /\ stage[j] \in {"draft", "published"}
  /\ Applicants(j) = {}
  /\ stage' = [stage EXCEPT ![j] = "deleted"]
  /\ load' = [load EXCEPT ![j] = 0]
  /\ duties' = [duties EXCEPT ![j] = 0]
  /\ UNCHANGED <<euros, open, application, overlaps>>

(* Only a draft with an incomplete workload gets another duty. *)
AddDuty(j, p) ==
  /\ \/ stage[j] = "draft" /\ load[j] < Full /\ load[j] + p <= Full
     \/ stage[j] \in {"draft", "published"} /\ j \in crowded
  /\ load' = [load EXCEPT ![j] = @ + p]
  /\ duties' = [duties EXCEPT ![j] = @ + 1]
  /\ UNCHANGED <<stage, euros, open, application, overlaps>>

(* A worker applies once for a published job. *)
Apply(a, j, w) ==
  /\ application[a] = NoApplication
  /\ stage[j] = "published"
  /\ (\A b \in Applicants(j) : application[b].worker # w) \/ <<j, w>> \in doubled
  /\ application' = [application EXCEPT
                      ![a] = [job |-> j, worker |-> w, status |-> "PENDING"]]
  /\ UNCHANGED <<stage, load, duties, euros, open, overlaps>>

Decide(a, s) ==
  /\ application[a] # NoApplication
  /\ application[a].status = "PENDING"
  /\ application' = [application EXCEPT ![a].status = s]
  /\ UNCHANGED <<stage, load, duties, euros, open, overlaps>>

DeadlinePasses(j) ==
  /\ open' = [open EXCEPT ![j] = FALSE]
  /\ UNCHANGED <<stage, load, duties, euros, application, overlaps>>

(* Requests overlap: crowded and doubled are never taken back. *)
Overlap ==
  /\ crowded \subseteq crowded' /\ crowded' \subseteq Jobs
  /\ doubled \subseteq doubled' /\ doubled' \subseteq Jobs \X Workers
  /\ UNCHANGED <<stage, load, duties, euros, open, application>>

Next ==
  \/ \E j \in Jobs :
       \/ Create(j) \/ Update(j) \/ Publish(j) \/ Delete(j) \/ DeadlinePasses(j)
       \/ \E p \in 0..Full : AddDuty(j, p)
       \/ \E a \in Applications, w \in Workers : Apply(a, j, w)
  \/ \E a \in Applications, s \in {"PENDING", "ACCEPTED", "REJECTED"} :
       Decide(a, s)
  \/ Overlap

Spec == Init /\ [][Next]_board
=============================================================================
