--------------------------- MODULE JobBoardProofs ---------------------------
(***************************************************************************)
(* The board keeps its promises for any number of jobs, workers,           *)
(* applications and threads.  The safety properties are not inductive: the *)
(* services check them on a snapshot, so the invariant IInv adds what      *)
(* every request on its way still knows about the board when it saves.     *)
(***************************************************************************)
EXTENDS JobBoard, TLAPS

(* What is still true of a job request whose job has the version it read.  *)
EditInv(t) ==
  t \in Serving(JobCommands) \ outdated =>
    LET r == request[t] IN
      /\ r.command \in {"create", "update"} => r.euros /\ r.open
      /\ r.command = "create" => stage[r.job] = "none"
      /\ r.command \in {"update", "publish"} => stage[r.job] = "draft"
      /\ r.command = "publish" => load[r.job] = Full \/ r.job \in crowded
      /\ r.command = "delete" => stage[r.job] \in {"draft", "published"}

(* A job that is about to get its only duty on the way cannot be published *)
(* meanwhile: its workload is still incomplete.                            *)
AddInv(t) ==
  t \in Serving({"add"}) =>
    LET r == request[t] IN
      /\ r.percentage \in 0..Full
      /\ stage[r.job] # "none"
      /\ r.job \notin crowded =>
           /\ \A u \in Additions(r.job) : u = t
           /\ stage[r.job] \in {"draft", "deleted"}
           /\ stage[r.job] = "draft" =>
                load[r.job] < Full /\ load[r.job] + r.percentage <= Full

ApplyInv(t) ==
  t \in Serving({"apply"}) =>
    LET r == request[t] IN
      /\ application[r.application] = NoApplication
      /\ \A u \in Serving({"apply"}) :
           request[u].application = r.application => u = t
      /\ stage[r.job] \in {"published", "deleted"}
      /\ <<r.job, r.worker>> \notin doubled =>
           /\ \A u \in Filings(r.job, r.worker) : u = t
           /\ \A b \in Applicants(r.job) : application[b].worker # r.worker

DecideInv(t) ==
  t \in Serving({"decide"}) =>
    LET r == request[t] IN
      /\ application[r.application] # NoApplication
      /\ t \notin outdated => application[r.application].status = "PENDING"

(* A job that does not exist has no duties. *)
Existence == \A j \in Jobs : stage[j] = "none" => duties[j] = 0 /\ load[j] = 0

BoardInv ==
  /\ PublishedIsComplete
  /\ WorkloadNeverAboveFull
  /\ NoOrphans
  /\ ApplicationsOnPublishedJobs
  /\ OneApplicationPerWorker
  /\ Existence

RequestsInv ==
  \A t \in Threads : EditInv(t) /\ AddInv(t) /\ ApplyInv(t) /\ DecideInv(t)

IInv ==
  /\ TypeOK
  /\ BoardInv
  /\ RequestsInv

-----------------------------------------------------------------------------
(* Who serves what.                                                        *)

(* The request of a thread that serves a command has the type of it. *)
LEMMA RequestTypes ==
  ASSUME TypeOK, NEW t \in Threads
  PROVE  /\ t \in Serving(JobCommands) => request[t] \in JobRequest
         /\ t \in Serving({"add"}) => request[t] \in DutyRequest
         /\ t \in Serving({"apply"}) => request[t] \in ApplyRequest
         /\ t \in Serving({"decide"}) => request[t] \in DecideRequest
<1>1. request[t] # NoRequest => request[t] \in Requests
  BY DEF TypeOK
<1> QED
  BY <1>1 DEF Serving, Requests, JobRequest, DutyRequest, ApplyRequest,
     DecideRequest, JobCommands

(* A request that reads leaves the others as they are. *)
LEMMA ReadFacts ==
  ASSUME TypeOK, NEW t \in Threads, NEW r \in Requests, Read(t, r)
  PROVE  /\ UNCHANGED <<board, outdated>>
         /\ request' \in [Threads -> Requests \cup {NoRequest}]
         /\ request[t] = NoRequest /\ request'[t] = r /\ r # NoRequest
         /\ \A u \in Threads \ {t} : request'[u] = request[u]
         /\ \A c : \A u \in Threads \ {t} : u \in Serving(c)' <=> u \in Serving(c)
         /\ \A c : t \notin Serving(c) /\ (t \in Serving(c)' <=> r.command \in c)
BY NoRequestAssumption DEF Read, TypeOK, Serving

(* A request that ends leaves the others as they are, but for the version. *)
LEMMA AnswerFacts ==
  ASSUME TypeOK, NEW t \in Threads, NEW others \in SUBSET Threads,
         Answer(t, others)
  PROVE  /\ UNCHANGED overlaps
         /\ request' \in [Threads -> Requests \cup {NoRequest}]
         /\ outdated' = (outdated \cup others) \ {t} /\ outdated' \subseteq Threads
         /\ \A u \in Threads \ {t} : request'[u] = request[u]
         /\ \A c : \A u \in Threads \ {t} : u \in Serving(c)' <=> u \in Serving(c)
         /\ \A c : t \notin Serving(c)'
BY DEF Answer, TypeOK, Serving

LEMMA InitInv == Init => IInv
<1> SUFFICES ASSUME Init PROVE IInv
  OBVIOUS
<1>1. TypeOK
  BY DEF Init, TypeOK, Stages
<1>2. BoardInv
  BY FullAssumption DEF Init, BoardInv, PublishedIsComplete,
     WorkloadNeverAboveFull, NoOrphans, ApplicationsOnPublishedJobs,
     OneApplicationPerWorker, Existence
<1>3. RequestsInv
  BY DEF Init, RequestsInv, EditInv, AddInv, ApplyInv, DecideInv, Serving
<1> QED
  BY <1>1, <1>2, <1>3 DEF IInv

-----------------------------------------------------------------------------
(* A request that has only read: the board is as it was. *)

(* More overlaps only weaken what the board promises. *)
LEMMA BoardUnchanged ==
  ASSUME BoardInv, UNCHANGED board, crowded \subseteq crowded',
         doubled \subseteq doubled'
  PROVE  BoardInv'
BY DEF board, BoardInv, PublishedIsComplete, WorkloadNeverAboveFull, NoOrphans,
   ApplicationsOnPublishedJobs, OneApplicationPerWorker, Existence, Applicants

(* What a reading step keeps, whatever it reads. *)
LEMMA ReadKeeps ==
  ASSUME IInv, NEW t \in Threads, NEW r \in Requests, Read(t, r),
         crowded \subseteq crowded', crowded' \subseteq Jobs,
         doubled \subseteq doubled', doubled' \subseteq Jobs \X Workers
  PROVE  /\ TypeOK'
         /\ BoardInv'
         /\ \A u \in Threads \ {t} : EditInv(u)' /\ DecideInv(u)'
<1> USE DEF IInv
<1>1. TypeOK'
  BY ReadFacts DEF TypeOK, board
<1>2. BoardInv'
  BY ReadFacts, BoardUnchanged
<1>3. ASSUME NEW u \in Threads \ {t} PROVE EditInv(u)' /\ DecideInv(u)'
  <2>1. EditInv(u) /\ DecideInv(u)
    BY DEF RequestsInv
  <2>2. EditInv(u)'
    BY <2>1, ReadFacts DEF EditInv, board
  <2>3. DecideInv(u)'
    BY <2>1, ReadFacts DEF DecideInv, board
  <2> QED
    BY <2>2, <2>3
<1> QED
  BY <1>1, <1>2, <1>3

(* A reading step that is no addition leaves the additions as they are. *)
LEMMA ReadKeepsAdditions ==
  ASSUME IInv, NEW t \in Threads, NEW r \in Requests, Read(t, r),
         r.command # "add", crowded' = crowded
  PROVE  \A u \in Threads : AddInv(u)'
<1> SUFFICES ASSUME NEW u \in Threads PROVE AddInv(u)'
  OBVIOUS
<1>1. TypeOK /\ AddInv(u)
  BY DEF IInv, RequestsInv
<1>2. t \notin Serving({"add"})'
  BY <1>1, ReadFacts
<1>3. \A j \in Jobs : Additions(j)' \subseteq Additions(j)
  BY <1>1, <1>2, ReadFacts DEF Additions, Serving
<1>4. CASE u # t
  BY <1>1, <1>3, <1>4, ReadFacts, RequestTypes DEF AddInv, board, DutyRequest
<1> QED
  BY <1>2, <1>4 DEF AddInv

(* A reading step that is no application leaves the applications alone. *)
LEMMA ReadKeepsFilings ==
  ASSUME IInv, NEW t \in Threads, NEW r \in Requests, Read(t, r),
         r.command # "apply", doubled' = doubled
  PROVE  \A u \in Threads : ApplyInv(u)'
<1> SUFFICES ASSUME NEW u \in Threads PROVE ApplyInv(u)'
  OBVIOUS
<1>1. TypeOK /\ ApplyInv(u)
  BY DEF IInv, RequestsInv
<1>2. t \notin Serving({"apply"})'
  BY <1>1, ReadFacts
<1>3. /\ \A j, w : Filings(j, w)' \subseteq Filings(j, w)
      /\ \A j : Applicants(j)' = Applicants(j)
  BY <1>1, <1>2, ReadFacts DEF Filings, Serving, Applicants, board
<1>4. ASSUME NEW v \in Serving({"apply"})'
      PROVE  v \in Serving({"apply"}) /\ request'[v] = request[v]
  BY <1>1, <1>2, <1>4, ReadFacts DEF Serving
<1>5. CASE u # t
  BY <1>1, <1>3, <1>4, <1>5, ReadFacts DEF ApplyInv, board
<1> QED
  BY <1>2, <1>5 DEF ApplyInv

LEMMA ReadJobStep ==
  ASSUME IInv, NEW t \in Threads, NEW j \in Jobs,
         \/ Create(t, j) \/ Update(t, j) \/ Publish(t, j) \/ Delete(t, j)
  PROVE  IInv'
<1> USE DEF IInv
<1>1. PICK c \in JobCommands, e \in BOOLEAN, o \in BOOLEAN :
        /\ ReadJob(t, c, j, e, o)
        /\ c \in {"create", "update"} => e /\ o
        /\ c = "create" => stage[j] = "none"
        /\ c \in {"update", "publish"} => stage[j] = "draft"
        /\ c = "publish" => load[j] = Full
        /\ c = "delete" => stage[j] \in {"draft", "published"}
  BY DEF Create, Update, Publish, Delete, JobCommands
<1> DEFINE r == [command |-> c, job |-> j, duties |-> duties[j],
                 euros |-> e, open |-> o]
<1>2. Read(t, r) /\ UNCHANGED overlaps
  BY <1>1 DEF ReadJob
<1>3. r \in Requests /\ r.command \notin {"add", "apply", "decide"}
  BY DEF TypeOK, Requests, JobRequest, JobCommands
<1>4. crowded' = crowded /\ doubled' = doubled
  BY <1>2 DEF overlaps
<1>5. /\ r.command = c /\ r.job = j /\ r.euros = e /\ r.open = o
  OBVIOUS
<1> HIDE DEF r
<1>6. TypeOK' /\ BoardInv' /\ \A u \in Threads \ {t} : EditInv(u)' /\ DecideInv(u)'
  BY <1>2, <1>3, <1>4, ReadKeeps DEF TypeOK
<1>7. EditInv(t)'
  BY <1>1, <1>2, <1>3, <1>5, ReadFacts DEF EditInv, board
<1>8. DecideInv(t)'
  BY <1>2, <1>3, ReadFacts DEF DecideInv
<1> QED
  BY <1>2, <1>3, <1>4, <1>6, <1>7, <1>8, ReadKeepsAdditions, ReadKeepsFilings
  DEF RequestsInv

LEMMA AddDutyStep ==
  ASSUME IInv, NEW t \in Threads, NEW j \in Jobs, NEW p \in Percentages,
         AddDuty(t, j, p)
  PROVE  IInv'
<1> USE DEF IInv
<1> DEFINE r == [command |-> "add", job |-> j, percentage |-> p]
<1>1. /\ Read(t, r)
      /\ crowded' = IF Additions(j) = {} THEN crowded ELSE crowded \cup {j}
      /\ doubled' = doubled
  BY DEF AddDuty, ReadDuty
<1>2. stage[j] = "draft" /\ load[j] < Full /\ load[j] + p <= Full /\ p \in 0..Full
  BY DEF AddDuty
<1>3. r \in Requests
  BY PercentagesAssumption DEF Requests, DutyRequest
<1>4. r.command = "add" /\ r.job = j /\ r.percentage = p
  OBVIOUS
<1> HIDE DEF r
<1>5. TypeOK' /\ BoardInv' /\ \A u \in Threads \ {t} : EditInv(u)' /\ DecideInv(u)'
  <2>1. crowded \subseteq crowded' /\ crowded' \subseteq Jobs
    BY <1>1 DEF TypeOK
  <2> QED
    BY <2>1, <1>1, <1>3, ReadKeeps DEF TypeOK
<1>6. EditInv(t)' /\ DecideInv(t)'
  BY <1>1, <1>3, <1>4, ReadFacts DEF EditInv, DecideInv, JobCommands
<1>7. \A i \in Jobs : Additions(i)' = IF i = j THEN Additions(j) \cup {t}
                                              ELSE Additions(i)
  <2> SUFFICES ASSUME NEW i \in Jobs, NEW u \in Threads
               PROVE  u \in Additions(i)'
                        <=> u \in (IF i = j THEN Additions(j) \cup {t}
                                            ELSE Additions(i))
    BY DEF Additions, Serving
  <2>1. CASE u = t
    BY <2>1, <1>1, <1>3, <1>4, ReadFacts DEF Additions
  <2>2. CASE u # t
    BY <2>2, <1>1, <1>3, ReadFacts DEF Additions
  <2> QED
    BY <2>1, <2>2
<1>8. ASSUME NEW u \in Threads PROVE AddInv(u)'
  <2>1. CASE u = t
    <3>1. j \notin crowded' => Additions(j)' = {t}
      BY <1>1, <1>7
    <3> QED
      BY <2>1, <3>1, <1>1, <1>2, <1>3, <1>4, ReadFacts DEF AddInv, board
  <2>2. CASE u # t /\ u \in Serving({"add"})
    <3> PICK i \in Jobs : i = request[u].job
      BY <2>2, RequestTypes DEF DutyRequest
    <3>1. u \in Additions(i) /\ AddInv(u)
      BY <2>2 DEF Additions, RequestsInv
    <3>2. i \notin crowded' => i # j /\ i \notin crowded
      BY <3>1, <1>1
    <3>3. request'[u] = request[u] /\ UNCHANGED <<stage, load>>
      BY <2>2, <1>1, <1>3, ReadFacts DEF board
    <3>4. i \notin crowded' => Additions(i)' = Additions(i)
      BY <3>1, <3>2, <1>7
    <3> QED
      BY <2>2, <3>1, <3>2, <3>3, <3>4 DEF AddInv
  <2>3. CASE u # t /\ u \notin Serving({"add"})
    BY <2>3, <1>1, <1>3, ReadFacts DEF AddInv
  <2> QED
    BY <2>1, <2>2, <2>3
<1>9. \A u \in Threads : ApplyInv(u)'
  BY <1>1, <1>3, <1>4, ReadKeepsFilings
<1> QED
  BY <1>5, <1>6, <1>8, <1>9 DEF RequestsInv

LEMMA ApplyStep ==
  ASSUME IInv, NEW t \in Threads, NEW a \in Applications, NEW j \in Jobs,
         NEW w \in Workers, Apply(t, a, j, w)
  PROVE  IInv'
<1> USE DEF IInv
<1> DEFINE r == [command |-> "apply", application |-> a, job |-> j, worker |-> w]
<1>1. /\ Read(t, r)
      /\ doubled' = IF Filings(j, w) = {} THEN doubled ELSE doubled \cup {<<j, w>>}
      /\ crowded' = crowded
  BY DEF Apply, ReadApplication
<1>2. /\ stage[j] = "published" /\ application[a] = NoApplication
      /\ \A b \in Applicants(j) : application[b].worker # w
      /\ \A u \in Serving({"apply"}) : request[u].application # a
  BY DEF Apply, ReadApplication
<1>3. r \in Requests
  BY DEF Requests, ApplyRequest
<1>4. r.command = "apply" /\ r.application = a /\ r.job = j /\ r.worker = w
  OBVIOUS
<1> HIDE DEF r
<1>5. TypeOK' /\ BoardInv' /\ \A u \in Threads \ {t} : EditInv(u)' /\ DecideInv(u)'
  <2>1. doubled \subseteq doubled' /\ doubled' \subseteq Jobs \X Workers
    BY <1>1 DEF TypeOK
  <2> QED
    BY <2>1, <1>1, <1>3, ReadKeeps DEF TypeOK
<1>6. EditInv(t)' /\ DecideInv(t)'
  BY <1>1, <1>3, <1>4, ReadFacts DEF EditInv, DecideInv, JobCommands
<1>7. \A u \in Threads : AddInv(u)'
  BY <1>1, <1>3, <1>4, ReadKeepsAdditions
<1>8. ASSUME NEW u \in Threads \ {t}, NEW c
      PROVE  request'[u] = request[u] /\ (u \in Serving(c)' <=> u \in Serving(c))
  BY <1>1, <1>3, ReadFacts
<1>9. t \in Serving({"apply"})' /\ request'[t] = r
  BY <1>1, <1>3, <1>4, ReadFacts
<1>10. /\ UNCHANGED <<stage, application>>
       /\ \A i : Applicants(i)' = Applicants(i)
  BY <1>1, <1>3, ReadFacts DEF board, Applicants
<1>11. ASSUME NEW u \in Threads PROVE ApplyInv(u)'
  <2>1. CASE u = t
    <3>1. <<j, w>> \notin doubled' => \A v \in Filings(j, w)' : v = t
      <4>1. ASSUME NEW v \in Filings(j, w)', v # t PROVE v \in Filings(j, w)
        BY <4>1, <1>8 DEF Filings, Serving
      <4> QED
        BY <4>1, <1>1
    <3>2. \A v \in Serving({"apply"})' : request'[v].application = a => v = t
      BY <1>2, <1>8 DEF Serving
    <3> QED
      BY <2>1, <3>1, <3>2, <1>2, <1>4, <1>9, <1>10 DEF ApplyInv
  <2>2. CASE u # t /\ u \in Serving({"apply"})
    <3> PICK i \in Jobs, x \in Workers :
               i = request[u].job /\ x = request[u].worker
      BY <2>2, RequestTypes DEF ApplyRequest
    <3>1. ApplyInv(u) /\ u \in Filings(i, x) /\ request[u].application # a
      BY <2>2, <1>2 DEF Filings, RequestsInv
    <3>2. <<i, x>> \notin doubled' => ~(i = j /\ x = w) /\ <<i, x>> \notin doubled
      BY <3>1, <1>1
    <3>3. ASSUME <<i, x>> \notin doubled' PROVE \A v \in Filings(i, x)' : v = u
      <4> SUFFICES ASSUME NEW v \in Filings(i, x)' PROVE v \in Filings(i, x)
        BY <2>2, <3>1, <3>2, <3>3 DEF ApplyInv
      <4>1. v # t
        BY <3>2, <3>3, <1>4, <1>9 DEF Filings
      <4> QED
        BY <4>1, <1>8 DEF Filings, Serving
    <3>4. \A v \in Serving({"apply"})' :
            request'[v].application = request[u].application => v = u
      <4> SUFFICES ASSUME NEW v \in Serving({"apply"})',
                          request'[v].application = request[u].application
                   PROVE  v = u
        OBVIOUS
      <4>1. v # t
        BY <3>1, <1>4, <1>9
      <4> QED
        BY <4>1, <3>1, <2>2, <1>8 DEF ApplyInv, Serving
    <3>5. request'[u] = request[u]
      BY <2>2, <1>8
    <3>6. /\ application[request[u].application] = NoApplication
          /\ stage[i] \in {"published", "deleted"}
          /\ <<i, x>> \notin doubled' =>
               \A b \in Applicants(i) : application[b].worker # x
      BY <2>2, <3>1, <3>2 DEF ApplyInv
    <3> QED
      BY <3>3, <3>4, <3>5, <3>6, <1>10 DEF ApplyInv
  <2>3. CASE u # t /\ u \notin Serving({"apply"})
    BY <2>3, <1>8 DEF ApplyInv
  <2> QED
    BY <2>1, <2>2, <2>3
<1> QED
  BY <1>5, <1>6, <1>7, <1>11 DEF RequestsInv

LEMMA DecideStep ==
  ASSUME IInv, NEW t \in Threads, NEW a \in Applications, NEW s \in Statuses,
         Decide(t, a, s)
  PROVE  IInv'
<1> USE DEF IInv
<1> DEFINE r == [command |-> "decide", application |-> a, status |-> s]
<1>1. Read(t, r) /\ crowded' = crowded /\ doubled' = doubled
  BY DEF Decide, overlaps
<1>2. application[a] # NoApplication /\ application[a].status = "PENDING"
  BY DEF Decide
<1>3. r \in Requests
  BY DEF Requests, DecideRequest
<1>4. r.command = "decide" /\ r.application = a
  OBVIOUS
<1> HIDE DEF r
<1>5. TypeOK' /\ BoardInv' /\ \A u \in Threads \ {t} : EditInv(u)' /\ DecideInv(u)'
  BY <1>1, <1>3, ReadKeeps DEF TypeOK
<1>6. EditInv(t)'
  BY <1>1, <1>3, <1>4, ReadFacts DEF EditInv, JobCommands
<1>7. DecideInv(t)'
  BY <1>1, <1>2, <1>3, <1>4, ReadFacts DEF DecideInv, board
<1> QED
  BY <1>1, <1>3, <1>4, <1>5, <1>6, <1>7, ReadKeepsAdditions, ReadKeepsFilings
  DEF RequestsInv

-----------------------------------------------------------------------------
(* A request that ends. *)

(* Every set of threads at work loses t, and no thread joins it. *)
LEMMA AnswerSets ==
  ASSUME TypeOK, NEW t \in Threads, NEW others \in SUBSET Threads,
         Answer(t, others)
  PROVE  /\ \A j : Additions(j)' \subseteq Additions(j)
         /\ \A j, w : Filings(j, w)' \subseteq Filings(j, w)
         /\ \A c : \A u \in Serving(c)' :
              u # t /\ u \in Serving(c) /\ request'[u] = request[u]
<1>1. \A c : \A u \in Serving(c)' :
        u # t /\ u \in Serving(c) /\ request'[u] = request[u]
  BY AnswerFacts DEF Serving
<1> QED
  BY <1>1 DEF Additions, Filings

(* The job requests that save nothing on the way of t: those of other jobs *)
(* keep what they know, those of the same job are outdated.                *)
LEMMA AnswerKeepsEdits ==
  ASSUME IInv, NEW t \in Threads, NEW j \in Jobs, Answer(t, Edits(j)),
         \A i \in Jobs \ {j} : stage'[i] = stage[i] /\ load'[i] = load[i]
  PROVE  \A u \in Threads : EditInv(u)'
<1> SUFFICES ASSUME NEW u \in Threads, u \in Serving(JobCommands)' \ outdated'
             PROVE  EditInv(u)'
  BY DEF EditInv
<1>1. TypeOK /\ EditInv(u)
  BY DEF IInv, RequestsInv
<1>2. Edits(j) \in SUBSET Threads
  BY DEF Edits, Serving
<1>3. u # t /\ u \in Serving(JobCommands) /\ request'[u] = request[u]
  BY <1>1, <1>2, AnswerSets
<1>4. u \notin Edits(j) /\ u \notin outdated
  BY <1>1, <1>2, <1>3, AnswerFacts
<1>5. request[u].job \in Jobs \ {j}
  BY <1>1, <1>3, <1>4, RequestTypes DEF Edits, JobRequest
<1>6. crowded' = crowded
  BY <1>1, <1>2, AnswerFacts DEF overlaps
<1> QED
  BY <1>1, <1>3, <1>4, <1>5, <1>6 DEF EditInv

LEMMA AnswerKeepsFilings ==
  ASSUME IInv, NEW t \in Threads, NEW others \in SUBSET Threads,
         Answer(t, others), UNCHANGED application,
         \A j \in Jobs : stage[j] \in {"published", "deleted"} =>
                          stage'[j] \in {"published", "deleted"}
  PROVE  \A u \in Threads : ApplyInv(u)'
<1> SUFFICES ASSUME NEW u \in Threads, u \in Serving({"apply"})'
             PROVE  ApplyInv(u)'
  BY DEF ApplyInv
<1>1. TypeOK /\ ApplyInv(u)
  BY DEF IInv, RequestsInv
<1>2. u # t /\ u \in Serving({"apply"}) /\ request'[u] = request[u]
  BY <1>1, AnswerSets
<1>3. request[u] \in ApplyRequest
  BY <1>1, <1>2, RequestTypes
<1>4. request[u].job \in Jobs
  BY <1>3 DEF ApplyRequest
<1>5. doubled' = doubled /\ \A j : Applicants(j)' = Applicants(j)
  BY <1>1, AnswerFacts DEF overlaps, Applicants
<1>6. stage'[request[u].job] \in {"published", "deleted"}
  BY <1>1, <1>2, <1>4 DEF ApplyInv
<1>7. \A v \in Serving({"apply"})' : v \in Serving({"apply"}) /\ request'[v] = request[v]
  BY <1>1, AnswerSets
<1>8. \A j, w : Filings(j, w)' \subseteq Filings(j, w)
  BY <1>1, AnswerSets
<1> QED
  BY <1>1, <1>2, <1>5, <1>6, <1>7, <1>8 DEF ApplyInv

LEMMA AnswerKeepsDecisions ==
  ASSUME IInv, NEW t \in Threads, NEW others \in SUBSET Threads,
         Answer(t, others), UNCHANGED application
  PROVE  \A u \in Threads : DecideInv(u)'
<1> SUFFICES ASSUME NEW u \in Threads, u \in Serving({"decide"})'
             PROVE  DecideInv(u)'
  BY DEF DecideInv
<1>1. TypeOK /\ DecideInv(u)
  BY DEF IInv, RequestsInv
<1>2. u # t /\ u \in Serving({"decide"}) /\ request'[u] = request[u]
  BY <1>1, AnswerSets
<1>3. u \notin outdated' => u \notin outdated
  BY <1>1, <1>2, AnswerFacts
<1> QED
  BY <1>1, <1>2, <1>3 DEF DecideInv

(* The additions keep what they know unless the board of their job changes. *)
LEMMA AnswerKeepsAddition ==
  ASSUME IInv, NEW t \in Threads, NEW others \in SUBSET Threads,
         Answer(t, others), NEW u \in Threads, u \in Serving({"add"}),
         stage'[request[u].job] = stage[request[u].job],
         load'[request[u].job] = load[request[u].job]
  PROVE  AddInv(u)'
<1> SUFFICES ASSUME u \in Serving({"add"})'
             PROVE  AddInv(u)'
  BY DEF AddInv
<1>1. TypeOK /\ AddInv(u)
  BY DEF IInv, RequestsInv
<1>2. request'[u] = request[u] /\ \A j : Additions(j)' \subseteq Additions(j)
  BY <1>1, AnswerSets
<1>3. crowded' = crowded
  BY <1>1, AnswerFacts DEF overlaps
<1> QED
  BY <1>1, <1>2, <1>3 DEF AddInv

LEMMA AbortStep == ASSUME IInv, NEW t \in Threads, Abort(t) PROVE IInv'
<1> USE DEF IInv
<1>1. Answer(t, {}) /\ UNCHANGED board
  BY DEF Abort
<1>2. crowded' = crowded /\ doubled' = doubled
  BY <1>1, AnswerFacts DEF overlaps
<1>3. TypeOK'
  BY <1>1, <1>2, AnswerFacts DEF TypeOK, board
<1>4. BoardInv'
  BY <1>1, <1>2, BoardUnchanged
<1>5. ASSUME NEW u \in Threads PROVE EditInv(u)'
  <2>1. EditInv(u)
    BY DEF RequestsInv
  <2> QED
    BY <2>1, <1>1, <1>2, AnswerFacts, AnswerSets DEF EditInv, board
<1>6. ASSUME NEW u \in Threads PROVE AddInv(u)'
  <2>1. CASE u \in Serving({"add"})
    BY <2>1, <1>1, AnswerKeepsAddition DEF board
  <2>2. CASE u \notin Serving({"add"})
    BY <2>2, <1>1, AnswerSets DEF AddInv
  <2> QED
    BY <2>1, <2>2
<1>7. \A u \in Threads : ApplyInv(u)'
  BY <1>1, AnswerKeepsFilings DEF board
<1>8. \A u \in Threads : DecideInv(u)'
  BY <1>1, AnswerKeepsDecisions DEF board
<1> QED
  BY <1>3, <1>4, <1>5, <1>6, <1>7, <1>8 DEF RequestsInv

(* Create, update and publish: the workload and the applications stay. *)
LEMMA SaveStep ==
  ASSUME IInv, NEW t \in Threads, SaveCreate(t) \/ SaveUpdate(t) \/ SavePublish(t)
  PROVE  IInv'
<1> USE DEF IInv
<1>1. t \in Serving(JobCommands) \ outdated
  BY DEF SaveCreate, SaveUpdate, SavePublish, Save, Serving, JobCommands
<1>2. request[t] \in JobRequest
  BY <1>1, RequestTypes
<1> PICK j \in Jobs : j = request[t].job
  BY <1>2 DEF JobRequest
<1> DEFINE c == request[t].command
<1>3. PICK s \in {"draft", "published"} :
        /\ Save(t, c, s)
        /\ c \in {"create", "update", "publish"}
        /\ c = "publish" <=> s = "published"
  BY DEF SaveCreate, SaveUpdate, SavePublish, Save, Serving
<1>4. /\ stage' = [stage EXCEPT ![j] = s]
      /\ euros' = [euros EXCEPT ![j] = request[t].euros]
      /\ open' = [open EXCEPT ![j] = request[t].open]
      /\ UNCHANGED <<load, duties, application>>
      /\ Answer(t, Edits(j))
  BY <1>3 DEF Save
<1>5. stage[j] = (IF c = "create" THEN "none" ELSE "draft")
      /\ (c = "publish" => load[j] = Full \/ j \in crowded)
  BY <1>1, <1>3 DEF EditInv, RequestsInv
<1>6. Edits(j) \in SUBSET Threads /\ crowded' = crowded /\ doubled' = doubled
  <2>1. Edits(j) \in SUBSET Threads
    BY DEF Edits, Serving
  <2> QED
    BY <2>1, <1>4, AnswerFacts DEF overlaps
<1>7. TypeOK'
  <2>1. stage' \in [Jobs -> Stages]
    BY <1>4 DEF TypeOK, Stages
  <2>2. euros' \in [Jobs -> BOOLEAN] /\ open' \in [Jobs -> BOOLEAN]
    BY <1>2, <1>4 DEF TypeOK, JobRequest
  <2>3. request' \in [Threads -> Requests \cup {NoRequest}] /\ outdated' \subseteq Threads
    BY <1>4, <1>6, AnswerFacts
  <2> QED
    BY <2>1, <2>2, <2>3, <1>4, <1>6 DEF TypeOK
<1>8. BoardInv'
  <2>1. PublishedIsComplete'
    BY <1>3, <1>4, <1>5, <1>6 DEF PublishedIsComplete, BoardInv, TypeOK
  <2>2. (WorkloadNeverAboveFull /\ NoOrphans /\ Existence)'
    BY <1>4, <1>6 DEF WorkloadNeverAboveFull, NoOrphans, Existence, BoardInv,
       TypeOK, Applicants
  <2>3. ApplicationsOnPublishedJobs'
    BY <1>4, <1>5 DEF ApplicationsOnPublishedJobs, BoardInv, TypeOK, Application
  <2>4. OneApplicationPerWorker'
    BY <1>4, <1>6 DEF OneApplicationPerWorker, BoardInv
  <2> QED
    BY <2>1, <2>2, <2>3, <2>4 DEF BoardInv
<1>9. \A u \in Threads : EditInv(u)'
  BY <1>4, AnswerKeepsEdits DEF TypeOK
<1>10. ASSUME NEW u \in Threads PROVE AddInv(u)'
  <2>1. CASE u \notin Serving({"add"})
    BY <2>1, <1>4, <1>6, AnswerSets DEF AddInv
  <2>2. CASE u \in Serving({"add"}) /\ request[u].job # j
    <3>1. request[u].job \in Jobs
      BY <2>2, RequestTypes DEF DutyRequest
    <3> QED
      BY <2>2, <3>1, <1>4, <1>6, AnswerKeepsAddition DEF TypeOK
  <2>3. CASE u \in Serving({"add"}) /\ request[u].job = j
    <3>1. AddInv(u)
      BY DEF RequestsInv
    <3>2. stage[j] = "draft"
      BY <2>3, <3>1, <1>5 DEF AddInv
    <3>3. j \notin crowded => s = "draft"
      BY <2>3, <3>1, <3>2, <1>3, <1>5, FullAssumption DEF AddInv, TypeOK
    <3>4. stage'[j] = s
      BY <1>4 DEF TypeOK
    <3>5. CASE j \notin crowded
      BY <2>3, <3>2, <3>3, <3>4, <3>5, <1>4, <1>6, AnswerKeepsAddition
    <3>6. CASE j \in crowded
      <4>1. request'[u] = request[u] \/ u \notin Serving({"add"})'
        BY <1>4, <1>6, AnswerSets
      <4> QED
        BY <4>1, <2>3, <3>1, <3>4, <3>6, <1>6 DEF AddInv
    <3> QED
      BY <3>5, <3>6
  <2> QED
    BY <2>1, <2>2, <2>3
<1>11. \A u \in Threads : ApplyInv(u)'
  BY <1>4, <1>5, <1>6, AnswerKeepsFilings DEF TypeOK
<1>12. \A u \in Threads : DecideInv(u)'
  BY <1>4, <1>6, AnswerKeepsDecisions
<1> QED
  BY <1>7, <1>8, <1>9, <1>10, <1>11, <1>12 DEF RequestsInv

LEMMA SaveDeleteStep ==
  ASSUME IInv, NEW t \in Threads, SaveDelete(t)
  PROVE  IInv'
<1> USE DEF IInv
<1>1. t \in Serving(JobCommands) \ outdated
  BY DEF SaveDelete, Serving, JobCommands
<1> PICK j \in Jobs : j = request[t].job
  BY <1>1, RequestTypes DEF JobRequest
<1>2. /\ stage' = [stage EXCEPT ![j] = "deleted"]
      /\ load' = [load EXCEPT ![j] = 0]
      /\ duties' = [duties EXCEPT ![j] = 0]
      /\ UNCHANGED <<euros, open, application>>
      /\ Applicants(j) = {}
      /\ Answer(t, Edits(j))
  BY DEF SaveDelete
<1>3. Edits(j) \in SUBSET Threads /\ crowded' = crowded /\ doubled' = doubled
  <2>1. Edits(j) \in SUBSET Threads
    BY DEF Edits, Serving
  <2> QED
    BY <2>1, <1>2, AnswerFacts DEF overlaps
<1>4. TypeOK'
  BY <1>2, <1>3, AnswerFacts DEF TypeOK, Stages
<1>5. BoardInv'
  <2>1. (PublishedIsComplete /\ WorkloadNeverAboveFull /\ Existence)'
    BY <1>2, <1>3, FullAssumption DEF PublishedIsComplete,
       WorkloadNeverAboveFull, Existence, BoardInv, TypeOK
  <2>2. NoOrphans'
    BY <1>2 DEF NoOrphans, Applicants, BoardInv, TypeOK
  <2>3. ApplicationsOnPublishedJobs'
    BY <1>2 DEF ApplicationsOnPublishedJobs, Applicants, BoardInv, TypeOK,
       Application
  <2>4. OneApplicationPerWorker'
    BY <1>2, <1>3 DEF OneApplicationPerWorker, BoardInv
  <2> QED
    BY <2>1, <2>2, <2>3, <2>4 DEF BoardInv
<1>6. \A u \in Threads : EditInv(u)'
  BY <1>2, AnswerKeepsEdits DEF TypeOK
<1>7. ASSUME NEW u \in Threads PROVE AddInv(u)'
  <2>1. CASE u \notin Serving({"add"})
    BY <2>1, <1>2, <1>3, AnswerSets DEF AddInv
  <2>2. CASE u \in Serving({"add"}) /\ request[u].job # j
    <3>1. request[u].job \in Jobs
      BY <2>2, RequestTypes DEF DutyRequest
    <3> QED
      BY <2>2, <3>1, <1>2, <1>3, AnswerKeepsAddition DEF TypeOK
  <2>3. CASE u \in Serving({"add"}) /\ request[u].job = j
    <3>1. AddInv(u) /\ stage'[j] = "deleted"
      BY <1>2 DEF RequestsInv, TypeOK
    <3>2. request'[u] = request[u] \/ u \notin Serving({"add"})'
      BY <1>2, <1>3, AnswerSets
    <3>3. Additions(j)' \subseteq Additions(j)
      BY <1>2, <1>3, AnswerSets
    <3> QED
      BY <2>3, <3>1, <3>2, <3>3, <1>3 DEF AddInv
  <2> QED
    BY <2>1, <2>2, <2>3
<1>8. \A u \in Threads : ApplyInv(u)'
  BY <1>2, <1>3, AnswerKeepsFilings DEF TypeOK
<1>9. \A u \in Threads : DecideInv(u)'
  BY <1>2, <1>3, AnswerKeepsDecisions
<1> QED
  BY <1>4, <1>5, <1>6, <1>7, <1>8, <1>9 DEF RequestsInv

LEMMA SaveDutyStep ==
  ASSUME IInv, NEW t \in Threads, SaveDuty(t)
  PROVE  IInv'
<1> USE DEF IInv
<1>1. t \in Serving({"add"}) /\ AddInv(t)
  BY DEF SaveDuty, RequestsInv
<1> PICK j \in Jobs, p \in 0..Full : j = request[t].job /\ p = request[t].percentage
  BY <1>1, RequestTypes DEF AddInv, DutyRequest
<1>2. /\ stage[j] # "deleted"
      /\ load' = [load EXCEPT ![j] = @ + p]
      /\ duties' = [duties EXCEPT ![j] = @ + 1]
      /\ UNCHANGED <<stage, euros, open, application>>
      /\ Answer(t, {})
  BY DEF SaveDuty
<1>3. /\ stage[j] # "none" /\ load[j] \in Nat /\ duties[j] \in Nat
      /\ j \notin crowded =>
           stage[j] = "draft" /\ load[j] < Full /\ load[j] + p <= Full
  BY <1>1, <1>2 DEF AddInv, TypeOK
<1>4. load[j] + p \in Nat /\ duties[j] + 1 \in Nat
  BY <1>3, FullAssumption
<1>5. crowded' = crowded /\ doubled' = doubled
  BY <1>2, AnswerFacts DEF overlaps
<1>6. TypeOK'
  <2>1. load' \in [Jobs -> Nat] /\ duties' \in [Jobs -> Nat]
    BY <1>2, <1>4 DEF TypeOK
  <2> QED
    BY <2>1, <1>2, <1>5, AnswerFacts DEF TypeOK
<1>7. BoardInv'
  <2>1. PublishedIsComplete'
    BY <1>2, <1>3, <1>5 DEF PublishedIsComplete, BoardInv, TypeOK
  <2>2. WorkloadNeverAboveFull'
    BY <1>2, <1>3, <1>5 DEF WorkloadNeverAboveFull, BoardInv, TypeOK
  <2>3. NoOrphans' /\ Existence'
    BY <1>2, <1>3 DEF NoOrphans, Existence, Applicants, BoardInv, TypeOK
  <2>4. (ApplicationsOnPublishedJobs /\ OneApplicationPerWorker)'
    BY <1>2, <1>5 DEF ApplicationsOnPublishedJobs, OneApplicationPerWorker, BoardInv
  <2> QED
    BY <2>1, <2>2, <2>3, <2>4 DEF BoardInv
<1>8. ASSUME NEW u \in Threads PROVE EditInv(u)'
  <2> SUFFICES ASSUME u \in Serving(JobCommands)' \ outdated' PROVE EditInv(u)'
    BY DEF EditInv
  <2>1. u \in Serving(JobCommands) \ outdated /\ request'[u] = request[u]
    BY <1>2, AnswerSets, AnswerFacts
  <2>2. EditInv(u) /\ request[u].job \in Jobs
    BY <2>1, RequestTypes DEF RequestsInv, JobRequest
  <2>3. request[u].command = "publish" /\ request[u].job = j => j \in crowded
    BY <2>1, <2>2, <1>3, FullAssumption DEF EditInv
  <2> QED
    BY <2>1, <2>2, <2>3, <1>2, <1>5 DEF EditInv, TypeOK
<1>9. ASSUME NEW u \in Threads PROVE AddInv(u)'
  <2> SUFFICES ASSUME u \in Serving({"add"})' PROVE AddInv(u)'
    BY DEF AddInv
  <2>1. u # t /\ u \in Serving({"add"}) /\ request'[u] = request[u] /\ AddInv(u)
    BY <1>2, AnswerSets DEF RequestsInv
  <2>2. request[u].job \in Jobs
    BY <2>1, RequestTypes DEF DutyRequest
  <2>3. CASE request[u].job # j
    BY <2>1, <2>2, <2>3, <1>2, AnswerKeepsAddition DEF TypeOK
  <2>4. CASE request[u].job = j
    <3>1. t \in Additions(j)
      BY <1>1 DEF Additions
    <3>2. j \in crowded
      BY <3>1, <2>1, <2>4 DEF AddInv
    <3> QED
      BY <3>2, <2>1, <2>4, <1>2, <1>5 DEF AddInv
  <2> QED
    BY <2>3, <2>4
<1>10. \A u \in Threads : ApplyInv(u)'
  BY <1>2, AnswerKeepsFilings
<1>11. \A u \in Threads : DecideInv(u)'
  BY <1>2, AnswerKeepsDecisions
<1> QED
  BY <1>6, <1>7, <1>8, <1>9, <1>10, <1>11 DEF RequestsInv

(* What a step that only changes applications keeps of the edits and       *)
(* additions, whoever else it makes outdated.                              *)
LEMMA ApplicationsAside ==
  ASSUME IInv, NEW t \in Threads, NEW others \in SUBSET Threads,
         Answer(t, others), UNCHANGED <<stage, load>>
  PROVE  \A u \in Threads : EditInv(u)' /\ AddInv(u)'
<1> SUFFICES ASSUME NEW u \in Threads PROVE EditInv(u)' /\ AddInv(u)'
  OBVIOUS
<1>1. TypeOK /\ EditInv(u)
  BY DEF IInv, RequestsInv
<1>2. EditInv(u)'
  <2> SUFFICES ASSUME u \in Serving(JobCommands)' \ outdated' PROVE EditInv(u)'
    BY DEF EditInv
  <2>1. u \in Serving(JobCommands) \ outdated /\ request'[u] = request[u]
    BY <1>1, AnswerSets, AnswerFacts
  <2> QED
    BY <2>1, <1>1, AnswerFacts DEF EditInv, overlaps
<1>3. AddInv(u)'
  <2>1. CASE u \in Serving({"add"})
    BY <2>1, AnswerKeepsAddition
  <2>2. CASE u \notin Serving({"add"})
    BY <2>2, <1>1, AnswerSets DEF AddInv
  <2> QED
    BY <2>1, <2>2
<1> QED
  BY <1>2, <1>3

LEMMA SaveApplicationStep ==
  ASSUME IInv, NEW t \in Threads, SaveApplication(t)
  PROVE  IInv'
<1> USE DEF IInv
<1>1. t \in Serving({"apply"}) /\ ApplyInv(t) /\ request[t] \in ApplyRequest
  BY RequestTypes DEF SaveApplication, RequestsInv
<1> PICK a \in Applications, j \in Jobs, w \in Workers :
           a = request[t].application /\ j = request[t].job /\ w = request[t].worker
  BY <1>1 DEF ApplyRequest
<1> DEFINE filed == [job |-> j, worker |-> w, status |-> "PENDING"]
<1>2. /\ stage[j] # "deleted"
      /\ application' = [application EXCEPT ![a] = filed]
      /\ UNCHANGED <<stage, load, duties, euros, open>>
      /\ Answer(t, {})
  BY DEF SaveApplication
<1>3. /\ application[a] = NoApplication
      /\ stage[j] = "published"
      /\ <<j, w>> \notin doubled =>
           \A b \in Applicants(j) : application[b].worker # w
  BY <1>1, <1>2 DEF ApplyInv
<1>4. filed \in Application /\ filed # NoApplication
  BY NoApplicationAssumption DEF Application, Statuses
<1>5. filed.job = j /\ filed.worker = w
  OBVIOUS
<1> HIDE DEF filed
<1>6. crowded' = crowded /\ doubled' = doubled
  BY <1>2, AnswerFacts DEF overlaps
<1>7. TypeOK'
  <2>1. application' \in [Applications -> Application \cup {NoApplication}]
    BY <1>2, <1>4 DEF TypeOK
  <2> QED
    BY <2>1, <1>2, <1>6, AnswerFacts DEF TypeOK
<1>8. /\ application'[a] = filed
      /\ \A b \in Applications \ {a} : application'[b] = application[b]
  BY <1>2 DEF TypeOK
<1>9. BoardInv'
  <2>1. (PublishedIsComplete /\ WorkloadNeverAboveFull /\ Existence)'
    BY <1>2, <1>6 DEF PublishedIsComplete, WorkloadNeverAboveFull, Existence, BoardInv
  <2>2. ApplicationsOnPublishedJobs'
    BY <1>2, <1>3, <1>5, <1>8 DEF ApplicationsOnPublishedJobs, BoardInv
  <2>3. NoOrphans'
    BY <1>2, <1>3, <1>5, <1>8 DEF NoOrphans, Applicants, BoardInv
  <2>4. OneApplicationPerWorker'
    <3> SUFFICES ASSUME NEW x \in Applications, NEW y \in Applications, x # y,
                        application'[x] # NoApplication,
                        application'[y] # NoApplication,
                        <<application'[x].job, application'[x].worker>> \notin doubled',
                        application'[x].job = application'[y].job,
                        application'[x].worker = application'[y].worker
                 PROVE  FALSE
      BY DEF OneApplicationPerWorker
    <3>1. CASE x # a /\ y # a
      BY <3>1, <1>6, <1>8 DEF OneApplicationPerWorker, BoardInv
    <3>2. CASE x = a
      <4>1. y \in Applicants(j) /\ application'[y] = application[y]
        BY <3>2, <1>5, <1>8 DEF Applicants
      <4> QED
        BY <3>2, <4>1, <1>3, <1>5, <1>6, <1>8
    <3>3. CASE y = a
      <4>1. x \in Applicants(j) /\ application'[x] = application[x]
        BY <3>3, <1>5, <1>8 DEF Applicants
      <4> QED
        BY <3>3, <4>1, <1>3, <1>5, <1>6, <1>8
    <3> QED
      BY <3>1, <3>2, <3>3
  <2> QED
    BY <2>1, <2>2, <2>3, <2>4 DEF BoardInv
<1>10. \A u \in Threads : EditInv(u)' /\ AddInv(u)'
  BY <1>2, ApplicationsAside
<1>11. ASSUME NEW u \in Threads PROVE ApplyInv(u)'
  <2> SUFFICES ASSUME u \in Serving({"apply"})' PROVE ApplyInv(u)'
    BY DEF ApplyInv
  <2>1. u # t /\ u \in Serving({"apply"}) /\ request'[u] = request[u] /\ ApplyInv(u)
    BY <1>2, AnswerSets DEF RequestsInv
  <2> PICK b \in Applications, i \in Jobs, x \in Workers :
             b = request[u].application /\ i = request[u].job /\ x = request[u].worker
    BY <2>1, RequestTypes DEF ApplyRequest
  <2>2. b # a
    BY <2>1, <1>1 DEF ApplyInv
  <2>3. ~(i = j /\ x = w) \/ <<i, x>> \in doubled
    BY <2>1, <1>1 DEF ApplyInv, Filings
  <2>4. /\ \A v \in Serving({"apply"})' :
             v \in Serving({"apply"}) /\ request'[v] = request[v]
        /\ Filings(i, x)' \subseteq Filings(i, x)
    BY <1>2, AnswerSets
  <2>5. ASSUME <<i, x>> \notin doubled, NEW y \in Applicants(i)'
        PROVE  application'[y].worker # x
    <3>1. CASE y = a
      BY <3>1, <2>3, <2>5, <1>5, <1>8 DEF Applicants
    <3>2. CASE y # a
      BY <3>2, <2>1, <2>5, <1>8 DEF ApplyInv, Applicants
    <3> QED
      BY <3>1, <3>2
  <2> QED
    BY <2>1, <2>2, <2>4, <2>5, <1>2, <1>6, <1>8 DEF ApplyInv
<1>12. ASSUME NEW u \in Threads PROVE DecideInv(u)'
  <2> SUFFICES ASSUME u \in Serving({"decide"})' PROVE DecideInv(u)'
    BY DEF DecideInv
  <2>1. u # t /\ u \in Serving({"decide"}) /\ request'[u] = request[u]
    BY <1>2, AnswerSets
  <2>2. DecideInv(u) /\ request[u].application \in Applications
    BY <2>1, RequestTypes DEF RequestsInv, DecideRequest
  <2>3. request[u].application # a /\ (u \notin outdated' => u \notin outdated)
    BY <2>1, <2>2, <1>2, <1>3, AnswerFacts DEF DecideInv
  <2> QED
    BY <2>1, <2>2, <2>3, <1>8 DEF DecideInv
<1> QED
  BY <1>7, <1>9, <1>10, <1>11, <1>12 DEF RequestsInv

LEMMA SaveDecisionStep ==
  ASSUME IInv, NEW t \in Threads, SaveDecision(t)
  PROVE  IInv'
<1> USE DEF IInv
<1>1. t \in Serving({"decide"}) \ outdated /\ DecideInv(t) /\ request[t] \in DecideRequest
  BY RequestTypes DEF SaveDecision, RequestsInv
<1> PICK a \in Applications, s \in Statuses :
           a = request[t].application /\ s = request[t].status
  BY <1>1 DEF DecideRequest
<1>2. /\ application' = [application EXCEPT ![a].status = s]
      /\ UNCHANGED <<stage, load, duties, euros, open>>
      /\ Answer(t, Decisions(a))
      /\ Decisions(a) \in SUBSET Threads
  BY DEF SaveDecision, Decisions, Serving
<1>3. application[a] \in Application /\ application[a] # NoApplication
  BY <1>1 DEF DecideInv, TypeOK
<1>4. /\ application'[a] \in Application /\ application'[a] # NoApplication
      /\ application'[a].job = application[a].job
      /\ application'[a].worker = application[a].worker
  BY <1>2, <1>3, NoApplicationAssumption DEF Application, TypeOK
<1>5. \A b \in Applications : b # a => application'[b] = application[b]
  BY <1>2 DEF TypeOK
<1>6. crowded' = crowded /\ doubled' = doubled
  BY <1>2, AnswerFacts DEF overlaps
<1>7. TypeOK'
  <2>1. application' \in [Applications -> Application \cup {NoApplication}]
    BY <1>2, <1>4, <1>5 DEF TypeOK
  <2> QED
    BY <2>1, <1>2, <1>6, AnswerFacts DEF TypeOK
<1>8. \A j : Applicants(j)' = Applicants(j)
  BY <1>3, <1>4, <1>5 DEF Applicants
<1>9. BoardInv'
  <2>1. (PublishedIsComplete /\ WorkloadNeverAboveFull /\ Existence /\ NoOrphans)'
    BY <1>2, <1>6, <1>8 DEF PublishedIsComplete, WorkloadNeverAboveFull, Existence,
       NoOrphans, BoardInv
  <2>2. (ApplicationsOnPublishedJobs /\ OneApplicationPerWorker)'
    BY <1>2, <1>3, <1>4, <1>5, <1>6 DEF ApplicationsOnPublishedJobs,
       OneApplicationPerWorker, BoardInv
  <2> QED
    BY <2>1, <2>2 DEF BoardInv
<1>10. \A u \in Threads : EditInv(u)' /\ AddInv(u)'
  BY <1>2, ApplicationsAside
<1>11. ASSUME NEW u \in Threads PROVE ApplyInv(u)'
  <2> SUFFICES ASSUME u \in Serving({"apply"})' PROVE ApplyInv(u)'
    BY DEF ApplyInv
  <2>1. u # t /\ u \in Serving({"apply"}) /\ request'[u] = request[u] /\ ApplyInv(u)
    BY <1>2, AnswerSets DEF RequestsInv
  <2> PICK b \in Applications, i \in Jobs, x \in Workers :
             b = request[u].application /\ i = request[u].job /\ x = request[u].worker
    BY <2>1, RequestTypes DEF ApplyRequest
  <2>2. b # a
    BY <2>1, <1>3 DEF ApplyInv
  <2>3. /\ \A v \in Serving({"apply"})' :
             v \in Serving({"apply"}) /\ request'[v] = request[v]
        /\ Filings(i, x)' \subseteq Filings(i, x)
    BY <1>2, AnswerSets
  <2>4. \A y \in Applications : application'[y].worker = application[y].worker
    BY <1>4, <1>5
  <2>5. Applicants(i) \subseteq Applications
    BY DEF Applicants
  <2> QED
    BY <2>1, <2>2, <2>3, <2>4, <2>5, <1>2, <1>5, <1>6, <1>8 DEF ApplyInv
<1>12. ASSUME NEW u \in Threads PROVE DecideInv(u)'
  <2> SUFFICES ASSUME u \in Serving({"decide"})' PROVE DecideInv(u)'
    BY DEF DecideInv
  <2>1. u # t /\ u \in Serving({"decide"}) /\ request'[u] = request[u]
    BY <1>2, AnswerSets
  <2>2. DecideInv(u) /\ request[u].application \in Applications
    BY <2>1, RequestTypes DEF RequestsInv, DecideRequest
  <2>3. u \notin outdated' => u \notin outdated /\ request[u].application # a
    BY <2>1, <2>2, <1>2, AnswerFacts DEF Decisions
  <2> QED
    BY <2>1, <2>2, <2>3, <1>4, <1>5 DEF DecideInv
<1> QED
  BY <1>7, <1>9, <1>10, <1>11, <1>12 DEF RequestsInv

(* Deadlines say nothing about the rest of the board. *)
LEMMA DeadlineStep ==
  ASSUME IInv, NEW j \in Jobs, DeadlinePasses(j)
  PROVE  IInv'
<1> USE DEF IInv
<1>1. /\ open' = [open EXCEPT ![j] = FALSE]
      /\ UNCHANGED <<stage, load, duties, euros, application, request, outdated,
                     crowded, doubled>>
  BY DEF DeadlinePasses, overlaps
<1>2. TypeOK'
  BY <1>1 DEF TypeOK
<1>3. BoardInv'
  BY <1>1 DEF BoardInv, PublishedIsComplete, WorkloadNeverAboveFull, NoOrphans,
     ApplicationsOnPublishedJobs, OneApplicationPerWorker, Existence, Applicants
<1>4. RequestsInv'
  BY <1>1 DEF RequestsInv, EditInv, AddInv, ApplyInv, DecideInv, Serving,
     Additions, Filings, Applicants
<1> QED
  BY <1>2, <1>3, <1>4

LEMMA NextInv == IInv /\ [Next]_vars => IInv'
<1> SUFFICES ASSUME IInv, [Next]_vars PROVE IInv'
  OBVIOUS
<1>1. CASE UNCHANGED vars
  BY <1>1 DEF vars, board, overlaps, IInv, TypeOK, BoardInv, RequestsInv,
     PublishedIsComplete, WorkloadNeverAboveFull, NoOrphans,
     ApplicationsOnPublishedJobs, OneApplicationPerWorker, Existence,
     EditInv, AddInv, ApplyInv, DecideInv, Applicants, Serving, Additions, Filings
<1>2. CASE Next
  BY <1>2, ReadJobStep, AddDutyStep, ApplyStep, DecideStep, AbortStep, SaveStep,
     SaveDeleteStep, SaveDutyStep, SaveApplicationStep, SaveDecisionStep,
     DeadlineStep DEF Next
<1> QED
  BY <1>1, <1>2

-----------------------------------------------------------------------------
(* The theorems. *)

(* Every reachable state is typed, and every request on its way still      *)
(* knows the truth about what it is going to save.                         *)
THEOREM Invariance == Spec => []IInv
BY InitInv, NextInv, PTL DEF Spec

(* Every variable of the board keeps to its type. *)
THEOREM TypeCorrect == Spec => []TypeOK
BY Invariance, PTL DEF IInv

(* A published job has a workload of exactly 100 per cent, however many    *)
(* requests are on their way, unless two were adding duties to it at once. *)
THEOREM Completeness == Spec => []PublishedIsComplete
<1>1. IInv => PublishedIsComplete
  BY DEF IInv, BoardInv
<1> QED
  BY <1>1, Invariance, PTL

(* No workload exceeds 100 per cent unless two requests were adding duties *)
(* to the job at once.                                                     *)
THEOREM WorkloadBound == Spec => []WorkloadNeverAboveFull
<1>1. IInv => WorkloadNeverAboveFull
  BY DEF IInv, BoardInv
<1> QED
  BY <1>1, Invariance, PTL

(* Deleting a job leaves neither duties nor applications behind. *)
THEOREM CleanDeletion == Spec => []NoOrphans
<1>1. IInv => NoOrphans
  BY DEF IInv, BoardInv
<1> QED
  BY <1>1, Invariance, PTL

(* Every application is for a job that is published. *)
THEOREM ApplicationsArePublished == Spec => []ApplicationsOnPublishedJobs
<1>1. IInv => ApplicationsOnPublishedJobs
  BY DEF IInv, BoardInv
<1> QED
  BY <1>1, Invariance, PTL

(* No worker has two applications for a job unless two of his requests     *)
(* were filing them at once.                                               *)
THEOREM NoDoubleApplication == Spec => []OneApplicationPerWorker
<1>1. IInv => OneApplicationPerWorker
  BY DEF IInv, BoardInv
<1> QED
  BY <1>1, Invariance, PTL

-----------------------------------------------------------------------------
(* What a step may do to the board, action by action. *)

(* Reading changes nothing but what is said of overlaps. *)
LEMMA ReadsMap ==
  ASSUME IInv, NEW t \in Threads, NEW j \in Jobs,
         \/ Create(t, j) \/ Update(t, j) \/ Publish(t, j) \/ Delete(t, j)
         \/ \E p \in Percentages : AddDuty(t, j, p)
         \/ \E a \in Applications, w \in Workers : Apply(t, a, j, w)
  PROVE  Board!Overlap
<1>1. UNCHANGED <<stage, load, duties, euros, open, application>>
  BY DEF Create, Update, Publish, Delete, ReadJob, AddDuty, ReadDuty, Apply,
     ReadApplication, Read, board
<1>2. crowded \subseteq crowded' /\ doubled \subseteq doubled'
  BY DEF Create, Update, Publish, Delete, ReadJob, AddDuty, ReadDuty, Apply,
     ReadApplication, overlaps
<1>3. IInv'
  BY ReadJobStep, AddDutyStep, ApplyStep
<1> QED
  BY <1>1, <1>2, <1>3 DEF IInv, TypeOK, Board!Overlap

LEMMA SaveMaps ==
  ASSUME IInv, NEW t \in Threads, SaveCreate(t) \/ SaveUpdate(t) \/ SavePublish(t)
  PROVE  \E j \in Jobs : Board!Create(j) \/ Board!Update(j) \/ Board!Publish(j)
<1>1. t \in Serving(JobCommands) \ outdated /\ EditInv(t) /\ TypeOK
  BY DEF SaveCreate, SaveUpdate, SavePublish, Save, Serving, JobCommands, IInv,
     RequestsInv
<1>2. request[t] \in JobRequest
  BY <1>1, RequestTypes
<1> PICK j \in Jobs, e \in BOOLEAN, o \in BOOLEAN :
           j = request[t].job /\ e = request[t].euros /\ o = request[t].open
  BY <1>2 DEF JobRequest
<1> DEFINE c == request[t].command
<1>3. PICK s \in {"draft", "published"} :
        /\ Save(t, c, s)
        /\ c \in {"create", "update", "publish"}
        /\ c = "publish" <=> s = "published"
  BY DEF SaveCreate, SaveUpdate, SavePublish, Save, Serving
<1>4. /\ stage' = [stage EXCEPT ![j] = s]
      /\ euros' = [euros EXCEPT ![j] = e]
      /\ open' = [open EXCEPT ![j] = o]
      /\ UNCHANGED <<load, duties, application>>
      /\ UNCHANGED Board!overlaps
  BY <1>3 DEF Save, Answer, overlaps, Board!overlaps
<1>5. CASE c = "create"
  <2>1. stage[j] = "none" /\ e = TRUE /\ o = TRUE /\ s = "draft"
    BY <1>1, <1>3, <1>5 DEF EditInv
  <2> QED
    BY <1>4, <2>1 DEF Board!Create, Board!Edit
<1>6. CASE c = "update"
  <2>1. stage[j] = "draft" /\ e = TRUE /\ o = TRUE /\ s = "draft"
    BY <1>1, <1>3, <1>6 DEF EditInv
  <2> QED
    BY <1>4, <2>1 DEF Board!Update, Board!Edit
<1>7. CASE c = "publish"
  <2>1. stage[j] = "draft" /\ (load[j] = Full \/ j \in crowded) /\ s = "published"
    BY <1>1, <1>3, <1>7 DEF EditInv
  <2> QED
    BY <1>4, <2>1 DEF Board!Publish, Board!Edit
<1> QED
  BY <1>3, <1>5, <1>6, <1>7

LEMMA SaveDeleteMaps ==
  ASSUME IInv, NEW t \in Threads, SaveDelete(t)
  PROVE  \E j \in Jobs : Board!Delete(j)
<1>1. t \in Serving(JobCommands) \ outdated /\ EditInv(t) /\ TypeOK
      /\ request[t].command = "delete"
  BY DEF SaveDelete, Serving, JobCommands, IInv, RequestsInv
<1>2. request[t].job \in Jobs /\ stage[request[t].job] \in {"draft", "published"}
  BY <1>1, RequestTypes DEF EditInv, JobRequest
<1>3. Board!Delete(request[t].job)
  BY <1>2 DEF SaveDelete, Answer, Board!Delete, Applicants, Board!Applicants,
     overlaps, Board!overlaps
<1> QED
  BY <1>2, <1>3

LEMMA SaveDutyMaps ==
  ASSUME IInv, NEW t \in Threads, SaveDuty(t)
  PROVE  \E j \in Jobs : \E p \in 0..Full : Board!AddDuty(j, p)
<1>1. t \in Serving({"add"}) /\ AddInv(t) /\ TypeOK
  BY DEF SaveDuty, IInv, RequestsInv
<1> PICK j \in Jobs, p \in 0..Full : j = request[t].job /\ p = request[t].percentage
  BY <1>1, RequestTypes DEF AddInv, DutyRequest
<1>2. \/ stage[j] = "draft" /\ load[j] < Full /\ load[j] + p <= Full
      \/ stage[j] \in {"draft", "published"} /\ j \in crowded
  BY <1>1 DEF AddInv, SaveDuty, TypeOK, Stages
<1>3. Board!AddDuty(j, p)
  BY <1>2 DEF SaveDuty, Answer, Board!AddDuty, overlaps, Board!overlaps
<1> QED
  BY <1>3

LEMMA SaveApplicationMaps ==
  ASSUME IInv, NEW t \in Threads, SaveApplication(t)
  PROVE  \E j \in Jobs : \E a \in Applications, w \in Workers : Board!Apply(a, j, w)
<1>1. t \in Serving({"apply"}) /\ ApplyInv(t) /\ TypeOK
  BY DEF SaveApplication, IInv, RequestsInv
<1> PICK a \in Applications, j \in Jobs, w \in Workers :
           a = request[t].application /\ j = request[t].job /\ w = request[t].worker
  BY <1>1, RequestTypes DEF ApplyRequest
<1>2. /\ application[a] = NoApplication /\ stage[j] = "published"
      /\ (\A b \in Applicants(j) : application[b].worker # w) \/ <<j, w>> \in doubled
  BY <1>1 DEF ApplyInv, SaveApplication
<1>3. Board!Apply(a, j, w)
  BY <1>2 DEF SaveApplication, Answer, Board!Apply, Applicants, Board!Applicants,
     overlaps, Board!overlaps
<1> QED
  BY <1>3

LEMMA SaveDecisionMaps ==
  ASSUME IInv, NEW t \in Threads, SaveDecision(t)
  PROVE  \E a \in Applications, s \in Statuses : Board!Decide(a, s)
<1>1. /\ t \in Serving({"decide"}) \ outdated /\ DecideInv(t)
      /\ request[t] \in DecideRequest
  BY RequestTypes DEF SaveDecision, IInv, RequestsInv
<1>2. request[t].application \in Applications /\ request[t].status \in Statuses
  BY <1>1 DEF DecideRequest
<1>3. Board!Decide(request[t].application, request[t].status)
  BY <1>1 DEF DecideInv, SaveDecision, Answer, Board!Decide, overlaps, Board!overlaps
<1> QED
  BY <1>2, <1>3

LEMMA NextMaps ==
  ASSUME IInv, [Next]_vars
  PROVE  [Board!Next]_(Board!board)
<1>1. UNCHANGED vars => UNCHANGED Board!board
  BY DEF vars, board, overlaps, Board!board, Board!overlaps
<1>2. ASSUME NEW t \in Threads, Abort(t) PROVE UNCHANGED Board!board
  BY <1>2 DEF Abort, Answer, board, overlaps, Board!board, Board!overlaps
<1>3. ASSUME NEW j \in Jobs, DeadlinePasses(j) PROVE Board!DeadlinePasses(j)
  BY <1>3 DEF DeadlinePasses, Board!DeadlinePasses, overlaps, Board!overlaps
<1>4. ASSUME NEW t \in Threads, NEW a \in Applications, NEW s \in Statuses,
             Decide(t, a, s)
      PROVE  Board!Overlap
  BY <1>4 DEF Decide, Read, board, overlaps, Board!Overlap, IInv, TypeOK
<1>5. ASSUME Next, ~UNCHANGED Board!board PROVE Board!Next
  BY <1>2, <1>3, <1>4, <1>5, ReadsMap, SaveMaps, SaveDeleteMaps, SaveDutyMaps,
     SaveApplicationMaps, SaveDecisionMaps DEF Next, Board!Next, Statuses
<1> QED
  BY <1>1, <1>5

(* The board behaves as if every service read and saved in one instant,    *)
(* although each decides on a snapshot older than its commit and any       *)
(* number of requests overlap, except for the sums of crowded jobs and the *)
(* applications of doubled pairs.                                          *)
THEOREM ImplementsBoard == Spec => ImplementsAtomicBoard
<1>1. Init => Board!Init
  BY DEF Init, Board!Init
<1> QED
  BY <1>1, NextMaps, Invariance, PTL DEF Spec, ImplementsAtomicBoard, Board!Spec

-----------------------------------------------------------------------------
(* Action properties, from what the atomic board may do. *)

(* What was published does not change, however late an update arrives; nor *)
(* do its duties, unless two requests were adding them at once.            *)
THEOREM Frozen == Spec => PublishedIsFrozen
<1> DEFINE Keeps(j) ==
      stage[j] = "published" =>
        \/ stage'[j] = "deleted"
        \/ /\ stage'[j] = "published"
           /\ euros'[j] = euros[j] /\ open'[j] \in {open[j], FALSE}
           /\ j \notin crowded => duties'[j] = duties[j] /\ load'[j] = load[j]
<1>1. ASSUME IInv, Board!Next PROVE \A j \in Jobs : Keeps(j)
  <2> SUFFICES ASSUME NEW j \in Jobs PROVE Keeps(j)
    OBVIOUS
  <2>1. ASSUME NEW i \in Jobs,
               Board!Create(i) \/ Board!Update(i) \/ Board!Publish(i)
        PROVE  Keeps(j)
    BY <1>1, <2>1
    DEF IInv, TypeOK, Board!Create, Board!Update, Board!Publish, Board!Edit
  <2>2. ASSUME NEW i \in Jobs, Board!Delete(i) PROVE Keeps(j)
    BY <1>1, <2>2 DEF IInv, TypeOK, Board!Delete
  <2>3. ASSUME NEW i \in Jobs, NEW p \in 0..Full, Board!AddDuty(i, p)
        PROVE  Keeps(j)
    BY <1>1, <2>3 DEF IInv, TypeOK, Board!AddDuty
  <2>4. ASSUME NEW i \in Jobs, Board!DeadlinePasses(i) PROVE Keeps(j)
    BY <1>1, <2>4 DEF IInv, TypeOK, Board!DeadlinePasses
  <2>5. ASSUME NEW a \in Applications, NEW i \in Jobs, NEW w \in Workers,
               Board!Apply(a, i, w)
        PROVE  Keeps(j)
    BY <2>5 DEF Board!Apply
  <2>6. ASSUME NEW a \in Applications, NEW s, Board!Decide(a, s) PROVE Keeps(j)
    BY <2>6 DEF Board!Decide
  <2>7. Board!Overlap => Keeps(j)
    BY DEF Board!Overlap
  <2> QED
    BY <1>1, <2>1, <2>2, <2>3, <2>4, <2>5, <2>6, <2>7 DEF Board!Next
<1>2. ASSUME IInv, [Next]_vars
      PROVE  [\A j \in Jobs : Keeps(j)]_vars
  BY <1>1, <1>2, NextMaps DEF Board!board
<1> QED
  BY <1>2, Invariance, PTL DEF Spec, PublishedIsFrozen

(* A decision is never taken back and never moves to another worker, also  *)
(* when several requests decide on one application at once.                *)
THEOREM Decided == Spec => DecisionIsFinal
<1> DEFINE Keeps(a) ==
      application[a] # NoApplication =>
        /\ application'[a] # NoApplication
        /\ application'[a].job = application[a].job
        /\ application'[a].worker = application[a].worker
        /\ application[a].status # "PENDING" =>
             application'[a].status = application[a].status
<1>1. ASSUME IInv, Board!Next PROVE \A a \in Applications : Keeps(a)
  <2> SUFFICES ASSUME NEW a \in Applications PROVE Keeps(a)
    OBVIOUS
  <2>1. CASE UNCHANGED application
    BY <2>1
  <2>2. ASSUME NEW b \in Applications, NEW i \in Jobs, NEW w \in Workers,
               Board!Apply(b, i, w)
        PROVE  Keeps(a)
    BY <1>1, <2>2 DEF IInv, TypeOK, Board!Apply
  <2>3. ASSUME NEW b \in Applications, NEW s \in Statuses, Board!Decide(b, s)
        PROVE  Keeps(a)
    <3>1. CASE a # b
      BY <1>1, <2>3, <3>1 DEF IInv, TypeOK, Board!Decide
    <3>2. CASE a = b
      <4>1. application[b] \in Application
        BY <1>1, <2>3 DEF IInv, TypeOK, Board!Decide
      <4>2. application'[b] = [application[b] EXCEPT !.status = s]
        BY <1>1, <2>3 DEF IInv, TypeOK, Board!Decide
      <4>3. application'[b] \in Application
        BY <4>1, <4>2 DEF Application
      <4> QED
        BY <2>3, <3>2, <4>1, <4>2, <4>3, NoApplicationAssumption
        DEF Application, Board!Decide
    <3> QED
      BY <3>1, <3>2
  <2> QED
    BY <1>1, <2>1, <2>2, <2>3
    DEF Board!Next, Statuses, Board!Create, Board!Update, Board!Publish,
        Board!Edit, Board!Delete, Board!AddDuty, Board!DeadlinePasses, Board!Overlap
<1>2. ASSUME IInv, [Next]_vars
      PROVE  [\A a \in Applications : Keeps(a)]_vars
  BY <1>1, <1>2, NextMaps DEF Board!board
<1> QED
  BY <1>2, Invariance, PTL DEF Spec, DecisionIsFinal
=============================================================================
