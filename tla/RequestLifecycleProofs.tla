----------------------- MODULE RequestLifecycleProofs -----------------------
(***************************************************************************)
(* What RequestLifecycle guarantees for every set of threads and           *)
(* controllers as long as each controller serves one request at a time;    *)
(* at the end, what it guarantees when requests of a controller overlap.   *)
(*                                                                         *)
(* None of the properties is inductive: each needs to know whose           *)
(* transaction the field transactionStatus refers to.  The invariant ties  *)
(* the three together, thread, field and persistence context: the field of *)
(* a controller refers to a transaction that can still be completed        *)
(* exactly while the one thread that runs the controller has it bound.     *)
(***************************************************************************)
EXTENDS RequestLifecycle, FiniteSetTheorems, TLAPS

(* The labels at which a thread has a transaction of its own, or may have. *)
MainLabels == {"dispatch", "enter", "serve", "complete", "finish"}
HookLabels == {"hook", "commitHook", "finishHook", "onFailure", "finishFailure"}
OpenLabels == MainLabels \cup HookLabels \cup {"abort", "finishAbort"}

(* The labels after which the outcome of the request is settled. *)
SettledLabels ==
  {"forget", "restart", "hook", "commitHook", "finishHook", "forgetHook", "answer"}

Exclusive ==
  \A t, u \in Threads :
    pc[t] # "idle" /\ pc[u] # "idle" /\ ctl[t] = ctl[u] => t = u

FieldInv ==
  \A c \in Controllers :
    Active(c) => /\ status[c] = Begun(status[c].owner)
                 /\ ctl[status[c].owner] = c
                 /\ bound[status[c].owner] = "active"

ContextInv(t) ==
  /\ bound[t] # "stale"
  /\ bound[t] = "active" => /\ pc[t] \in OpenLabels \cup {"catch"}
                            /\ status[ctl[t]] = Begun(t)
  /\ pc[t] \in OpenLabels => bound[t] = "active"
  /\ taken[t] \in {NoStatus, Begun(t)}
  /\ bound[t] = "none" => pending[t] = 0

OutcomeInv(t) ==
  /\ durable[t] \in {0, plan[t]}
  /\ pc[t] \in MainLabels \cup {"begin"} => durable[t] = 0 /\ pending[t] = written[t]
  /\ pc[t] \in {"begin", "dispatch", "enter"} => written[t] = 0
  /\ pc[t] \in {"begin", "dispatch", "enter", "serve"} => ~errs[t]
  /\ pc[t] \in {"complete", "finish"} => written[t] = IF errs[t] THEN 0 ELSE plan[t]
  /\ pc[t] \in SettledLabels => durable[t] = IF errs[t] THEN 0 ELSE plan[t]
  /\ pc[t] \in HookLabels => pending[t] = 0
  /\ pc[t] # "idle" => answer[t] = "none"
  /\ answer[t] = "view" => durable[t] = plan[t]
  /\ answer[t] = "form" => durable[t] = 0

IInv ==
  /\ TypeOK
  /\ Exclusive
  /\ FieldInv
  /\ leaked = {}
  /\ \A t \in Threads : ContextInv(t) /\ OutcomeInv(t)

-----------------------------------------------------------------------------
(* TypeOK is preserved by the calls of the transaction manager. *)
DatabaseType ==
  /\ pending \in [Threads -> Nat]
  /\ durable \in [Threads -> Nat]
  /\ status \in [Controllers -> Status \cup {NoStatus}]
  /\ bound \in [Threads -> {"none", "active", "stale"}]
  /\ taken \in [Threads -> Status \cup {NoStatus}]
  /\ leaked \subseteq Threads

(* A step of t that takes nothing from or puts nothing into the hands of   *)
(* other threads.                                                          *)
LEMMA HandsType ==
  ASSUME TypeOK, NEW t \in Threads, NEW label \in Labels, Goto(t, label),
         \A u \in Threads \ {t} : taken'[u] # NoStatus <=> taken[u] # NoStatus,
         taken'[t] # NoStatus <=> label \in FinishLabels
  PROVE  /\ pc' \in [Threads -> Labels]
         /\ \A u \in Threads : taken'[u] # NoStatus <=> pc'[u] \in FinishLabels
BY DEF TypeOK, Goto

LEMMA StartType ==
  ASSUME TypeOK, NEW t \in Threads, NEW next \in Labels, NEW oops \in Labels,
         StartTransaction(t, next, oops)
  PROVE  /\ DatabaseType'
         /\ taken' = taken
         /\ \E label \in {next, oops} : Goto(t, label)
<1>1. CASE UNCHANGED database /\ Goto(t, oops)
  BY <1>1 DEF TypeOK, DatabaseType, database
<1>2. CASE /\ status' = [status EXCEPT ![ctl[t]] =
                           [owner |-> t, new |-> bound[t] = "none", done |-> FALSE]]
           /\ bound' = [bound EXCEPT ![t] = "active"]
           /\ Goto(t, next)
           /\ UNCHANGED <<pending, durable, taken, leaked>>
  <2>1. [owner |-> t, new |-> bound[t] = "none", done |-> FALSE] \in Status
    BY DEF Status
  <2>2. QED
    BY <1>2, <2>1 DEF TypeOK, DatabaseType
<1>3. QED
  BY <1>1, <1>2 DEF StartTransaction

LEMMA LoadType ==
  ASSUME TypeOK, NEW t \in Threads, NEW label, NEW next \in Labels, NEW oops \in Labels,
         label \notin FinishLabels, next \in FinishLabels, oops \notin FinishLabels,
         Load(t, label, next, oops)
  PROVE  TypeOK'
<1>1. CASE /\ Active(ctl[t])
           /\ taken' = [taken EXCEPT ![t] = status[ctl[t]]]
           /\ Goto(t, next)
  <2>1. status[ctl[t]] \in Status /\ status[ctl[t]] # NoStatus
    BY <1>1 DEF TypeOK, Active
  <2>2. taken' \in [Threads -> Status \cup {NoStatus}]
    BY <1>1, <2>1 DEF TypeOK
  <2>3. /\ \A u \in Threads \ {t} : taken'[u] = taken[u]
        /\ taken'[t] # NoStatus
    BY <1>1, <2>1 DEF TypeOK
  <2>4. /\ pc' \in [Threads -> Labels]
        /\ \A u \in Threads : taken'[u] # NoStatus <=> pc'[u] \in FinishLabels
    BY <1>1, <2>3, HandsType
  <2> QED
    BY <2>2, <2>4 DEF TypeOK, Load, request
<1>2. CASE Goto(t, oops) /\ UNCHANGED taken
  <2>1. taken[t] = NoStatus
    BY DEF TypeOK, Load
  <2>2. /\ pc' \in [Threads -> Labels]
        /\ \A u \in Threads : taken'[u] # NoStatus <=> pc'[u] \in FinishLabels
    BY <1>2, <2>1, HandsType
  <2> QED
    BY <1>2, <2>2 DEF TypeOK, Load, request
<1> QED
  BY <1>1, <1>2 DEF Load

(* Marking leaves statuses statuses, and takes them from t only. *)
LEMMA MarkType ==
  ASSUME TypeOK, NEW t \in Threads, NEW objects, NoStatus \notin objects,
         MarkCompleted(t, objects)
  PROVE  /\ status' \in [Controllers -> Status \cup {NoStatus}]
         /\ taken' \in [Threads -> Status \cup {NoStatus}]
         /\ taken'[t] = NoStatus
         /\ \A c \in Controllers :
              status'[c] = IF status[c] \in objects THEN [status[c] EXCEPT !.done = TRUE]
                           ELSE status[c]
         /\ \A u \in Threads \ {t} :
              /\ taken'[u] = IF taken[u] \in objects THEN [taken[u] EXCEPT !.done = TRUE]
                            ELSE taken[u]
              /\ taken'[u] # NoStatus <=> taken[u] # NoStatus
<1>1. ASSUME NEW x \in Status \cup {NoStatus}, x \in objects
      PROVE  [x EXCEPT !.done = TRUE] \in Status
  BY <1>1 DEF Status
<1>2. \A c \in Controllers : status[c] \in Status \cup {NoStatus}
  BY DEF TypeOK
<1>3. \A u \in Threads : taken[u] \in Status \cup {NoStatus}
  BY DEF TypeOK
<1> QED
  BY <1>1, <1>2, <1>3, NoStatusAssumption DEF MarkCompleted

LEMMA BegunIsStatus ==
  ASSUME NEW t \in Threads
  PROVE  Begun(t) \in Status /\ Begun(t) # NoStatus /\ ~Begun(t).done
<1>1. Begun(t) \in Status /\ ~Begun(t).done
  BY DEF Begun, Status
<1>2. QED
  BY <1>1, NoStatusAssumption

LEMMA CompleteGoes ==
  ASSUME TypeOK, NEW t \in Threads, NEW commit \in BOOLEAN, NEW next, NEW oops,
         pc[t] \in FinishLabels, Complete(t, commit, next, oops)
  PROVE  /\ taken[t] \in Status /\ taken[t] # NoStatus
         /\ Goto(t, next) \/ Goto(t, oops)
<1>1. taken[t] \in Status /\ taken[t] # NoStatus
  BY DEF TypeOK
<1> QED
  BY <1>1 DEF Complete

(* What commit and rollback do, read from Complete. *)
LEMMA CompleteCases ==
  ASSUME TypeOK, NEW t \in Threads, NEW commit \in BOOLEAN, NEW next, NEW oops,
         pc[t] \in FinishLabels, Complete(t, commit, next, oops)
  PROVE  \/ /\ taken[t].done \/ ~taken[t].new
            /\ \E objects \in {{}, {taken[t]}} : MarkCompleted(t, objects)
            /\ UNCHANGED <<pending, durable, bound, leaked>>
         \/ /\ taken[t].new
            /\ \E ok \in BOOLEAN, part \in 0..pending[taken[t].owner] :
                 /\ MayBeSaved(t, taken[t], commit, ok, part)
                 /\ EndTransaction(t, taken[t], part)
                 /\ Goto(t, IF ok /\ bound[t] # "none" THEN next ELSE oops)
BY DEF Complete

LEMMA CompleteType ==
  ASSUME TypeOK, NEW t \in Threads, NEW next \in Labels, NEW oops \in Labels,
         NEW commit \in BOOLEAN, pc[t] \in FinishLabels,
         next \notin FinishLabels, oops \notin FinishLabels,
         Complete(t, commit, next, oops)
  PROVE  /\ DatabaseType'
         /\ pc' \in [Threads -> Labels]
         /\ \A u \in Threads : taken'[u] # NoStatus <=> pc'[u] \in FinishLabels
<1> DEFINE s == taken[t]
<1>1. /\ s \in Status /\ s # NoStatus
      /\ s.owner \in Threads
  BY CompleteGoes DEF Status
<1>2. PICK label \in {next, oops} : Goto(t, label)
  BY CompleteGoes
<1>3. ASSUME NEW objects, NoStatus \notin objects, MarkCompleted(t, objects)
      PROVE  /\ status' \in [Controllers -> Status \cup {NoStatus}]
             /\ taken' \in [Threads -> Status \cup {NoStatus}]
             /\ pc' \in [Threads -> Labels]
             /\ \A u \in Threads : taken'[u] # NoStatus <=> pc'[u] \in FinishLabels
  <2>1. /\ status' \in [Controllers -> Status \cup {NoStatus}]
        /\ taken' \in [Threads -> Status \cup {NoStatus}]
        /\ taken'[t] = NoStatus
        /\ \A u \in Threads \ {t} : taken'[u] # NoStatus <=> taken[u] # NoStatus
    BY <1>3, MarkType
  <2> QED
    BY <1>2, <2>1, HandsType
<1>4. CASE \E objects \in {{}, {s}} :
             MarkCompleted(t, objects) /\ UNCHANGED <<pending, durable, bound, leaked>>
  BY <1>1, <1>3, <1>4 DEF TypeOK, DatabaseType
<1>5. ASSUME NEW part \in 0..pending[s.owner], EndTransaction(t, s, part)
      PROVE  /\ DatabaseType'
             /\ pc' \in [Threads -> Labels]
             /\ \A u \in Threads : taken'[u] # NoStatus <=> pc'[u] \in FinishLabels
  <2>1. PICK rest \in 0..pending[t] :
          durable' = [u \in Threads |-> durable[u] + (IF u = s.owner THEN part ELSE 0)
                                              + (IF u = t THEN rest ELSE 0)]
    BY <1>5 DEF EndTransaction
  <2>2. part \in Nat /\ rest \in Nat
    BY <1>1 DEF TypeOK
  <2>3. durable' \in [Threads -> Nat]
    BY <1>1, <2>1, <2>2 DEF TypeOK
  <2>4. /\ pending' \in [Threads -> Nat]
        /\ bound' \in [Threads -> {"none", "active", "stale"}]
        /\ leaked' \subseteq Threads
    BY <1>1, <1>5 DEF TypeOK, EndTransaction
  <2>5. MarkCompleted(t, {s, Begun(t)})
    BY <1>5 DEF EndTransaction
  <2>6. NoStatus \notin {s, Begun(t)}
    BY <1>1, BegunIsStatus
  <2> QED
    BY <1>3, <2>3, <2>4, <2>5, <2>6 DEF DatabaseType
<1> QED
  BY <1>4, <1>5, CompleteCases

LEMMA ForgetType ==
  ASSUME TypeOK, NEW t \in Threads, NEW label, NEW next \in Labels,
         label \notin FinishLabels, next \notin FinishLabels,
         Forget(t, label, next)
  PROVE  TypeOK'
<1>1. taken[t] = NoStatus /\ taken' = taken /\ Goto(t, next)
  BY DEF TypeOK, Forget
<1>2. /\ pc' \in [Threads -> Labels]
      /\ \A u \in Threads : taken'[u] # NoStatus <=> pc'[u] \in FinishLabels
  BY <1>1, HandsType
<1> QED
  BY <1>1, <1>2 DEF TypeOK, Forget, request

(* Which calls of the transaction manager the steps make. *)
LEMMA StartCalls ==
  ASSUME NEW t \in Threads, Begin(t) \/ Restart(t) \/ Recover(t)
  PROVE  \E next \in {"dispatch", "hook", "onFailure"}, oops \in {"catch", "escape"} :
           /\ StartTransaction(t, next, oops)
           /\ pc[t] = "begin" <=> next = "dispatch"
           /\ pc[t] = "restart" <=> next = "hook"
           /\ pc[t] = "recover" <=> next = "onFailure"
           /\ pc[t] = "recover" <=> oops = "escape"
           /\ pc[t] \in {"begin", "restart", "recover"}
           /\ UNCHANGED Locals
BY DEF Begin, Restart, Recover

LEMMA LoadCalls ==
  ASSUME NEW t \in Threads, LoadRequest(t) \/ LoadHook(t) \/ LoadAbort(t) \/ LoadFailure(t)
  PROVE  \E next \in FinishLabels, oops \in {"catch", "escape"} :
           /\ Load(t, pc[t], next, oops)
           /\ pc[t] \in {"complete", "commitHook", "abort", "onFailure"}
           /\ pc[t] = "complete" <=> next = "finish"
           /\ pc[t] = "commitHook" <=> next = "finishHook"
           /\ pc[t] = "abort" <=> next = "finishAbort"
           /\ pc[t] = "onFailure" <=> next = "finishFailure"
           /\ pc[t] \in {"complete", "commitHook"} <=> oops = "catch"
<1>1. CASE LoadRequest(t)
  BY <1>1 DEF LoadRequest, Load, FinishLabels
<1>2. CASE LoadHook(t)
  BY <1>2 DEF LoadHook, Load, FinishLabels
<1>3. CASE LoadAbort(t)
  BY <1>3 DEF LoadAbort, Load, FinishLabels
<1>4. CASE LoadFailure(t)
  BY <1>4 DEF LoadFailure, Load, FinishLabels
<1> QED
  BY <1>1, <1>2, <1>3, <1>4

LEMMA FinishCalls ==
  ASSUME TypeOK, NEW t \in Threads,
         FinishRequest(t) \/ FinishHook(t) \/ FinishAbort(t) \/ FinishFailure(t)
  PROVE  \E commit \in BOOLEAN,
            next \in {"forget", "forgetHook", "forgetAbort", "forgetFailure"},
            oops \in {"catch", "escape"} :
           /\ Complete(t, commit, next, oops)
           /\ pc[t] \in FinishLabels
           /\ pc[t] = "finish" <=> next = "forget"
           /\ pc[t] = "finishHook" <=> next = "forgetHook"
           /\ pc[t] = "finishAbort" <=> next = "forgetAbort"
           /\ pc[t] = "finishFailure" <=> next = "forgetFailure"
           /\ pc[t] \in {"finish", "finishHook"} <=> oops = "catch"
           /\ pc[t] = "finish" => commit = ~errs[t]
           /\ pc[t] = "finishAbort" => ~commit
           /\ UNCHANGED Locals
<1> USE DEF FinishLabels
<1>1. CASE FinishRequest(t) /\ errs[t]
  BY <1>1 DEF FinishRequest, RollbackTransaction
<1>2. CASE FinishRequest(t) /\ ~errs[t]
  BY <1>2 DEF FinishRequest, CommitTransaction
<1>3. CASE FinishHook(t)
  BY <1>3 DEF FinishHook, CommitTransaction
<1>4. CASE FinishAbort(t)
  BY <1>4 DEF FinishAbort, RollbackTransaction
<1>5. CASE FinishFailure(t)
  BY <1>5 DEF FinishFailure, CommitTransaction
<1> QED
  BY <1>1, <1>2, <1>3, <1>4, <1>5

LEMMA NextType == TypeOK /\ [Next]_vars => TypeOK'
<1> SUFFICES ASSUME TypeOK, [Next]_vars PROVE TypeOK'
  OBVIOUS
<1>1. ASSUME NEW t \in Threads, NEW c \in Controllers, NEW n \in 0..MaxWrites,
             Accept(t, c, n)
      PROVE  TypeOK'
  BY <1>1, BoundsAssumption DEF TypeOK, Accept, Goto, Labels, FinishLabels
<1>2. ASSUME NEW t \in Threads, Begin(t) \/ Restart(t) \/ Recover(t)
      PROVE  TypeOK'
  <2>1. PICK next \in {"dispatch", "hook", "onFailure"}, oops \in {"catch", "escape"} :
          /\ StartTransaction(t, next, oops)
          /\ pc[t] \in {"begin", "restart", "recover"}
          /\ UNCHANGED Locals
    BY <1>2, StartCalls
  <2>2. /\ next \in Labels \ FinishLabels /\ oops \in Labels \ FinishLabels
        /\ pc[t] \notin FinishLabels
    BY <2>1 DEF Labels, FinishLabels
  <2>3. DatabaseType' /\ taken' = taken /\ \E label \in {next, oops} : Goto(t, label)
    BY <2>1, <2>2, StartType
  <2>4. taken[t] = NoStatus
    BY <2>2 DEF TypeOK
  <2>5. /\ pc' \in [Threads -> Labels]
        /\ \A u \in Threads : taken'[u] # NoStatus <=> pc'[u] \in FinishLabels
    BY <2>2, <2>3, <2>4, HandsType
  <2> QED
    BY <2>1, <2>3, <2>5 DEF TypeOK, DatabaseType, Locals
<1>3. ASSUME NEW t \in Threads,
             FinishRequest(t) \/ FinishHook(t) \/ FinishAbort(t) \/ FinishFailure(t)
      PROVE  TypeOK'
  <2>1. PICK commit \in BOOLEAN,
             next \in {"forget", "forgetHook", "forgetAbort", "forgetFailure"},
             oops \in {"catch", "escape"} :
          /\ Complete(t, commit, next, oops)
          /\ pc[t] \in FinishLabels
          /\ UNCHANGED Locals
    BY <1>3, FinishCalls
  <2>2. next \in Labels \ FinishLabels /\ oops \in Labels \ FinishLabels
    BY DEF Labels, FinishLabels
  <2>3. /\ DatabaseType'
        /\ pc' \in [Threads -> Labels]
        /\ \A u \in Threads : taken'[u] # NoStatus <=> pc'[u] \in FinishLabels
    BY <2>1, <2>2, CompleteType
  <2> QED
    BY <2>1, <2>3 DEF TypeOK, DatabaseType, Locals
<1>4. ASSUME NEW t \in Threads,
             ForgetRequest(t) \/ ForgetHook(t) \/ ForgetAbort(t) \/ ForgetFailure(t)
      PROVE  TypeOK'
  <2>1. {"forget", "restart", "forgetHook", "answer", "forgetAbort", "recover",
         "forgetFailure", "panic"} \subseteq Labels \ FinishLabels
    BY DEF Labels, FinishLabels
  <2> QED
    BY <1>4, <2>1, ForgetType DEF ForgetRequest, ForgetHook, ForgetAbort, ForgetFailure
<1>5. ASSUME NEW t \in Threads,
             LoadRequest(t) \/ LoadHook(t) \/ LoadAbort(t) \/ LoadFailure(t)
      PROVE  TypeOK'
  <2>1. PICK next \in FinishLabels, oops \in {"catch", "escape"} :
          /\ Load(t, pc[t], next, oops)
          /\ pc[t] \in {"complete", "commitHook", "abort", "onFailure"}
    BY <1>5, LoadCalls
  <2>2. next \in Labels /\ oops \in Labels \ FinishLabels /\ pc[t] \notin FinishLabels
    BY <2>1 DEF Labels, FinishLabels
  <2> QED
    BY <2>1, <2>2, LoadType
<1>6. ASSUME NEW t \in Threads, NEW label \in Labels \ FinishLabels,
             Goto(t, label), pc[t] \notin FinishLabels, UNCHANGED <<database, ctl, plan>>,
             svc' \in [Threads -> BOOLEAN], errs' \in [Threads -> BOOLEAN],
             UNCHANGED written,
             answer' \in [Threads -> {"none", "view", "form", "panic"}]
      PROVE  TypeOK'
  <2>1. taken[t] = NoStatus /\ taken' = taken
    BY <1>6 DEF TypeOK, database
  <2>2. /\ pc' \in [Threads -> Labels]
        /\ \A u \in Threads : taken'[u] # NoStatus <=> pc'[u] \in FinishLabels
    BY <1>6, <2>1, HandsType
  <2> QED
    BY <1>6, <2>2 DEF TypeOK, database
<1>7. ASSUME NEW t \in Threads, Dispatch(t) \/ Served(t) PROVE TypeOK'
  <2>1. {"enter", "catch", "complete"} \subseteq Labels \ FinishLabels
    BY DEF Labels, FinishLabels
  <2>2. PICK label \in {"enter", "catch", "complete"} : Goto(t, label)
    BY <1>7 DEF Dispatch, Served
  <2>3. /\ pc[t] \notin FinishLabels /\ UNCHANGED <<database, ctl, plan, written, answer>>
        /\ svc' \in [Threads -> BOOLEAN] /\ errs' \in [Threads -> BOOLEAN]
        /\ answer \in [Threads -> {"none", "view", "form", "panic"}]
    BY <1>7 DEF TypeOK, Dispatch, Served, FinishLabels
  <2> QED
    BY <1>6, <2>1, <2>2, <2>3
<1>8. ASSUME NEW t \in Threads,
             Enter(t) \/ Hook(t) \/ Answer(t) \/ Catch(t) \/ Panic(t)
      PROVE  TypeOK'
  <2>1. {"serve", "catch", "commitHook", "idle", "abort", "recover"}
          \subseteq Labels \ FinishLabels
    BY DEF Labels, FinishLabels
  <2>2. PICK label \in {"serve", "catch", "commitHook", "idle", "abort", "recover"} :
          Goto(t, label)
    BY <1>8 DEF Enter, Hook, Answer, Catch, Panic
  <2>3. /\ pc[t] \notin FinishLabels /\ UNCHANGED <<database, request>>
        /\ svc \in [Threads -> BOOLEAN] /\ errs \in [Threads -> BOOLEAN]
        /\ answer' \in [Threads -> {"none", "view", "form", "panic"}]
    BY <1>8 DEF TypeOK, Enter, Hook, Answer, Catch, Panic, FinishLabels
  <2> QED
    BY <1>6, <2>1, <2>2, <2>3 DEF request
<1>9. ASSUME NEW t \in Threads, Write(t) PROVE TypeOK'
  BY <1>9 DEF TypeOK, Write
<1>10. CASE UNCHANGED vars
  BY <1>10 DEF TypeOK, vars, request, database
<1>11. QED
  BY <1>1, <1>2, <1>3, <1>4, <1>5, <1>7, <1>8, <1>9, <1>10 DEF Next, Step

(* The handler keeps to its types, however many requests a controller      *)
(* serves at a time.                                                       *)
THEOREM TypeCorrect == Spec => []TypeOK
<1>1. Init => TypeOK
  BY NoStatusAssumption DEF Init, TypeOK, Labels, FinishLabels
<1>2. QED
  BY <1>1, NextType, PTL DEF Spec
-----------------------------------------------------------------------------
(* Under IInv the field of a controller refers to the transaction of the   *)
(* thread that runs the controller, or to none.                            *)

LEMMA OwnTransaction ==
  ASSUME IInv, NEW t \in Threads, bound[t] = "active"
  PROVE  /\ ctl[t] \in Controllers
         /\ status[ctl[t]] = Begun(t)
         /\ Active(ctl[t])
<1>1. ctl[t] \in Controllers /\ status[ctl[t]] = Begun(t)
  BY DEF IInv, TypeOK, ContextInv
<1>2. Begun(t) \in Status /\ ~Begun(t).done
  BY DEF Begun, Status
<1>3. QED
  BY <1>1, <1>2, NoStatusAssumption DEF Active

LEMMA NoTransaction ==
  ASSUME IInv, NEW t \in Threads, pc[t] # "idle", bound[t] = "none"
  PROVE  ~Active(ctl[t])
<1> SUFFICES ASSUME Active(ctl[t]) PROVE FALSE
  OBVIOUS
<1> DEFINE o == status[ctl[t]].owner
<1>1. ctl[t] \in Controllers
  BY DEF IInv, TypeOK
<1>2. o \in Threads /\ ctl[o] = ctl[t] /\ bound[o] = "active"
  BY <1>1 DEF IInv, FieldInv, TypeOK, Active, Status
<1>3. pc[o] # "idle"
  BY <1>2 DEF IInv, ContextInv, OpenLabels, MainLabels, HookLabels
<1>4. o = t
  BY <1>2, <1>3 DEF IInv, Exclusive
<1>5. QED
  BY <1>2, <1>4

(* What a step of thread t has to show: everything else of the invariant   *)
(* is about other threads and other fields, which the step leaves alone.   *)
LEMMA StepFrame ==
  ASSUME IInv, TypeOK', NEW t \in Threads, pc[t] # "idle",
         ctl' = ctl, leaked' = leaked,
         \A u \in Threads \ {t} :
           /\ pc'[u] = pc[u] /\ errs'[u] = errs[u] /\ plan'[u] = plan[u]
           /\ written'[u] = written[u] /\ pending'[u] = pending[u]
           /\ durable'[u] = durable[u] /\ bound'[u] = bound[u]
           /\ answer'[u] = answer[u] /\ taken'[u] = taken[u],
         \A c \in Controllers \ {ctl[t]} : status'[c] = status[c],
         Active(ctl[t])' => status'[ctl[t]] = Begun(t) /\ bound'[t] = "active",
         ContextInv(t)', OutcomeInv(t)'
  PROVE  IInv'
<1>1. Exclusive'
  BY DEF IInv, Exclusive
<1>2. ASSUME NEW u \in Threads, u # t, bound[u] = "active"
      PROVE  ctl[u] # ctl[t]
  <2>1. pc[u] # "idle"
    BY <1>2 DEF IInv, ContextInv, OpenLabels, MainLabels, HookLabels
  <2>2. QED
    BY <1>2, <2>1 DEF IInv, Exclusive
<1>3. FieldInv'
  <2> SUFFICES ASSUME NEW c \in Controllers, Active(c)'
               PROVE  /\ status'[c] = Begun(status'[c].owner)
                      /\ ctl[status'[c].owner] = c
                      /\ bound'[status'[c].owner] = "active"
    BY DEF FieldInv, Begun
  <2>1. CASE c = ctl[t]
    <3>1. status'[c] = Begun(t) /\ bound'[t] = "active"
      BY <2>1
    <3>2. Begun(t).owner = t
      BY DEF Begun
    <3>3. QED
      BY <2>1, <3>1, <3>2
  <2>2. CASE c # ctl[t]
    <3>1. status'[c] = status[c] /\ Active(c)
      BY <2>2 DEF Active
    <3>2. /\ status[c] = Begun(status[c].owner)
          /\ ctl[status[c].owner] = c
          /\ bound[status[c].owner] = "active"
      BY <3>1 DEF IInv, FieldInv
    <3>3. status[c].owner \in Threads /\ status[c].owner # t
      BY <2>2, <3>1, <3>2 DEF IInv, TypeOK, Active, Status
    <3>4. QED
      BY <3>1, <3>2, <3>3
  <2>3. QED
    BY <2>1, <2>2
<1>4. ASSUME NEW u \in Threads, u # t
      PROVE  ContextInv(u)' /\ OutcomeInv(u)'
  <2>1. ContextInv(u) /\ OutcomeInv(u)
    BY DEF IInv
  <2>2. OutcomeInv(u)'
    BY <1>4, <2>1 DEF OutcomeInv
  <2>3. ctl[u] \in Controllers
    BY DEF IInv, TypeOK
  <2>4. bound[u] = "active" => status'[ctl[u]] = status[ctl[u]]
    BY <1>2, <1>4, <2>3
  <2>5. ContextInv(u)'
    BY <1>4, <2>1, <2>4 DEF ContextInv
  <2>6. QED
    BY <2>2, <2>5
<1>5. QED
  BY <1>1, <1>3, <1>4 DEF IInv
(* startTransaction of a thread without a transaction begins a fresh one. *)
LEMMA StartFresh ==
  ASSUME IInv, NEW t \in Threads, bound[t] = "none",
         NEW next, NEW oops, StartTransaction(t, next, oops)
  PROVE  /\ pending' = pending /\ durable' = durable /\ leaked' = leaked
         /\ taken' = taken
         /\ \A u \in Threads \ {t} : bound'[u] = bound[u]
         /\ \A c \in Controllers \ {ctl[t]} : status'[c] = status[c]
         /\ \/ /\ pc' = [pc EXCEPT ![t] = next]
               /\ bound'[t] = "active"
               /\ status'[ctl[t]] = Begun(t)
            \/ /\ pc' = [pc EXCEPT ![t] = oops]
               /\ bound' = bound /\ status' = status
<1>1. ctl[t] \in Controllers /\ bound \in [Threads -> {"none", "active", "stale"}]
  BY DEF IInv, TypeOK
<1>2. status = [c \in Controllers |-> status[c]]
  BY DEF IInv, TypeOK
<1>3. CASE UNCHANGED database /\ Goto(t, oops)
  BY <1>3 DEF Goto, database
<1>4. CASE /\ status' = [status EXCEPT ![ctl[t]] =
                           [owner |-> t, new |-> bound[t] = "none", done |-> FALSE]]
           /\ bound' = [bound EXCEPT ![t] = "active"]
           /\ Goto(t, next)
           /\ UNCHANGED <<pending, durable, taken, leaked>>
  <2>1. Begun(t) = [owner |-> t, new |-> bound[t] = "none", done |-> FALSE]
    BY DEF Begun
  <2>2. status' = [status EXCEPT ![ctl[t]] = Begun(t)]
    BY <1>4, <2>1
  <2>3. QED
    BY <1>1, <1>2, <1>4, <2>2 DEF Goto
<1>5. QED
  BY <1>3, <1>4 DEF StartTransaction

(* Nobody else has the transaction of a thread in hand. *)
LEMMA NotShared ==
  ASSUME IInv, NEW t \in Threads
  PROVE  /\ ~Shared(t, Begun(t))
         /\ \A u \in Threads \ {t} : taken[u] # Begun(t)
<1>1. ASSUME NEW u \in Threads \ {t} PROVE taken[u] # Begun(t)
  <2>1. taken[u] \in {NoStatus, Begun(u)}
    BY DEF IInv, ContextInv
  <2>2. Begun(u).owner # Begun(t).owner /\ Begun(t) # NoStatus
    BY BegunIsStatus DEF Begun
  <2> QED
    BY <2>1, <2>2
<1> QED
  BY <1>1 DEF Shared

(* commit and rollback by a thread complete its own transaction. *)
LEMMA CompleteOwn ==
  ASSUME IInv, NEW t \in Threads, pc[t] \in FinishLabels, NEW commit \in BOOLEAN,
         NEW next, NEW oops, Complete(t, commit, next, oops), ctl' = ctl
  PROVE  /\ leaked' = leaked
         /\ bound[t] = "active"
         /\ bound' = [bound EXCEPT ![t] = "none"]
         /\ pending' = [pending EXCEPT ![t] = 0]
         /\ ~Active(ctl[t])'
         /\ taken'[t] = NoStatus
         /\ \A u \in Threads \ {t} : taken'[u] = taken[u]
         /\ \A c \in Controllers \ {ctl[t]} : status'[c] = status[c]
         /\ \E ok, saved \in BOOLEAN :
              /\ saved => commit
              /\ commit /\ ok => saved
              /\ durable' = IF saved THEN [durable EXCEPT ![t] = @ + pending[t]]
                           ELSE durable
              /\ pc' = [pc EXCEPT ![t] = IF ok THEN next ELSE oops]
<1>1. taken[t] = Begun(t) /\ bound[t] = "active"
  BY DEF IInv, TypeOK, ContextInv, FinishLabels, OpenLabels, MainLabels, HookLabels
<1>2. ctl[t] \in Controllers /\ status[ctl[t]] = Begun(t)
  BY <1>1, OwnTransaction
<1>3. Begun(t).owner = t /\ Begun(t).new /\ ~Begun(t).done
  BY DEF Begun
<1>4. PICK ok \in BOOLEAN, part \in 0..pending[t] :
        /\ MayBeSaved(t, Begun(t), commit, ok, part)
        /\ EndTransaction(t, Begun(t), part)
        /\ Goto(t, IF ok /\ bound[t] # "none" THEN next ELSE oops)
  <2>1. TypeOK
    BY DEF IInv
  <2>2. taken[t].new /\ ~taken[t].done /\ taken[t].owner = t
    BY <1>1, <1>3
  <2>3. \E ok \in BOOLEAN, part \in 0..pending[taken[t].owner] :
          /\ MayBeSaved(t, taken[t], commit, ok, part)
          /\ EndTransaction(t, taken[t], part)
          /\ Goto(t, IF ok /\ bound[t] # "none" THEN next ELSE oops)
    BY <2>1, <2>2, CompleteCases
  <2> QED
    BY <1>1, <2>2, <2>3
<1>5. ~Shared(t, Begun(t))
  BY NotShared
<1>6. /\ part = 0 \/ commit
      /\ part \in {0, pending[t]}
      /\ commit /\ ok => part = pending[t]
  BY <1>3, <1>4, <1>5 DEF MayBeSaved
<1>7. /\ MarkCompleted(t, {Begun(t)})
      /\ bound' = [bound EXCEPT ![t] = "none"]
      /\ durable' = [durable EXCEPT ![t] = @ + part]
      /\ pending' = [pending EXCEPT ![t] = 0]
      /\ leaked' = leaked
  <2>1. PICK rest \in 0..pending[t] :
          /\ rest > 0 => t # Begun(t).owner /\ Shared(t, Begun(t))
          /\ MarkCompleted(t, {Begun(t), Begun(t)})
          /\ bound' = [bound EXCEPT ![Begun(t).owner] = IF Begun(t).done THEN @ ELSE "stale",
                                    ![t] = "none"]
          /\ durable' = [u \in Threads |-> durable[u] + (IF u = Begun(t).owner THEN part ELSE 0)
                                              + (IF u = t THEN rest ELSE 0)]
          /\ pending' = [pending EXCEPT ![Begun(t).owner] = IF Begun(t).done THEN @ ELSE 0,
                                        ![t] = 0]
          /\ leaked' = IF t # Begun(t).owner /\ bound[t] = "active" /\ ~Shared(t, Begun(t))
                       THEN leaked \cup {t} ELSE leaked
    BY <1>4 DEF EndTransaction
  <2>2. rest = 0 /\ part \in Nat
    BY <1>3, <2>1 DEF IInv, TypeOK
  <2>3. durable' = [durable EXCEPT ![t] = @ + part]
    <3>1. durable \in [Threads -> Nat]
      BY DEF IInv, TypeOK
    <3>2. durable' = [u \in Threads |-> durable[u] + (IF u = t THEN part ELSE 0)
                                                  + (IF u = t THEN rest ELSE 0)]
      BY <1>3, <2>1
    <3>3. \A u \in Threads : durable'[u] = IF u = t THEN durable[t] + part ELSE durable[u]
      BY <2>2, <3>1, <3>2
    <3>4. durable' = [u \in Threads |-> durable'[u]]
      BY <3>2
    <3> QED
      BY <3>1, <3>3, <3>4
  <2>4. /\ bound' = [bound EXCEPT ![t] = "none"]
        /\ pending' = [pending EXCEPT ![t] = 0]
        /\ leaked' = leaked
    BY <1>3, <2>1 DEF IInv, TypeOK
  <2>5. {Begun(t), Begun(t)} = {Begun(t)}
    OBVIOUS
  <2> QED
    BY <2>1, <2>3, <2>4, <2>5
<1>8. /\ taken'[t] = NoStatus
      /\ \A c \in Controllers :
           status'[c] = IF status[c] = Begun(t) THEN [status[c] EXCEPT !.done = TRUE]
                        ELSE status[c]
      /\ \A u \in Threads \ {t} :
           taken'[u] = IF taken[u] = Begun(t) THEN [taken[u] EXCEPT !.done = TRUE]
                       ELSE taken[u]
  <2>1. TypeOK /\ NoStatus \notin {Begun(t)}
    BY BegunIsStatus DEF IInv
  <2>2. /\ taken'[t] = NoStatus
        /\ \A c \in Controllers :
             status'[c] = IF status[c] \in {Begun(t)} THEN [status[c] EXCEPT !.done = TRUE]
                          ELSE status[c]
        /\ \A u \in Threads \ {t} :
             taken'[u] = IF taken[u] \in {Begun(t)} THEN [taken[u] EXCEPT !.done = TRUE]
                         ELSE taken[u]
    BY <1>7 DEF MarkCompleted
  <2>3. \A x : x \in {Begun(t)} <=> x = Begun(t)
    OBVIOUS
  <2> QED
    BY <2>2, <2>3
<1>9. \A u \in Threads \ {t} : taken'[u] = taken[u]
  BY <1>8, NotShared
<1>10. ~Active(ctl[t])'
  <2>1. status'[ctl[t]] = [Begun(t) EXCEPT !.done = TRUE]
    BY <1>2, <1>8
  <2>2. status'[ctl[t]].done
    BY <2>1 DEF Begun
  <2>3. QED
    BY <2>2 DEF Active
<1>11. \A c \in Controllers \ {ctl[t]} : status'[c] = status[c]
  <2>1. ASSUME NEW c \in Controllers, status[c] = Begun(t) PROVE c = ctl[t]
    <3>1. Active(c) /\ status[c].owner = t
      BY <1>3, <2>1, BegunIsStatus DEF Active
    <3> QED
      BY <3>1 DEF IInv, FieldInv
  <2> QED
    BY <1>8, <2>1
<1>12. durable' = IF part = pending[t] THEN [durable EXCEPT ![t] = @ + pending[t]] ELSE durable
  <2>1. part = 0 => durable' = durable
    BY <1>7 DEF IInv, TypeOK
  <2> QED
    BY <1>6, <1>7, <2>1
<1>13. pc' = [pc EXCEPT ![t] = IF ok THEN next ELSE oops]
  BY <1>1, <1>4 DEF Goto
<1>14. \E saved \in BOOLEAN :
         /\ saved => commit
         /\ commit /\ ok => saved
         /\ durable' = IF saved THEN [durable EXCEPT ![t] = @ + pending[t]]
                      ELSE durable
  <2>1. CASE commit /\ part = pending[t]
    BY <2>1, <1>12
  <2>2. CASE ~commit
    <3>1. part = 0
      BY <1>6, <2>2
    <3>2. durable' = durable
      BY <3>1, <1>7 DEF IInv, TypeOK
    <3> QED
      BY <2>2, <3>2
  <2>3. CASE commit /\ part # pending[t]
    BY <2>3, <1>6, <1>12
  <2> QED
    BY <2>1, <2>2, <2>3
<1>15. QED
  BY <1>1, <1>7, <1>8, <1>9, <1>10, <1>11, <1>13, <1>14

(* '= null' by a thread that has no transaction left. *)
LEMMA ForgetInv ==
  ASSUME IInv, TypeOK', NEW t \in Threads, NEW label, NEW next,
         bound[t] = "none", Forget(t, label, next), label # "idle",
         ContextInv(t)', OutcomeInv(t)'
  PROVE  IInv'
<1>1. ctl[t] \in Controllers /\ status' = [status EXCEPT ![ctl[t]] = NoStatus]
  BY DEF IInv, TypeOK, Forget
<1>2. ~Active(ctl[t])'
  BY <1>1 DEF IInv, TypeOK, Active, Forget, request
<1>3. \A c \in Controllers \ {ctl[t]} : status'[c] = status[c]
  BY <1>1 DEF IInv, TypeOK
<1>4. /\ pc[t] # "idle" /\ ctl' = ctl /\ leaked' = leaked
      /\ \A u \in Threads \ {t} :
           /\ pc'[u] = pc[u] /\ errs'[u] = errs[u] /\ plan'[u] = plan[u]
           /\ written'[u] = written[u] /\ pending'[u] = pending[u]
           /\ durable'[u] = durable[u] /\ bound'[u] = bound[u]
           /\ answer'[u] = answer[u] /\ taken'[u] = taken[u]
  BY DEF IInv, TypeOK, Forget, Goto, request
<1>5. QED
  BY <1>2, <1>3, <1>4, StepFrame

(* The labels of the steps at which a thread has no transaction. *)
LEMMA NoTransactionAt ==
  ASSUME IInv, NEW t \in Threads, pc[t] \notin OpenLabels \cup {"catch"}
  PROVE  bound[t] = "none"
BY DEF IInv, TypeOK, ContextInv

-----------------------------------------------------------------------------
(* Each step of a thread preserves the invariant.                          *)

LEMMA StartSteps ==
  ASSUME IInv, TypeOK', NEW t \in Threads, Begin(t) \/ Restart(t) \/ Recover(t)
  PROVE  IInv'
<1> USE DEF OpenLabels, MainLabels, HookLabels, SettledLabels
<1>1. pc[t] \in {"begin", "restart", "recover"} /\ UNCHANGED Locals
  BY StartCalls
<1>2. bound[t] = "none"
  BY <1>1, NoTransactionAt
<1>3. ~Active(ctl[t])
  BY <1>1, <1>2, NoTransaction
<1>4. PICK next \in {"dispatch", "hook", "onFailure"}, oops \in {"catch", "escape"} :
        /\ StartTransaction(t, next, oops)
        /\ pc[t] = "begin" <=> next = "dispatch"
        /\ pc[t] = "restart" <=> next = "hook"
        /\ pc[t] = "recover" <=> next = "onFailure"
  BY StartCalls
<1>5. /\ pending' = pending /\ durable' = durable /\ leaked' = leaked
      /\ taken' = taken
      /\ \A u \in Threads \ {t} : bound'[u] = bound[u]
      /\ \A c \in Controllers \ {ctl[t]} : status'[c] = status[c]
      /\ \/ /\ pc' = [pc EXCEPT ![t] = next]
            /\ bound'[t] = "active"
            /\ status'[ctl[t]] = Begun(t)
         \/ /\ pc' = [pc EXCEPT ![t] = oops]
            /\ bound' = bound /\ status' = status
  BY <1>2, <1>4, StartFresh
<1>6. ContextInv(t) /\ OutcomeInv(t) /\ pc \in [Threads -> Labels]
  BY DEF IInv, TypeOK
<1>7. ContextInv(t)'
  BY <1>1, <1>2, <1>4, <1>5, <1>6 DEF ContextInv, Locals
<1>8. OutcomeInv(t)'
  BY <1>1, <1>2, <1>4, <1>5, <1>6 DEF ContextInv, OutcomeInv, Locals
<1>9. Active(ctl[t])' => status'[ctl[t]] = Begun(t) /\ bound'[t] = "active"
  BY <1>1, <1>3, <1>5 DEF Active, Locals
<1>10. QED
  BY <1>1, <1>5, <1>6, <1>7, <1>8, <1>9, StepFrame DEF Locals
(* The assertion holds, and what is loaded is the thread's own. *)
LEMMA LoadSteps ==
  ASSUME IInv, TypeOK', NEW t \in Threads,
         LoadRequest(t) \/ LoadHook(t) \/ LoadAbort(t) \/ LoadFailure(t)
  PROVE  IInv'
<1> USE DEF OpenLabels, MainLabels, HookLabels, SettledLabels, FinishLabels
<1>1. PICK next \in FinishLabels, oops \in {"catch", "escape"} :
        /\ Load(t, pc[t], next, oops)
        /\ pc[t] \in {"complete", "commitHook", "abort", "onFailure"}
        /\ pc[t] = "complete" <=> next = "finish"
        /\ pc[t] = "commitHook" <=> next = "finishHook"
        /\ pc[t] = "abort" <=> next = "finishAbort"
        /\ pc[t] = "onFailure" <=> next = "finishFailure"
  BY LoadCalls
<1>2. ContextInv(t) /\ OutcomeInv(t) /\ pc \in [Threads -> Labels]
  BY DEF IInv, TypeOK
<1>3. bound[t] = "active"
  BY <1>1, <1>2 DEF ContextInv
<1>4. Active(ctl[t]) /\ status[ctl[t]] = Begun(t)
  BY <1>3, OwnTransaction
<1>5. /\ pc' = [pc EXCEPT ![t] = next]
      /\ taken' = [taken EXCEPT ![t] = Begun(t)]
      /\ UNCHANGED <<request, pending, durable, status, bound, leaked, answer>>
  BY <1>1, <1>4 DEF Load, Goto
<1>6. taken'[t] = Begun(t) /\ \A u \in Threads \ {t} : taken'[u] = taken[u]
  BY <1>5 DEF IInv, TypeOK
<1>7. ContextInv(t)'
  BY <1>1, <1>2, <1>3, <1>4, <1>5, <1>6 DEF ContextInv, request, Begun
<1>8. OutcomeInv(t)'
  BY <1>1, <1>2, <1>5 DEF OutcomeInv, request
<1>9. \A u \in Threads \ {t} : pc'[u] = pc[u]
  BY <1>5
<1>10. Active(ctl[t])' => status'[ctl[t]] = Begun(t) /\ bound'[t] = "active"
  BY <1>3, <1>4, <1>5
<1> QED
  BY <1>1, <1>5, <1>6, <1>7, <1>8, <1>9, <1>10, StepFrame DEF request

LEMMA CompleteSteps ==
  ASSUME IInv, TypeOK', NEW t \in Threads,
         FinishRequest(t) \/ FinishHook(t) \/ FinishAbort(t) \/ FinishFailure(t)
  PROVE  IInv'
<1> USE DEF OpenLabels, MainLabels, HookLabels, SettledLabels
<1>1. PICK commit \in BOOLEAN, next \in {"forget", "forgetHook", "forgetAbort", "forgetFailure"},
           oops \in {"catch", "escape"} :
        /\ Complete(t, commit, next, oops)
        /\ pc[t] \in FinishLabels
        /\ pc[t] = "finish" <=> next = "forget"
        /\ pc[t] = "finishHook" <=> next = "forgetHook"
        /\ pc[t] = "finish" => commit = ~errs[t]
        /\ pc[t] = "finishAbort" => ~commit
        /\ UNCHANGED Locals
  <2>1. TypeOK
    BY DEF IInv
  <2> QED
    BY <2>1, FinishCalls
<1>2. ContextInv(t) /\ OutcomeInv(t)
  BY DEF IInv
<1>5. /\ leaked' = leaked
      /\ bound' = [bound EXCEPT ![t] = "none"]
      /\ pending' = [pending EXCEPT ![t] = 0]
      /\ ~Active(ctl[t])'
      /\ taken'[t] = NoStatus
      /\ \A u \in Threads \ {t} : taken'[u] = taken[u]
      /\ \A c \in Controllers \ {ctl[t]} : status'[c] = status[c]
      /\ \E ok, saved \in BOOLEAN :
           /\ saved => commit
           /\ commit /\ ok => saved
           /\ durable' = IF saved THEN [durable EXCEPT ![t] = @ + pending[t]]
                        ELSE durable
           /\ pc' = [pc EXCEPT ![t] = IF ok THEN next ELSE oops]
  BY <1>1, CompleteOwn DEF Locals
<1>6. PICK ok \in BOOLEAN, saved \in BOOLEAN :
        /\ saved => commit
        /\ commit /\ ok => saved
        /\ durable' = IF saved THEN [durable EXCEPT ![t] = @ + pending[t]]
                     ELSE durable
        /\ pc' = [pc EXCEPT ![t] = IF ok THEN next ELSE oops]
  BY <1>5
<1>7. /\ pc'[t] = IF ok THEN next ELSE oops
      /\ durable'[t] = IF saved THEN durable[t] + pending[t] ELSE durable[t]
      /\ bound'[t] = "none" /\ pending'[t] = 0
      /\ plan[t] \in Nat /\ durable[t] \in Nat /\ pending[t] \in Nat
  BY <1>5, <1>6 DEF IInv, TypeOK
<1>8. ContextInv(t)'
  BY <1>1, <1>5, <1>7 DEF ContextInv
<1>9. OutcomeInv(t)'
  <2>1. CASE pc[t] = "finish"
    BY <2>1, <1>1, <1>2, <1>6, <1>7 DEF OutcomeInv, Locals
  <2>2. CASE pc[t] = "finishAbort"
    BY <2>2, <1>1, <1>2, <1>6, <1>7 DEF OutcomeInv, Locals
  <2>3. CASE pc[t] \in {"finishHook", "finishFailure"}
    BY <2>3, <1>1, <1>2, <1>6, <1>7 DEF OutcomeInv, Locals
  <2>4. QED
    BY <1>1, <2>1, <2>2, <2>3 DEF FinishLabels
<1>10. \A u \in Threads \ {t} :
         /\ pc'[u] = pc[u] /\ errs'[u] = errs[u] /\ plan'[u] = plan[u]
         /\ written'[u] = written[u] /\ pending'[u] = pending[u]
         /\ durable'[u] = durable[u] /\ bound'[u] = bound[u]
         /\ answer'[u] = answer[u] /\ taken'[u] = taken[u]
  BY <1>1, <1>5, <1>6 DEF IInv, TypeOK, Locals
<1>11. pc[t] # "idle" /\ ctl' = ctl
  BY <1>1 DEF Locals, FinishLabels
<1>12. QED
  BY <1>5, <1>8, <1>9, <1>10, <1>11, StepFrame

LEMMA ForgetSteps ==
  ASSUME IInv, TypeOK', NEW t \in Threads,
         ForgetRequest(t) \/ ForgetHook(t) \/ ForgetAbort(t) \/ ForgetFailure(t)
  PROVE  IInv'
<1> USE DEF OpenLabels, MainLabels, HookLabels, SettledLabels
<1>1. PICK label \in {"forget", "forgetHook", "forgetAbort", "forgetFailure"},
           next \in {"restart", "answer", "recover", "panic"} :
        /\ Forget(t, label, next)
        /\ next \in {"restart", "answer"} => label \in SettledLabels
  BY DEF ForgetRequest, ForgetHook, ForgetAbort, ForgetFailure
<1>2. ContextInv(t) /\ OutcomeInv(t) /\ pc \in [Threads -> Labels]
  BY DEF IInv, TypeOK
<1>3. /\ pc[t] = label /\ pc' = [pc EXCEPT ![t] = next]
      /\ UNCHANGED <<ctl, svc, errs, plan, written, pending, durable, bound, taken, answer>>
  BY <1>1 DEF Forget, Goto, request
<1>4. bound[t] = "none"
  BY <1>3, NoTransactionAt
<1>5. ContextInv(t)'
  BY <1>2, <1>3, <1>4 DEF ContextInv
<1>6. OutcomeInv(t)'
  BY <1>1, <1>2, <1>3 DEF OutcomeInv
<1>7. QED
  BY <1>1, <1>4, <1>5, <1>6, ForgetInv

(* The steps that only go on, or only touch the variables of the thread. *)
LEMMA LocalSteps ==
  ASSUME IInv, TypeOK', NEW t \in Threads,
         Dispatch(t) \/ Enter(t) \/ Write(t) \/ Served(t) \/ Hook(t) \/ Answer(t)
           \/ Catch(t) \/ Panic(t)
  PROVE  IInv'
<1> USE DEF OpenLabels, MainLabels, HookLabels, SettledLabels
<1>1. /\ ContextInv(t) /\ OutcomeInv(t)
      /\ pc \in [Threads -> Labels] /\ errs \in [Threads -> BOOLEAN]
      /\ written \in [Threads -> Nat] /\ pending \in [Threads -> Nat]
      /\ plan \in [Threads -> Nat]
      /\ answer \in [Threads -> {"none", "view", "form", "panic"}]
  BY DEF IInv, TypeOK
<1>2. pc[t] # "idle" /\ UNCHANGED <<ctl, plan, durable, status, bound, taken, leaked>>
  BY DEF Dispatch, Enter, Write, Served, Hook, Answer, Catch, Panic, request, database
<1>3. Active(ctl[t])' => status'[ctl[t]] = Begun(t) /\ bound'[t] = "active"
  <2>1. CASE bound[t] = "none"
    BY <2>1, <1>2, NoTransaction DEF Active
  <2>2. CASE bound[t] = "active"
    BY <2>2, <1>2, OwnTransaction
  <2>3. QED
    BY <2>1, <2>2 DEF IInv, TypeOK, ContextInv
<1>4. \A u \in Threads \ {t} :
        /\ pc'[u] = pc[u] /\ errs'[u] = errs[u]
        /\ written'[u] = written[u] /\ pending'[u] = pending[u]
        /\ answer'[u] = answer[u]
  BY <1>1 DEF Dispatch, Enter, Write, Served, Hook, Answer, Catch, Panic,
              request, database, Goto
<1>5. ContextInv(t)' /\ OutcomeInv(t)'
  <2>1. CASE Dispatch(t)
    BY <2>1, <1>1, <1>2 DEF Dispatch, Goto, database, ContextInv, OutcomeInv
  <2>2. CASE Enter(t)
    BY <2>2, <1>1, <1>2 DEF Enter, Goto, request, database, ContextInv, OutcomeInv
  <2>3. CASE Write(t)
    BY <2>3, <1>1, <1>2 DEF Write, ContextInv, OutcomeInv
  <2>4. CASE Served(t)
    BY <2>4, <1>1, <1>2 DEF Served, Goto, database, ContextInv, OutcomeInv
  <2>5. CASE Hook(t)
    BY <2>5, <1>1, <1>2 DEF Hook, Goto, request, database, ContextInv, OutcomeInv
  <2>6. CASE Answer(t)
    BY <2>6, <1>1, <1>2 DEF Answer, Goto, request, database, ContextInv, OutcomeInv
  <2>7. CASE Catch(t)
    <3>1. Active(ctl[t]) <=> bound[t] = "active"
      BY <1>1, <1>2, NoTransaction, OwnTransaction DEF IInv, TypeOK, ContextInv
    <3>2. QED
      BY <2>7, <3>1, <1>1, <1>2
      DEF Catch, Goto, request, database, ContextInv, OutcomeInv
  <2>8. CASE Panic(t)
    BY <2>8, <1>1, <1>2 DEF Panic, Goto, request, database, ContextInv, OutcomeInv
  <2>9. QED
    BY <2>1, <2>2, <2>3, <2>4, <2>5, <2>6, <2>7, <2>8
<1>6. QED
  BY <1>2, <1>3, <1>4, <1>5, StepFrame
(* Only here does it matter that a controller serves one request at a time. *)
LEMMA AcceptStep ==
  ASSUME InFlight = 1, IInv, TypeOK',
         NEW t \in Threads, NEW c \in Controllers, NEW n \in 0..MaxWrites,
         Accept(t, c, n)
  PROVE  IInv'
<1> USE DEF OpenLabels, MainLabels, HookLabels, SettledLabels
<1>1. Serving(c) = {}
  <2>1. IsFiniteSet(Serving(c))
    BY ThreadsAssumption, FS_Subset DEF Serving
  <2>2. Cardinality(Serving(c)) \in Nat /\ Cardinality(Serving(c)) < 1
    BY <2>1, FS_CardinalityType DEF Accept
  <2>3. QED
    BY <2>1, <2>2, FS_EmptySet
<1>2. /\ pc[t] = "idle" /\ pc' = [pc EXCEPT ![t] = "begin"]
      /\ ctl' = [ctl EXCEPT ![t] = c]
      /\ bound' = bound /\ status' = status /\ leaked' = leaked /\ taken' = taken
  BY DEF Accept, Goto
<1>3. pc \in [Threads -> Labels] /\ ctl \in [Threads -> Controllers]
  BY DEF IInv, TypeOK
<1>4. Exclusive'
  BY <1>1, <1>2, <1>3 DEF IInv, Exclusive, Serving
<1>5. bound[t] = "none"
  BY <1>2, NoTransactionAt
<1>6. FieldInv'
  <2> SUFFICES ASSUME NEW d \in Controllers, Active(d)
               PROVE  /\ status[d] = Begun(status[d].owner)
                      /\ ctl'[status[d].owner] = d
                      /\ bound[status[d].owner] = "active"
    BY <1>2 DEF FieldInv, Active, Begun
  <2>1. /\ status[d] = Begun(status[d].owner)
        /\ ctl[status[d].owner] = d
        /\ bound[status[d].owner] = "active"
    BY DEF IInv, FieldInv
  <2>2. status[d].owner # t
    BY <1>5, <2>1
  <2>3. status[d].owner \in Threads
    BY DEF IInv, TypeOK, Active, Status
  <2>4. QED
    BY <1>2, <1>3, <2>1, <2>2, <2>3
<1>7. ASSUME NEW u \in Threads, u # t
      PROVE  ContextInv(u)' /\ OutcomeInv(u)'
  <2>1. ContextInv(u) /\ OutcomeInv(u)
    BY DEF IInv
  <2>2. QED
    BY <1>2, <1>3, <1>7, <2>1 DEF ContextInv, OutcomeInv, Accept, IInv, TypeOK
<1>8. ContextInv(t)' /\ OutcomeInv(t)'
  BY <1>2, <1>3, <1>5 DEF ContextInv, OutcomeInv, Accept, IInv, TypeOK
<1>9. QED
  BY <1>2, <1>4, <1>6, <1>7, <1>8 DEF IInv

LEMMA InitInv == Init => IInv
<1> SUFFICES ASSUME Init PROVE IInv
  OBVIOUS
<1>1. TypeOK
  BY NoStatusAssumption DEF Init, TypeOK, Labels, FinishLabels
<1>2. Exclusive /\ FieldInv /\ leaked = {}
  BY DEF Init, Exclusive, FieldInv, Active
<1>3. \A t \in Threads : ContextInv(t) /\ OutcomeInv(t)
  BY DEF Init, ContextInv, OutcomeInv, OpenLabels, MainLabels, HookLabels, SettledLabels
<1>4. QED
  BY <1>1, <1>2, <1>3 DEF IInv

LEMMA StepInv ==
  ASSUME IInv, TypeOK', NEW t \in Threads, Step(t)
  PROVE  IInv'
BY StartSteps, LoadSteps, CompleteSteps, ForgetSteps, LocalSteps DEF Step

LEMMA NextInv ==
  ASSUME InFlight = 1, IInv, [Next]_vars
  PROVE  IInv'
<1>1. TypeOK'
  BY NextType DEF IInv
<1>2. CASE UNCHANGED vars
  BY <1>2, <1>1 DEF vars, request, database, IInv, Exclusive, FieldInv, Active,
                    Begun, ContextInv, OutcomeInv
<1>3. ASSUME NEW t \in Threads, Step(t) PROVE IInv'
  BY <1>1, <1>3, StepInv
<1>4. ASSUME NEW t \in Threads, NEW c \in Controllers, NEW n \in 0..MaxWrites,
             Accept(t, c, n)
      PROVE  IInv'
  BY <1>1, <1>4, AcceptStep
<1>5. QED
  BY <1>2, <1>3, <1>4 DEF Next

(* While controllers serve one request at a time, the field of each refers *)
(* to the transaction of the thread that runs it.                          *)
THEOREM Invariance == ASSUME InFlight = 1 PROVE Spec => []IInv
<1>1. IInv /\ [Next]_vars => IInv'
  BY NextInv
<1>2. QED
  BY InitInv, <1>1, PTL DEF Spec

-----------------------------------------------------------------------------
(* The properties that follow from the invariant.                          *)

(* No transaction outlives its request: none is torn off its thread, and a *)
(* thread that has answered has given its connection back.                 *)
THEOREM NoLeak == ASSUME InFlight = 1 PROVE Spec => []NoLeakedTransaction
<1>1. IInv => NoLeakedTransaction
  BY DEF IInv, TypeOK, NoLeakedTransaction, ContextInv, OpenLabels, MainLabels, HookLabels
<1>2. QED
  BY <1>1, Invariance, PTL

(* onSuccess and onFailure run in a transaction that their thread began    *)
(* after the one of the request was completed.                             *)
THEOREM FreshHooks == ASSUME InFlight = 1 PROVE Spec => []HookInFreshTransaction
<1>1. IInv => HookInFreshTransaction
  BY DEF IInv, HookInFreshTransaction, ContextInv, OutcomeInv, Begun,
         OpenLabels, MainLabels, HookLabels
<1>2. QED
  BY <1>1, Invariance, PTL

(* The assertions of commitTransaction and rollbackTransaction hold.       *)
THEOREM AssertionsHold ==
  ASSUME InFlight = 1 PROVE Spec => []TransactionActiveWhenCompleted
<1>1. ASSUME IInv PROVE TransactionActiveWhenCompleted
  BY <1>1, OwnTransaction
  DEF IInv, TransactionActiveWhenCompleted, ContextInv, OpenLabels, MainLabels, HookLabels
<1>2. QED
  BY <1>1, Invariance, PTL

(* The writes of a request are saved all together or not at all.           *)
THEOREM Atomicity == ASSUME InFlight = 1 PROVE Spec => []AllOrNothing
<1>1. IInv => AllOrNothing
  BY DEF IInv, AllOrNothing, OutcomeInv
<1>2. QED
  BY <1>1, Invariance, PTL

(* The view means saved, the form with errors means not saved.             *)
THEOREM TruthfulAnswers == ASSUME InFlight = 1 PROVE Spec => []AnswerTellsOutcome
<1>1. IInv => AnswerTellsOutcome
  BY DEF IInv, AnswerTellsOutcome, OutcomeInv
<1>2. QED
  BY <1>1, Invariance, PTL
(* A transaction is only completed by a step of the thread that began it.  *)
THEOREM OwnTransactionsOnly == ASSUME InFlight = 1 PROVE Spec => OnlyOwnTransaction
<1> DEFINE A == \A t \in Threads :
                  bound[t] = "active" /\ bound'[t] # "active" => pc'[t] # pc[t]
<1>1. ASSUME IInv, [Next]_vars PROVE [A]_vars
  <2> SUFFICES ASSUME NEW t \in Threads, bound[t] = "active", bound'[t] # "active"
               PROVE  pc'[t] # pc[t]
    OBVIOUS
  <2>1. PICK u \in Threads : Step(u) \/ \E c \in Controllers, n \in 0..MaxWrites : Accept(u, c, n)
    BY <1>1 DEF Next, vars, database
  <2>2. CASE FinishRequest(u) \/ FinishHook(u) \/ FinishAbort(u) \/ FinishFailure(u)
    <3>1. PICK commit \in BOOLEAN,
               next \in {"forget", "forgetHook", "forgetAbort", "forgetFailure"},
               oops \in {"catch", "escape"} :
            /\ Complete(u, commit, next, oops)
            /\ pc[u] \in FinishLabels
            /\ UNCHANGED Locals
      <4>1. TypeOK
        BY <1>1 DEF IInv
      <4> QED
        BY <2>2, <4>1, FinishCalls
    <3>2. /\ bound' = [bound EXCEPT ![u] = "none"]
          /\ \E ok \in BOOLEAN : pc' = [pc EXCEPT ![u] = IF ok THEN next ELSE oops]
      BY <1>1, <3>1, CompleteOwn DEF Locals
    <3>3. next # pc[u] /\ oops # pc[u]
      BY <3>1 DEF FinishLabels
    <3>4. u = t
      BY <1>1, <3>2 DEF IInv, TypeOK
    <3> QED
      BY <1>1, <3>2, <3>3, <3>4 DEF IInv, TypeOK
  <2>3. CASE Begin(u) \/ Restart(u) \/ Recover(u)
    BY <1>1, <2>3 DEF Begin, Restart, Recover, StartTransaction, database, IInv, TypeOK
  <2>4. bound' = bound \/ Begin(u) \/ Restart(u) \/ Recover(u)
          \/ FinishRequest(u) \/ FinishHook(u) \/ FinishAbort(u) \/ FinishFailure(u)
    BY <2>1
    DEF Step, Accept, Dispatch, Enter, Write, Served, Hook, Answer, Catch, Panic,
        LoadRequest, LoadHook, LoadAbort, LoadFailure, Load,
        ForgetRequest, ForgetHook, ForgetAbort, ForgetFailure, Forget, request, database
  <2>5. QED
    BY <2>2, <2>3, <2>4
<1>2. QED
  BY <1>1, Invariance, PTL DEF Spec, OnlyOwnTransaction

-----------------------------------------------------------------------------
(* The handler implements its contract: every step is a step of            *)
(* AtomicRequest or changes nothing that AtomicRequest sees.               *)

LEMMA ContractInit == Init => Contract!Init
BY DEF Init, Contract!Init

LEMMA CompleteContract ==
  ASSUME IInv, NEW t \in Threads,
         FinishRequest(t) \/ FinishHook(t) \/ FinishAbort(t) \/ FinishFailure(t)
  PROVE  Contract!Store(t) \/ UNCHANGED Contract!vars
<1> USE DEF OpenLabels, MainLabels, HookLabels, SettledLabels, FinishLabels
<1>2. ContextInv(t) /\ OutcomeInv(t)
  BY DEF IInv
<1>4. PICK commit \in BOOLEAN,
           next \in {"forget", "forgetHook", "forgetAbort", "forgetFailure"},
           oops \in {"catch", "escape"} :
        /\ Complete(t, commit, next, oops)
        /\ pc[t] \in FinishLabels
        /\ pc[t] = "finish" => commit = ~errs[t]
        /\ pc[t] = "finishAbort" => ~commit
        /\ UNCHANGED Locals
  <2>1. TypeOK
    BY DEF IInv
  <2> QED
    BY <2>1, FinishCalls
<1>1. /\ pc[t] \in {"finish", "finishHook", "finishAbort", "finishFailure"}
      /\ UNCHANGED Locals
  BY <1>4
<1>5. PICK ok \in BOOLEAN, saved \in BOOLEAN :
        /\ saved => commit
        /\ durable' = IF saved THEN [durable EXCEPT ![t] = @ + pending[t]]
                     ELSE durable
        /\ pc' = [pc EXCEPT ![t] = IF ok THEN next ELSE oops]
  BY <1>1, <1>4, CompleteOwn DEF Locals
<1>6. \A u \in Threads : (pc'[u] # "idle") = (pc[u] # "idle")
  BY <1>1, <1>4, <1>5 DEF IInv, TypeOK
<1>7. [u \in Threads |-> pc[u] # "idle"]' = [u \in Threads |-> pc[u] # "idle"]
  BY <1>6
<1>8. /\ plan' = plan /\ answer' = answer
      /\ plan[t] \in Nat /\ durable[t] \in Nat
      /\ durable \in [Threads -> Nat]
  BY <1>1 DEF Locals, IInv, TypeOK
<1>9. CASE saved /\ pc[t] = "finish"
  <2>1. durable[t] = 0 /\ pending[t] = plan[t]
    BY <1>2, <1>4, <1>5, <1>9 DEF OutcomeInv
  <2>2. durable' = [durable EXCEPT ![t] = plan[t]]
    <3>1. durable[t] + pending[t] = plan[t]
      BY <1>8, <2>1
    <3>2. durable' = [durable EXCEPT ![t] = durable[t] + pending[t]]
      BY <1>5, <1>9
    <3>3. QED
      BY <3>1, <3>2
  <2>3. [u \in Threads |-> pc[u] # "idle"][t]
    BY <1>1
  <2>4. QED
    BY <1>7, <1>8, <2>1, <2>2, <2>3 DEF Contract!Store
<1>10. CASE ~(saved /\ pc[t] = "finish")
  <2>1. durable' = durable
    BY <1>1, <1>2, <1>4, <1>5, <1>8, <1>10 DEF OutcomeInv
  <2>2. QED
    BY <1>7, <1>8, <2>1 DEF Contract!vars
<1>11. QED
  BY <1>9, <1>10
LEMMA OtherContract ==
  ASSUME IInv, NEW t \in Threads,
         \/ Begin(t) \/ Dispatch(t) \/ Enter(t) \/ Write(t) \/ Served(t)
         \/ LoadRequest(t) \/ LoadHook(t) \/ LoadAbort(t) \/ LoadFailure(t)
         \/ ForgetRequest(t) \/ Restart(t) \/ Hook(t) \/ ForgetHook(t)
         \/ Catch(t) \/ ForgetAbort(t) \/ Recover(t) \/ ForgetFailure(t)
  PROVE  UNCHANGED Contract!vars
<1>1. UNCHANGED <<plan, durable, answer>>
  BY DEF Begin, Dispatch, Enter, Write, Served, ForgetRequest, Restart, Hook,
         ForgetHook, Catch, ForgetAbort, Recover, ForgetFailure, Forget,
         LoadRequest, LoadHook, LoadAbort, LoadFailure, Load,
         StartTransaction, Locals, request, database
<1>2. PICK label \in Labels \ {"idle"} : pc' = [pc EXCEPT ![t] = label]
  <2>1. CASE Begin(t) \/ Restart(t) \/ Recover(t)
    BY <2>1 DEF Begin, Restart, Recover, StartTransaction, Goto, Labels
  <2>2. CASE ForgetRequest(t) \/ ForgetHook(t) \/ ForgetAbort(t) \/ ForgetFailure(t)
    BY <2>2 DEF ForgetRequest, ForgetHook, ForgetAbort, ForgetFailure, Forget, Goto, Labels
  <2>3. CASE Dispatch(t) \/ Enter(t) \/ Served(t) \/ Hook(t) \/ Catch(t)
    BY <2>3 DEF Dispatch, Enter, Served, Hook, Catch, Goto, Labels
  <2>4. CASE Write(t)
    BY <2>4 DEF Write, Labels, IInv, TypeOK
  <2>5. CASE LoadRequest(t) \/ LoadHook(t) \/ LoadAbort(t) \/ LoadFailure(t)
    BY <2>5 DEF LoadRequest, LoadHook, LoadAbort, LoadFailure, Load, Goto, Labels, FinishLabels
  <2>6. QED
    BY <2>1, <2>2, <2>3, <2>4, <2>5
<1>3. pc[t] # "idle"
  BY DEF Begin, Dispatch, Enter, Write, Served, ForgetRequest, Restart, Hook,
         ForgetHook, Catch, ForgetAbort, Recover, ForgetFailure, Forget,
         LoadRequest, LoadHook, LoadAbort, LoadFailure, Load
<1>4. \A u \in Threads : (pc'[u] # "idle") = (pc[u] # "idle")
  BY <1>2, <1>3 DEF IInv, TypeOK
<1>5. QED
  BY <1>1, <1>4 DEF Contract!vars

LEMMA AnswerContract ==
  ASSUME IInv, NEW t \in Threads, Answer(t) \/ Panic(t)
  PROVE  Contract!Answer(t)
<1>1. /\ OutcomeInv(t) /\ pc \in [Threads -> Labels]
  BY DEF IInv, TypeOK
<1>2. pc[t] # "idle" /\ pc' = [pc EXCEPT ![t] = "idle"] /\ UNCHANGED <<plan, durable>>
  BY DEF Answer, Panic, Goto, request, database
<1>3. [u \in Threads |-> pc[u] # "idle"][t]
  BY <1>2
<1>4. [u \in Threads |-> pc[u] # "idle"]' =
        [[u \in Threads |-> pc[u] # "idle"] EXCEPT ![t] = FALSE]
  BY <1>1, <1>2
<1>5. PICK a \in {"view", "form", "panic"} :
        /\ a = "view" => durable[t] = plan[t]
        /\ a = "form" => durable[t] = 0
        /\ answer' = [answer EXCEPT ![t] = a]
  BY <1>1 DEF Answer, Panic, OutcomeInv, SettledLabels
<1>6. QED
  BY <1>2, <1>3, <1>4, <1>5 DEF Contract!Answer

LEMMA AcceptContract ==
  ASSUME IInv, NEW t \in Threads, NEW c \in Controllers, NEW n \in 0..MaxWrites,
         Accept(t, c, n)
  PROVE  Contract!Accept(t)
<1>1. pc \in [Threads -> Labels]
  BY DEF IInv, TypeOK
<1>2. pc[t] = "idle" /\ pc' = [pc EXCEPT ![t] = "begin"]
  BY DEF Accept, Goto
<1>3. ~[u \in Threads |-> pc[u] # "idle"][t]
  BY <1>2
<1>4. [u \in Threads |-> pc[u] # "idle"]' =
        [[u \in Threads |-> pc[u] # "idle"] EXCEPT ![t] = TRUE]
  BY <1>1, <1>2
<1>5. QED
  BY <1>3, <1>4 DEF Accept, Contract!Accept

(* Every behaviour of the handler is one that the contract allows; that    *)
(* every request is answered is left to the model checker.                 *)
THEOREM ImplementsContractSafety ==
  ASSUME InFlight = 1
  PROVE  Spec => Contract!Init /\ [][Contract!Next]_(Contract!vars)
<1>1. ASSUME IInv, [Next]_vars PROVE [Contract!Next]_(Contract!vars)
  <2>1. ASSUME NEW t \in Threads, Step(t) PROVE [Contract!Next]_(Contract!vars)
    BY <1>1, <2>1, CompleteContract, OtherContract, AnswerContract DEF Step, Contract!Next
  <2>2. ASSUME NEW t \in Threads, NEW c \in Controllers, NEW n \in 0..MaxWrites,
               Accept(t, c, n)
        PROVE  Contract!Next
    BY <1>1, <2>2, AcceptContract DEF Contract!Next
  <2>3. CASE UNCHANGED vars
    BY <2>3 DEF vars, request, database, Contract!vars
  <2>4. QED
    BY <1>1, <2>1, <2>2, <2>3 DEF Next
<1>2. QED
  BY <1>1, ContractInit, Invariance, PTL DEF Spec

-----------------------------------------------------------------------------
(* What holds however many requests a controller serves at a time: a       *)
(* transaction that the field refers to, and that began with its status,   *)
(* belongs to a thread that is still between its start and its completion, *)
(* and that completes no other.                                            *)

HeldInv ==
  \A c \in Controllers, t \in Threads :
    status[c] = Begun(t) => /\ ctl[t] = c
                            /\ pc[t] \in OpenLabels \cup {"catch"}
                            /\ pc[t] \in FinishLabels => taken[t] = Begun(t)

(* The threads whose transaction has been overtaken do not get it back. *)
StayLost ==
  \A t \in Threads :
    bound[t] = "active" /\ ~Completable(t) /\ ~InHand(t) =>
      /\ status'[ctl'[t]] # Begun(t)
      /\ \A u \in Threads : taken'[u] # Begun(t)
      /\ durable'[t] <= durable[t]

LEMMA HeldNow ==
  ASSUME \A c \in Controllers, u \in Threads :
           status'[c] = Begun(u) => /\ ctl'[u] = c
                                    /\ pc'[u] \in OpenLabels \cup {"catch"}
                                    /\ pc'[u] \in FinishLabels => taken'[u] = Begun(u)
  PROVE  HeldInv'
BY DEF HeldInv, Begun

LEMMA StartHeld ==
  ASSUME TypeOK, HeldInv, NEW t \in Threads, NEW next \in OpenLabels, NEW oops,
         next \notin FinishLabels, pc[t] \notin OpenLabels \cup {"catch"},
         StartTransaction(t, next, oops), UNCHANGED ctl
  PROVE  HeldInv' /\ StayLost
<1>0. \A u \in Threads : durable[u] <= durable[u]
  BY DEF TypeOK
<1>1. CASE UNCHANGED database /\ Goto(t, oops)
  BY <1>0, <1>1 DEF TypeOK, HeldInv, StayLost, Completable, InHand, Goto, database
<1>2. CASE /\ status' = [status EXCEPT ![ctl[t]] =
                           [owner |-> t, new |-> bound[t] = "none", done |-> FALSE]]
           /\ Goto(t, next)
           /\ UNCHANGED <<durable, taken>>
  <2>1. ASSUME NEW c \in Controllers, NEW u \in Threads, status'[c] = Begun(u)
        PROVE  \/ c = ctl[t] /\ u = t /\ bound[t] = "none"
               \/ c # ctl[t] /\ u # t /\ status[c] = Begun(u)
    <3>1. CASE c = ctl[t]
      <4>1. status'[c] = [owner |-> t, new |-> bound[t] = "none", done |-> FALSE]
        BY <1>2, <3>1 DEF TypeOK
      <4>2. u = t
        BY <2>1, <3>1, <4>1 DEF Begun
      <4>3. ASSUME bound[t] # "none" PROVE FALSE
        <5>1. status'[c] = [owner |-> t, new |-> FALSE, done |-> FALSE]
          BY <3>1, <4>1, <4>3
        <5> QED
          BY <2>1, <5>1 DEF Begun
      <4> QED
        BY <3>1, <4>2, <4>3
    <3>2. CASE c # ctl[t]
      <4>1. status[c] = Begun(u)
        BY <1>2, <2>1, <3>2 DEF TypeOK
      <4> QED
        BY <3>2, <4>1 DEF HeldInv
    <3> QED
      BY <3>1, <3>2
  <2>2. HeldInv'
    <3> SUFFICES ASSUME NEW c \in Controllers, NEW u \in Threads, status'[c] = Begun(u)
                 PROVE  /\ ctl'[u] = c
                        /\ pc'[u] \in OpenLabels \cup {"catch"}
                        /\ pc'[u] \in FinishLabels => taken'[u] = Begun(u)
      BY HeldNow
    <3>1. pc'[t] = next /\ \A w \in Threads \ {t} : pc'[w] = pc[w]
      BY <1>2 DEF TypeOK, Goto
    <3> QED
      BY <1>2, <2>1, <3>1 DEF HeldInv
  <2>3. StayLost
    BY <1>0, <1>2, <2>1 DEF TypeOK, StayLost, Completable, InHand
  <2>4. QED
    BY <2>2, <2>3
<1>3. QED
  BY <1>1, <1>2 DEF StartTransaction

LEMMA LoadHeld ==
  ASSUME TypeOK, HeldInv, NEW t \in Threads, NEW label, NEW next \in OpenLabels, NEW oops,
         next \in FinishLabels, oops \notin FinishLabels,
         pc[t] \in OpenLabels \ FinishLabels, Load(t, label, next, oops)
  PROVE  HeldInv' /\ StayLost
<1>0. /\ \A u \in Threads : durable[u] <= durable[u]
      /\ UNCHANGED <<ctl, status, durable>>
  BY DEF TypeOK, Load, request
<1>1. CASE taken' = [taken EXCEPT ![t] = status[ctl[t]]] /\ Goto(t, next)
  <2>1. HeldInv'
    <3> SUFFICES ASSUME NEW c \in Controllers, NEW u \in Threads, status'[c] = Begun(u)
                 PROVE  /\ ctl'[u] = c
                        /\ pc'[u] \in OpenLabels \cup {"catch"}
                        /\ pc'[u] \in FinishLabels => taken'[u] = Begun(u)
      BY HeldNow
    <3>1. /\ pc'[t] = next /\ taken'[t] = status[ctl[t]]
          /\ \A w \in Threads \ {t} : pc'[w] = pc[w] /\ taken'[w] = taken[w]
      BY <1>1 DEF TypeOK, Goto
    <3> QED
      BY <1>0, <3>1 DEF HeldInv
  <2>2. ASSUME NEW u \in Threads, ~Completable(u), ~InHand(u)
        PROVE  /\ status[ctl[u]] # Begun(u)
               /\ \A w \in Threads : taken'[w] # Begun(u)
    <3>1. status[ctl[u]] # Begun(u) /\ \A w \in Threads : taken[w] # Begun(u)
      BY <2>2 DEF Completable, InHand
    <3>2. status[ctl[t]] # Begun(u)
      BY <3>1 DEF HeldInv, TypeOK
    <3> QED
      BY <1>1, <3>1, <3>2 DEF TypeOK
  <2> QED
    BY <1>0, <2>1, <2>2 DEF StayLost, Begun
<1>2. CASE ~Active(ctl[t]) /\ Goto(t, oops) /\ UNCHANGED taken
  <2>1. status[ctl[t]] # Begun(t)
    BY <1>2, BegunIsStatus DEF Active
  <2>2. HeldInv'
    <3> SUFFICES ASSUME NEW c \in Controllers, NEW u \in Threads, status'[c] = Begun(u)
                 PROVE  /\ ctl'[u] = c
                        /\ pc'[u] \in OpenLabels \cup {"catch"}
                        /\ pc'[u] \in FinishLabels => taken'[u] = Begun(u)
      BY HeldNow
    <3>1. \A w \in Threads \ {t} : pc'[w] = pc[w]
      BY <1>2 DEF TypeOK, Goto
    <3> QED
      BY <1>0, <1>2, <2>1, <3>1 DEF HeldInv
  <2> QED
    BY <1>0, <1>2, <2>2 DEF StayLost, Completable, InHand, Begun
<1>3. QED
  BY <1>1, <1>2 DEF Load

LEMMA CompleteHeld ==
  ASSUME TypeOK, HeldInv, NEW t \in Threads, NEW commit \in BOOLEAN, NEW next, NEW oops,
         pc[t] \in FinishLabels, Complete(t, commit, next, oops), UNCHANGED ctl
  PROVE  HeldInv' /\ StayLost
<1> DEFINE s == taken[t]
<1>0. /\ s \in Status /\ s # NoStatus /\ s.owner \in Threads
      /\ \A u \in Threads : pending[u] \in Nat /\ durable[u] \in Nat
      /\ ctl[t] \in Controllers
  BY CompleteGoes DEF TypeOK, Status
<1>1. \A u \in Threads \ {t} : pc'[u] = pc[u]
  BY CompleteGoes DEF Goto, TypeOK
(* Marking begins no transaction, nor does it undo the completion of one. *)
<1>2. ASSUME NEW objects, NoStatus \notin objects, MarkCompleted(t, objects)
      PROVE  /\ \A c \in Controllers, u \in Threads :
                  status'[c] = Begun(u) => status[c] = Begun(u) /\ Begun(u) \notin objects
             /\ \A w, u \in Threads : taken'[w] = Begun(u) => taken[w] = Begun(u)
  <2>1. ASSUME NEW x \in Status \cup {NoStatus}, NEW u \in Threads, x \in objects,
               [x EXCEPT !.done = TRUE] = Begun(u)
        PROVE  FALSE
    <3>1. x \in Status
      BY <1>2, <2>1
    <3>2. [x EXCEPT !.done = TRUE].done = TRUE
      BY <3>1 DEF Status
    <3> QED
      BY <2>1, <3>2 DEF Begun
  <2>2. /\ \A c \in Controllers : status[c] \in Status \cup {NoStatus}
        /\ \A w \in Threads : taken[w] \in Status \cup {NoStatus}
    BY DEF TypeOK
  <2>3. /\ taken'[t] = NoStatus
        /\ \A c \in Controllers :
             status'[c] = IF status[c] \in objects THEN [status[c] EXCEPT !.done = TRUE]
                          ELSE status[c]
        /\ \A w \in Threads \ {t} :
             taken'[w] = IF taken[w] \in objects THEN [taken[w] EXCEPT !.done = TRUE]
                         ELSE taken[w]
    BY <1>2 DEF MarkCompleted
  <2>4. \A u \in Threads : NoStatus # Begun(u)
    BY BegunIsStatus
  <2>5. ASSUME NEW c \in Controllers, NEW u \in Threads, status'[c] = Begun(u)
        PROVE  status[c] = Begun(u) /\ Begun(u) \notin objects
    BY <2>1, <2>2, <2>3, <2>5
  <2>6. ASSUME NEW w \in Threads, NEW u \in Threads, taken'[w] = Begun(u)
        PROVE  taken[w] = Begun(u)
    BY <2>1, <2>2, <2>3, <2>4, <2>6
  <2> QED
    BY <2>5, <2>6
<1>3. ASSUME NEW u \in Threads, s.owner = u, s.new, ~s.done PROVE s = Begun(u)
  BY <1>0, <1>3 DEF Status, Begun
<1>4. PICK objects :
        /\ NoStatus \notin objects
        /\ MarkCompleted(t, objects)
        /\ s = Begun(t) => Begun(t) \in objects
  <2>1. CASE /\ s.done \/ ~s.new
             /\ \E objects \in {{}, {s}} : MarkCompleted(t, objects)
    <3>1. s # Begun(t)
      BY <2>1 DEF Begun
    <3> QED
      BY <1>0, <2>1, <3>1
  <2>2. ASSUME NEW part, EndTransaction(t, s, part)
        PROVE  MarkCompleted(t, {s, Begun(t)})
    BY <2>2 DEF EndTransaction
  <2>3. NoStatus \notin {s, Begun(t)}
    BY <1>0, BegunIsStatus
  <2> QED
    BY <2>1, <2>2, <2>3, CompleteCases
<1>5. HeldInv'
  <2> SUFFICES ASSUME NEW c \in Controllers, NEW u \in Threads, status'[c] = Begun(u)
               PROVE  /\ ctl[u] = c
                      /\ pc'[u] \in OpenLabels \cup {"catch"}
                      /\ pc'[u] \in FinishLabels => taken'[u] = Begun(u)
    BY DEF HeldInv, Begun
  <2>1. status[c] = Begun(u) /\ Begun(u) \notin objects
    BY <1>2, <1>4
  <2>2. /\ ctl[u] = c /\ pc[u] \in OpenLabels \cup {"catch"}
        /\ pc[u] \in FinishLabels => taken[u] = Begun(u)
    BY <2>1 DEF HeldInv
  <2>3. u # t
    BY <1>4, <2>1, <2>2
  <2>4. pc[u] \in FinishLabels => taken'[u] = taken[u]
    <3>1. taken'[u] = IF taken[u] \in objects THEN [taken[u] EXCEPT !.done = TRUE]
                      ELSE taken[u]
      BY <1>4, <2>3 DEF MarkCompleted
    <3> QED
      BY <2>1, <2>2, <3>1
  <2> QED
    BY <1>1, <2>2, <2>3, <2>4
<1>6. ASSUME NEW u \in Threads, ~InHand(u)
      PROVE  durable'[u] <= durable[u]
  <2>1. \A w \in Threads : taken[w] # Begun(u)
    BY <1>6 DEF InHand
  <2>2. CASE UNCHANGED durable
    BY <1>0, <2>2
  <2>3. ASSUME NEW part \in 0..pending[s.owner], NEW commit2 \in BOOLEAN, NEW ok \in BOOLEAN,
               MayBeSaved(t, s, commit2, ok, part), s.new, EndTransaction(t, s, part)
        PROVE  durable'[u] <= durable[u]
    <3>1. PICK rest \in 0..pending[t] :
            /\ rest > 0 => t # s.owner /\ Shared(t, Begun(t))
            /\ durable' = [w \in Threads |-> durable[w] + (IF w = s.owner THEN part ELSE 0)
                                              + (IF w = t THEN rest ELSE 0)]
      BY <2>3 DEF EndTransaction
    <3>2. s.owner = u => part = 0
      <4>1. s.owner = u => s.done
        BY <1>3, <2>1, <2>3
      <4> QED
        BY <2>3, <4>1 DEF MayBeSaved
    <3>3. u = t => rest = 0
      <4>1. u = t => ~Shared(t, Begun(t))
        BY <2>1 DEF Shared
      <4> QED
        BY <1>0, <3>1, <4>1
    <3>4. part \in Nat /\ rest \in Nat
      BY <1>0, <2>3, <3>1
    <3> QED
      BY <1>0, <3>1, <3>2, <3>3, <3>4 DEF TypeOK
  <2> QED
    BY <2>2, <2>3, CompleteCases
<1>7. StayLost
  <2> SUFFICES ASSUME NEW u \in Threads, ~Completable(u), ~InHand(u)
               PROVE  /\ status'[ctl[u]] # Begun(u)
                      /\ \A w \in Threads : taken'[w] # Begun(u)
                      /\ durable'[u] <= durable[u]
    BY DEF StayLost, Begun
  <2>1. ctl[u] \in Controllers
    BY DEF TypeOK
  <2> QED
    BY <1>2, <1>4, <1>6, <2>1 DEF Completable, InHand
<1>8. QED
  BY <1>5, <1>7

LEMMA ForgetHeld ==
  ASSUME TypeOK, HeldInv, NEW t \in Threads, NEW label, NEW next,
         label \notin FinishLabels, next \notin FinishLabels, Forget(t, label, next)
  PROVE  HeldInv' /\ StayLost
<1>0. \A u \in Threads : durable[u] <= durable[u]
  BY DEF TypeOK
<1>1. /\ \A u \in Threads : status'[ctl[t]] # Begun(u)
      /\ UNCHANGED <<ctl, taken, durable>>
  BY BegunIsStatus DEF TypeOK, Forget, request
<1>2. \A c \in Controllers \ {ctl[t]} : status'[c] = status[c]
  BY DEF TypeOK, Forget
<1>3. HeldInv'
  BY <1>1, <1>2 DEF TypeOK, HeldInv, Forget, Goto, Begun
<1>4. StayLost
  BY <1>0, <1>1, <1>2 DEF TypeOK, StayLost, Completable, InHand, Begun
<1> QED
  BY <1>3, <1>4

(* A step that leaves the field and what has been loaded alone. *)
LEMMA LocalHeld ==
  ASSUME TypeOK, HeldInv, NEW t \in Threads, UNCHANGED <<status, taken>>,
         \A u \in Threads : durable'[u] <= durable[u],
         \A u \in Threads \ {t} : pc'[u] = pc[u] /\ ctl'[u] = ctl[u],
         ctl'[t] \in Controllers,
         \/ pc[t] \notin OpenLabels \cup {"catch"}
         \/ /\ pc'[t] \in (OpenLabels \cup {"catch"}) \ FinishLabels
            /\ UNCHANGED ctl
         \/ status[ctl[t]] # Begun(t) /\ UNCHANGED ctl
  PROVE  HeldInv' /\ StayLost
<1>1. HeldInv'
  <2> SUFFICES ASSUME NEW c \in Controllers, NEW u \in Threads, status'[c] = Begun(u)
               PROVE  /\ ctl'[u] = c
                      /\ pc'[u] \in OpenLabels \cup {"catch"}
                      /\ pc'[u] \in FinishLabels => taken'[u] = Begun(u)
    BY HeldNow
  <2> QED
    BY DEF HeldInv
<1>2. StayLost
  <2> SUFFICES ASSUME NEW u \in Threads, status[ctl[u]] # Begun(u), status[ctl'[u]] = Begun(u)
               PROVE  FALSE
    BY DEF StayLost, Completable, InHand, Begun
  <2>1. u = t /\ ctl'[t] # ctl[t]
    OBVIOUS
  <2>2. pc[t] \notin OpenLabels \cup {"catch"}
    BY <2>1
  <2>3. QED
    BY <2>1, <2>2 DEF HeldInv
<1>3. QED
  BY <1>1, <1>2

LEMMA HeldStep ==
  ASSUME TypeOK, TypeOK', HeldInv, NEW t \in Threads, Step(t)
  PROVE  HeldInv' /\ StayLost
<1> USE DEF OpenLabels, MainLabels, HookLabels
<1>1. CASE Begin(t) \/ Restart(t) \/ Recover(t)
  <2>1. PICK next \in {"dispatch", "hook", "onFailure"}, oops \in {"catch", "escape"} :
          /\ StartTransaction(t, next, oops)
          /\ pc[t] \in {"begin", "restart", "recover"}
          /\ UNCHANGED Locals
    BY <1>1, StartCalls
  <2>2. /\ next \in OpenLabels \ FinishLabels /\ UNCHANGED ctl
        /\ pc[t] \notin OpenLabels \cup {"catch"}
    BY <2>1 DEF FinishLabels, Locals
  <2> QED
    BY <2>1, <2>2, StartHeld
<1>2. CASE FinishRequest(t) \/ FinishHook(t) \/ FinishAbort(t) \/ FinishFailure(t)
  <2>1. \E commit \in BOOLEAN : \E next, oops :
          /\ Complete(t, commit, next, oops)
          /\ pc[t] \in FinishLabels
          /\ UNCHANGED Locals
    BY <1>2, FinishCalls
  <2> QED
    BY <2>1, CompleteHeld DEF Locals
<1>3. CASE LoadRequest(t) \/ LoadHook(t) \/ LoadAbort(t) \/ LoadFailure(t)
  <2>1. PICK next \in FinishLabels, oops \in {"catch", "escape"} :
          /\ Load(t, pc[t], next, oops)
          /\ pc[t] \in {"complete", "commitHook", "abort", "onFailure"}
    BY <1>3, LoadCalls
  <2>2. /\ next \in OpenLabels /\ oops \notin FinishLabels
        /\ pc[t] \in OpenLabels \ FinishLabels
    BY <2>1 DEF FinishLabels
  <2> QED
    BY <2>1, <2>2, LoadHeld
<1>4. CASE ForgetRequest(t) \/ ForgetHook(t) \/ ForgetAbort(t) \/ ForgetFailure(t)
  BY <1>4, ForgetHeld
  DEF ForgetRequest, ForgetHook, ForgetAbort, ForgetFailure, FinishLabels
<1>5. CASE Dispatch(t) \/ Enter(t) \/ Write(t) \/ Served(t) \/ Hook(t)
  <2>1. pc'[t] \in (OpenLabels \cup {"catch"}) \ FinishLabels
    BY <1>5 DEF Dispatch, Enter, Write, Served, Hook, Goto, TypeOK, FinishLabels
  <2>2. /\ UNCHANGED <<ctl, status, taken, durable>>
        /\ \A u \in Threads \ {t} : pc'[u] = pc[u]
    BY <1>5 DEF Dispatch, Enter, Write, Served, Hook, Goto, TypeOK, request, database
  <2>3. ctl[t] \in Controllers /\ \A u \in Threads : durable'[u] <= durable[u]
    BY <2>2 DEF TypeOK
  <2>4. QED
    BY <2>1, <2>2, <2>3, LocalHeld
<1>6. CASE Catch(t)
  <2>1. Active(ctl[t]) \/ status[ctl[t]] # Begun(t)
    BY BegunIsStatus DEF Active
  <2>2. pc'[t] = IF Active(ctl[t]) THEN "abort" ELSE "recover"
    BY <1>6 DEF Catch, Goto, TypeOK
  <2>3. /\ UNCHANGED <<ctl, status, taken, durable>>
        /\ \A u \in Threads \ {t} : pc'[u] = pc[u]
    BY <1>6 DEF Catch, Goto, TypeOK, request, database
  <2>4. ctl[t] \in Controllers /\ \A u \in Threads : durable'[u] <= durable[u]
    BY <2>3 DEF TypeOK
  <2>5. QED
    BY <2>1, <2>2, <2>3, <2>4, LocalHeld DEF FinishLabels
<1>7. CASE Answer(t) \/ Panic(t)
  <2>1. pc[t] \notin OpenLabels \cup {"catch"}
    BY <1>7 DEF Answer, Panic
  <2>2. /\ UNCHANGED <<ctl, status, taken, durable>>
        /\ \A u \in Threads \ {t} : pc'[u] = pc[u]
    BY <1>7 DEF Answer, Panic, Goto, TypeOK, request, database
  <2>3. ctl[t] \in Controllers /\ \A u \in Threads : durable'[u] <= durable[u]
    BY <2>2 DEF TypeOK
  <2>4. QED
    BY <2>1, <2>2, <2>3, LocalHeld
<1>8. QED
  BY <1>1, <1>2, <1>3, <1>4, <1>5, <1>6, <1>7 DEF Step

LEMMA HeldNext ==
  ASSUME TypeOK, HeldInv, [Next]_vars
  PROVE  HeldInv' /\ StayLost
<1>1. TypeOK'
  BY NextType
<1>2. CASE UNCHANGED vars
  <2>1. UNCHANGED <<pc, ctl, status, taken, durable>>
    BY <1>2 DEF vars, request, database
  <2>2. \A u \in Threads : durable'[u] <= durable[u]
    BY <2>1 DEF TypeOK
  <2> QED
    BY <2>1, <2>2 DEF HeldInv, StayLost, Completable, InHand, Begun
<1>3. ASSUME NEW t \in Threads, Step(t) PROVE HeldInv' /\ StayLost
  BY <1>1, <1>3, HeldStep
<1>4. ASSUME NEW t \in Threads, NEW c \in Controllers, NEW n \in 0..MaxWrites,
             Accept(t, c, n)
      PROVE  HeldInv' /\ StayLost
  <2>1. pc[t] \notin OpenLabels \cup {"catch"}
    BY <1>4 DEF Accept, OpenLabels, MainLabels, HookLabels
  <2>2. /\ UNCHANGED status
        /\ \A u \in Threads \ {t} : pc'[u] = pc[u] /\ ctl'[u] = ctl[u]
        /\ ctl'[t] \in Controllers
        /\ taken' = taken
        /\ \A u \in Threads : durable'[u] <= durable[u]
    BY <1>4 DEF Accept, Goto, TypeOK
  <2>3. QED
    BY <2>1, <2>2, LocalHeld
<1>5. QED
  BY <1>2, <1>3, <1>4 DEF Next

(* Also when requests overlap, however many of them: a request whose       *)
(* transaction was overtaken in transactionStatus before anybody had       *)
(* loaded it never gets it back, and nobody saves any of its writes.       *)
THEOREM OvertakenStaysLost == Spec => OvertakenIsLost
<1> DEFINE A == \A t \in Threads :
                  bound[t] = "active" /\ ~Completable(t) /\ ~InHand(t) =>
                    ~Completable(t)' /\ ~InHand(t)' /\ durable'[t] <= durable[t]
<1>1. Init => HeldInv
  BY BegunIsStatus DEF Init, HeldInv
<1>2. ASSUME TypeOK, HeldInv, [Next]_vars PROVE HeldInv' /\ [A]_vars
  <2>1. HeldInv' /\ StayLost
    BY <1>2, HeldNext
  <2>2. QED
    BY <2>1 DEF StayLost, Completable, InHand, Begun
<1>3. QED
  BY <1>1, <1>2, TypeCorrect, PTL DEF Spec, OvertakenIsLost

-----------------------------------------------------------------------------
(* How long a request can take: the longest way from a place of the        *)
(* handler to its end, and the writes that are still to be issued.         *)

Rank ==
  [begin |-> 20, dispatch |-> 19, enter |-> 18, serve |-> 17, complete |-> 16,
   finish |-> 15, forget |-> 14, restart |-> 13, hook |-> 12, commitHook |-> 11,
   finishHook |-> 10, catch |-> 9, abort |-> 8, finishAbort |-> 7,
   forgetAbort |-> 6, recover |-> 5, onFailure |-> 4, finishFailure |-> 3,
   forgetFailure |-> 2, forgetHook |-> 2, answer |-> 1, panic |-> 1,
   escape |-> 1, idle |-> 0]

Left(t) == Rank[pc[t]] + (plan[t] - written[t])

WrittenInv == \A t \in Threads : written[t] <= plan[t] /\ plan[t] <= MaxWrites

LEMMA RankType == \A l \in Labels : Rank[l] \in 0..20
BY DEF Rank, Labels, FinishLabels

LEMMA LeftIsBounded ==
  ASSUME TypeOK, WrittenInv, NEW t \in Threads
  PROVE  Left(t) \in 0..(20 + MaxWrites)
<1>1. Rank[pc[t]] \in 0..20 /\ plan[t] \in Nat /\ written[t] \in Nat
  BY RankType DEF TypeOK
<1> QED
  BY <1>1, BoundsAssumption DEF WrittenInv, Left

(* Every step but Write goes down in the order of Rank. *)
LEMMA StepDown ==
  ASSUME TypeOK, NEW t \in Threads, Step(t), ~Write(t)
  PROVE  /\ Rank[pc'[t]] < Rank[pc[t]]
         /\ \A u \in Threads \ {t} : pc'[u] = pc[u]
         /\ UNCHANGED <<plan, written>>
<1>1. CASE Begin(t) \/ Restart(t) \/ Recover(t)
  <2>1. PICK next \in Labels, oops \in Labels :
          /\ Rank[next] < Rank[pc[t]] /\ Rank[oops] < Rank[pc[t]]
          /\ StartTransaction(t, next, oops)
    BY <1>1 DEF Begin, Restart, Recover, Labels, Rank
  <2> QED
    BY <1>1, <2>1 DEF StartTransaction, Goto, TypeOK, Begin, Restart, Recover, Locals
<1>2. CASE FinishRequest(t) \/ FinishHook(t) \/ FinishAbort(t) \/ FinishFailure(t)
  <2>1. PICK commit \in BOOLEAN,
             next \in {"forget", "forgetHook", "forgetAbort", "forgetFailure"},
             oops \in {"catch", "escape"} :
          /\ Complete(t, commit, next, oops)
          /\ pc[t] \in FinishLabels
          /\ pc[t] = "finish" <=> next = "forget"
          /\ pc[t] = "finishHook" <=> next = "forgetHook"
          /\ pc[t] = "finishAbort" <=> next = "forgetAbort"
          /\ pc[t] = "finishFailure" <=> next = "forgetFailure"
          /\ pc[t] \in {"finish", "finishHook"} <=> oops = "catch"
          /\ UNCHANGED Locals
    BY <1>2, FinishCalls
  <2>2. \E label \in {next, oops} : Goto(t, label)
    BY <2>1, CompleteGoes
  <2>3. Rank[next] < Rank[pc[t]] /\ Rank[oops] < Rank[pc[t]]
    BY <2>1 DEF Rank, FinishLabels
  <2> QED
    BY <2>1, <2>2, <2>3 DEF Goto, TypeOK, Locals
<1>6. CASE LoadRequest(t) \/ LoadHook(t) \/ LoadAbort(t) \/ LoadFailure(t)
  BY <1>6 DEF LoadRequest, LoadHook, LoadAbort, LoadFailure, Load, Goto,
              TypeOK, request, Rank
<1>3. CASE ForgetRequest(t) \/ ForgetHook(t) \/ ForgetAbort(t) \/ ForgetFailure(t)
  BY <1>3 DEF ForgetRequest, ForgetHook, ForgetAbort, ForgetFailure, Forget, Goto,
              TypeOK, request, Rank
<1>4. CASE Dispatch(t) \/ Enter(t) \/ Served(t) \/ Hook(t) \/ Catch(t)
  BY <1>4 DEF Dispatch, Enter, Served, Hook, Catch, Goto, TypeOK, request, Rank
<1>5. CASE Answer(t) \/ Panic(t)
  BY <1>5 DEF Answer, Panic, Goto, TypeOK, request, Rank
<1> QED
  BY <1>1, <1>2, <1>3, <1>4, <1>5, <1>6 DEF Step

LEMMA StepLeft ==
  ASSUME TypeOK, TypeOK', WrittenInv, NEW t \in Threads, Step(t)
  PROVE  /\ WrittenInv'
         /\ Left(t)' < Left(t)
         /\ \A u \in Threads \ {t} : Left(u)' = Left(u)
<1>1. /\ Rank[pc[t]] \in 0..20 /\ Rank[pc'[t]] \in 0..20
      /\ \A u \in Threads : plan[u] \in Nat /\ written[u] \in Nat
  BY RankType DEF TypeOK
<1>2. CASE Write(t)
  <2>1. /\ pc' = pc /\ plan' = plan
        /\ written[t] < plan[t] /\ written'[t] = written[t] + 1
        /\ \A u \in Threads \ {t} : written'[u] = written[u]
    BY <1>2 DEF Write, TypeOK
  <2> QED
    BY <1>1, <2>1 DEF WrittenInv, Left
<1>3. CASE ~Write(t)
  BY <1>1, <1>3, StepDown DEF WrittenInv, Left
<1> QED
  BY <1>2, <1>3

LEMMA WrittenNext == TypeOK /\ WrittenInv /\ [Next]_vars => WrittenInv'
<1> SUFFICES ASSUME TypeOK, WrittenInv, [Next]_vars PROVE WrittenInv'
  OBVIOUS
<1>1. TypeOK'
  BY NextType
<1>2. ASSUME NEW t \in Threads, NEW c \in Controllers, NEW n \in 0..MaxWrites,
             Accept(t, c, n)
      PROVE  WrittenInv'
  BY <1>2, BoundsAssumption DEF Accept, TypeOK, WrittenInv
<1>3. CASE UNCHANGED vars
  BY <1>3 DEF vars, request, WrittenInv
<1> QED
  BY <1>1, <1>2, <1>3, StepLeft DEF Next

(* However many requests a controller serves at a time, each takes at most *)
(* 20 steps of its thread and one for each write (handleRequest has no     *)
(* loop), and no step of another thread, overtaken transactions included,  *)
(* makes it longer or shorter.                                             *)
THEOREM RequestsAreBounded ==
  Spec => /\ [](\A t \in Threads : Left(t) \in 0..(20 + MaxWrites))
          /\ [][\A t \in Threads :
                  Step(t) => /\ Left(t)' < Left(t)
                             /\ \A u \in Threads \ {t} : Left(u)' = Left(u)]_vars
<1>1. Init => WrittenInv
  BY BoundsAssumption DEF Init, WrittenInv
<1>2. TypeOK /\ WrittenInv => \A t \in Threads : Left(t) \in 0..(20 + MaxWrites)
  BY LeftIsBounded
<1>3. TypeOK /\ TypeOK' /\ WrittenInv /\ [Next]_vars
      => [\A t \in Threads :
            Step(t) => /\ Left(t)' < Left(t)
                       /\ \A u \in Threads \ {t} : Left(u)' = Left(u)]_vars
  BY StepLeft
<1> QED
  BY <1>1, <1>2, <1>3, WrittenNext, TypeCorrect, PTL DEF Spec

=============================================================================
