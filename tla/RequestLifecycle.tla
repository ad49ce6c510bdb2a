-------------------------- MODULE RequestLifecycle --------------------------
(***************************************************************************)
(* The life of a request in framework/controllers/AbstractController.java  *)
(* and the programmatic transactions it opens on the way.                  *)
(*                                                                         *)
(* There is one controller object per pair of role and entity, and every   *)
(* thread of the servlet container that serves a request of that pair runs *)
(* 'handleRequest' on the same object.  The object keeps the status of     *)
(* "the" current transaction in a field, transactionStatus, so the field   *)
(* is shared by those threads, while the persistence context that a        *)
(* transaction uses is bound by Spring to the thread that began it.        *)
(*                                                                         *)
(* The transaction manager (Spring's JpaTransactionManager, not part of    *)
(* the repository) is modelled from the calls that the controller makes:   *)
(* getTransaction, commit, rollback and the MANDATORY check of doGet and   *)
(* doPost.  Reads and writes of the field are atomic and ordered.          *)
(*                                                                         *)
(* commitTransaction is three steps: the assertion and the load of the     *)
(* field, the commit of the status that was loaded, which takes its time   *)
(* in the database, and the assignment of null.  Between any two of them   *)
(* another request of the controller may begin, read and commit; so the    *)
(* controller does not serialise the transactions that are saved.          *)
(***************************************************************************)
EXTENDS Naturals, FiniteSets

CONSTANTS
  Threads,       \* the worker threads of the servlet container
  Controllers,   \* the controllers, one per role and entity
  MaxWrites,     \* bound: the most entities that one request saves or deletes
  InFlight,      \* bound: the requests that one controller serves at a time
  NoStatus       \* the null of transactionStatus

ASSUME ThreadsAssumption == IsFiniteSet(Threads)
ASSUME BoundsAssumption == MaxWrites \in Nat /\ InFlight \in Nat

(* A TransactionStatus: the thread whose persistence context it completes, *)
(* whether it began that transaction or joined it, and isCompleted().      *)
Status == [owner : Threads, new : BOOLEAN, done : BOOLEAN]

ASSUME NoStatusAssumption == NoStatus \notin Status

VARIABLES
  pc,        \* pc[t]: where thread t is in handleRequest
  ctl,       \* ctl[t]: the controller that t runs or ran last
  svc,       \* svc[t]: the local variable 'service' is not null
  errs,      \* errs[t]: response.hasErrors()
  plan,      \* plan[t]: the writes that the request of t makes if it is valid
  written,   \* written[t]: how many of them have been issued
  pending,   \* pending[t]: how many of them wait for the commit of the
             \* transaction that is bound to t
  durable,   \* durable[t]: how many of them have been committed
  status,    \* status[c]: the field transactionStatus of controller c
  bound,     \* bound[t]: the persistence context that Spring bound to t
  taken,     \* taken[t]: the status that t has loaded from the field and is
             \* committing or rolling back
  leaked,    \* the threads that lost an active transaction, which nobody
             \* can commit or roll back any more
  answer     \* answer[t]: the last answer of t

request == <<ctl, svc, errs, plan, written>>
database == <<pending, durable, status, bound, taken, leaked>>
vars == <<pc, request, database, answer>>

-----------------------------------------------------------------------------
(* The transaction manager.                                                *)

(* isTransactionActive() *)
Active(c) == status[c] # NoStatus /\ ~status[c].done

Goto(t, label) == pc' = [pc EXCEPT ![t] = label]


(* Mutant: transactionStatus is static, one field for all the controllers. *)
MutStartTransaction(t, next, oops) ==
  \/ /\ bound[t] # "stale"
     /\ status' = [c \in Controllers |->
                    [owner |-> t, new |-> bound[t] = "none", done |-> FALSE]]
     /\ bound' = [bound EXCEPT ![t] = "active"]
     /\ Goto(t, next)
     /\ UNCHANGED <<pending, durable, taken, leaked>>
  \/ /\ Goto(t, oops)
     /\ UNCHANGED database

(* Mutant: REQUIRES_NEW instead of REQUIRED. *)
MutStartTransactionNew(t, next, oops) ==
  \/ /\ bound[t] # "stale"
     /\ status' = [status EXCEPT ![ctl[t]] =
                    [owner |-> t, new |-> TRUE, done |-> FALSE]]
     /\ bound' = [bound EXCEPT ![t] = "active"]
     /\ Goto(t, next)
     /\ UNCHANGED <<pending, durable, taken, leaked>>
  \/ /\ Goto(t, oops)
     /\ UNCHANGED database

(* startTransaction(): REQUIRED joins the active transaction of the thread *)
(* or begins one.  It fails when the thread carries the remains of a       *)
(* transaction that another thread completed, and whenever the database    *)
(* cannot be reached; the field is then left as it is.                     *)
StartTransaction(t, next, oops) ==
  \/ /\ bound[t] # "stale"
     /\ status' = [status EXCEPT ![ctl[t]] =
                    [owner |-> t, new |-> bound[t] = "none", done |-> FALSE]]
     /\ bound' = [bound EXCEPT ![t] = "active"]
     /\ Goto(t, next)
     /\ UNCHANGED <<pending, durable, taken, leaked>>
  \/ /\ Goto(t, oops)
     /\ UNCHANGED database

(* The status of a transaction that t began and nobody has completed.      *)
Begun(t) == [owner |-> t, new |-> TRUE, done |-> FALSE]

(* Another thread is committing or rolling back s at this moment, too.     *)
Shared(t, s) == \E u \in Threads \ {t} : taken[u] = s

(* setCompleted: whoever refers to the same object sees it, the field and  *)
(* the threads that have loaded it.  (The statuses with which a thread     *)
(* joined its own transaction are not told apart.)                         *)
MarkCompleted(t, objects) ==
  LET Mark(s) == IF s \in objects THEN [s EXCEPT !.done = TRUE] ELSE s
  IN  /\ status' = [c \in Controllers |-> Mark(status[c])]
      /\ taken' = [u \in Threads |-> IF u = t THEN NoStatus ELSE Mark(taken[u])]

(* t is through with the status s that began its transaction.  'part'      *)
(* writes of the owner became durable.  The transaction is that of the     *)
(* status, the clean-up of thread-bound resources is that of the calling   *)
(* thread: if they are not the same, the owner keeps a context that is no  *)
(* longer usable, and the caller loses the one it had.  If a third thread  *)
(* is completing that one meanwhile, what becomes durable of it is decided *)
(* here ('rest'), although it may be decided a little later.               *)
EndTransaction(t, s, part) ==
  \E rest \in 0..pending[t] :
    /\ rest > 0 => t # s.owner /\ Shared(t, Begun(t))
    /\ MarkCompleted(t, {s, Begun(t)})
    /\ bound' = [bound EXCEPT ![s.owner] = IF s.done THEN @ ELSE "stale",
                              ![t] = "none"]
    /\ durable' = [u \in Threads |-> durable[u] + (IF u = s.owner THEN part ELSE 0)
                                                + (IF u = t THEN rest ELSE 0)]
    /\ pending' = [pending EXCEPT ![s.owner] = IF s.done THEN @ ELSE 0, ![t] = 0]
    /\ leaked' = IF t # s.owner /\ bound[t] = "active" /\ ~Shared(t, Begun(t))
                 THEN leaked \cup {t} ELSE leaked

(* Which part of its writes the completion of s by t may save: all or none *)
(* if t has the transaction for itself, and all if the commit succeeds.  A *)
(* commit that fails has rolled back, unless only its acknowledgement was  *)
(* lost; a rollback that fails has rolled back.  Threads that use one      *)
(* session at the same time may tear the writes apart.                     *)
MayBeSaved(t, s, commit, ok, part) ==
  /\ s.done => part = 0
  /\ commit \/ Shared(t, s) \/ part = 0
  /\ t = s.owner /\ ~Shared(t, s) /\ ~s.done =>
       /\ part \in {0, pending[t]}
       /\ commit /\ ok => part = pending[t]

(* What commitTransaction and rollbackTransaction share.  First, 'assert   *)
(* this.isTransactionActive()' and the load of the field; the load decides *)
(* if they do not see the same, as commit and rollback fail on a null and  *)
(* on a completed status like the assertion.                               *)
Load(t, label, next, oops) ==
  /\ pc[t] = label
  /\ \/ /\ Active(ctl[t])
        /\ taken' = [taken EXCEPT ![t] = status[ctl[t]]]
        /\ Goto(t, next)
     \/ /\ ~Active(ctl[t])
        /\ Goto(t, oops)
        /\ UNCHANGED taken
  /\ UNCHANGED <<request, pending, durable, status, bound, leaked, answer>>

(* Then commit or rollback of the status that was loaded.  They find out   *)
(* that another thread has completed it, or are already past that check;   *)
(* they do nothing to the database for a status that joined.  The clean-up *)
(* fails for a caller that has no context of its own to unbind.            *)
Complete(t, commit, next, oops) ==
  LET s == taken[t]
  IN  \/ /\ s.done
         /\ MarkCompleted(t, {})
         /\ Goto(t, oops)
         /\ UNCHANGED <<pending, durable, bound, leaked>>
      \/ /\ ~s.new
         /\ MarkCompleted(t, {s})
         /\ Goto(t, next)
         /\ UNCHANGED <<pending, durable, bound, leaked>>
      \/ /\ s.new
         /\ \E ok \in BOOLEAN, part \in 0..pending[s.owner] :
              /\ MayBeSaved(t, s, commit, ok, part)
              /\ EndTransaction(t, s, part)
              /\ Goto(t, IF ok /\ bound[t] # "none" THEN next ELSE oops)

CommitTransaction(t, next, oops) == Complete(t, TRUE, next, oops)
RollbackTransaction(t, next, oops) == Complete(t, FALSE, next, oops)

(* Last, 'this.transactionStatus = null'. *)
Forget(t, label, next) ==
  /\ pc[t] = label
  /\ status' = [status EXCEPT ![ctl[t]] = NoStatus]
  /\ Goto(t, next)
  /\ UNCHANGED <<request, pending, durable, bound, taken, leaked, answer>>
-----------------------------------------------------------------------------
(* handleRequest, one action per statement that touches shared state.      *)

Locals == <<ctl, svc, errs, plan, written, answer>>

Init ==
  /\ pc = [t \in Threads |-> "idle"]
  /\ ctl \in [Threads -> Controllers]
  /\ svc = [t \in Threads |-> FALSE]
  /\ errs = [t \in Threads |-> FALSE]
  /\ plan = [t \in Threads |-> 0]
  /\ written = [t \in Threads |-> 0]
  /\ pending = [t \in Threads |-> 0]
  /\ durable = [t \in Threads |-> 0]
  /\ status = [c \in Controllers |-> NoStatus]
  /\ bound = [t \in Threads |-> "none"]
  /\ taken = [t \in Threads |-> NoStatus]
  /\ leaked = {}
  /\ answer = [t \in Threads |-> "none"]

Serving(c) == {u \in Threads : pc[u] # "idle" /\ ctl[u] = c}

(* The container hands a request for controller c to an idle thread.  It   *)
(* is a GET, which writes nothing, or a POST that makes n writes if valid. *)
Accept(t, c, n) ==
  /\ pc[t] = "idle"
  /\ Cardinality(Serving(c)) < InFlight
  /\ Goto(t, "begin")
  /\ ctl' = [ctl EXCEPT ![t] = c]
  /\ plan' = [plan EXCEPT ![t] = n]
  /\ svc' = [svc EXCEPT ![t] = FALSE]
  /\ errs' = [errs EXCEPT ![t] = FALSE]
  /\ written' = [written EXCEPT ![t] = 0]
  /\ pending' = [pending EXCEPT ![t] = 0]
  /\ durable' = [durable EXCEPT ![t] = 0]
  /\ answer' = [answer EXCEPT ![t] = "none"]
  /\ UNCHANGED <<status, bound, taken, leaked>>

Begin(t) ==
  /\ pc[t] = "begin"
  /\ StartTransaction(t, "dispatch", "catch")
  /\ UNCHANGED Locals

(* Unknown command or wrong role: the service is not known yet.  Then the  *)
(* service is asked for its authorisation, which it denies or grants.      *)
Dispatch(t) ==
  /\ pc[t] = "dispatch"
  /\ \E known, granted \in BOOLEAN :
       /\ svc' = [svc EXCEPT ![t] = known]
       /\ Goto(t, IF known /\ granted THEN "enter" ELSE "catch")
  /\ UNCHANGED <<ctl, errs, plan, written, answer, database>>

(* doGet and doPost are called through 'self': MANDATORY wants an active   *)
(* transaction on the calling thread.                                      *)
Enter(t) ==
  /\ pc[t] = "enter"
  /\ Goto(t, IF bound[t] = "active" THEN "serve" ELSE "catch")
  /\ UNCHANGED <<request, database, answer>>

(* One save or delete of the service, in the transaction of the thread. *)
Write(t) ==
  /\ pc[t] = "serve"
  /\ written[t] < plan[t]
  /\ bound[t] = "active"
  /\ written' = [written EXCEPT ![t] = @ + 1]
  /\ pending' = [pending EXCEPT ![t] = @ + 1]
  /\ UNCHANGED <<pc, ctl, svc, errs, plan, durable, status, bound, taken, leaked, answer>>

(* doGet or doPost ends: binding and validation of a POST found errors, in *)
(* which case the service wrote nothing, or all the writes were issued, or *)
(* something was thrown.                                                   *)
Served(t) ==
  /\ pc[t] = "serve"
  /\ \/ /\ plan[t] > 0 /\ written[t] = 0
        /\ errs' = [errs EXCEPT ![t] = TRUE]
        /\ Goto(t, "complete")
     \/ /\ written[t] = plan[t]
        /\ Goto(t, "complete")
        /\ UNCHANGED errs
     \/ /\ Goto(t, "catch")
        /\ UNCHANGED errs
  /\ UNCHANGED <<ctl, svc, plan, written, answer, database>>


LoadRequest(t) == Load(t, "complete", "finish", "catch")

(* Mutant: nothing is rolled back when there are errors. *)
MutFinishErrors(t) ==
  /\ pc[t] = "finish"
  /\ IF errs[t] THEN /\ taken' = [taken EXCEPT ![t] = NoStatus]
                     /\ Goto(t, "restart")
                     /\ UNCHANGED <<pending, durable, status, bound, leaked>>
     ELSE CommitTransaction(t, "forget", "catch")
  /\ UNCHANGED Locals

(* Mutant: what the commit throws is swallowed. *)
MutFinishSwallows(t) ==
  /\ pc[t] = "finish"
  /\ IF errs[t] THEN RollbackTransaction(t, "forget", "catch")
     ELSE CommitTransaction(t, "forget", "forget")
  /\ UNCHANGED Locals

FinishRequest(t) ==
  /\ pc[t] = "finish"
  /\ IF errs[t] THEN RollbackTransaction(t, "forget", "catch")
     ELSE CommitTransaction(t, "forget", "catch")
  /\ UNCHANGED Locals

ForgetRequest(t) == Forget(t, "forget", "restart")

Restart(t) ==
  /\ pc[t] = "restart"
  /\ StartTransaction(t, "hook", "catch")
  /\ UNCHANGED Locals

(* onFailure is empty in every service; onSuccess refreshes the principal  *)
(* in some of them, which reads the account and may fail.                  *)
Hook(t) ==
  /\ pc[t] = "hook"
  /\ \/ Goto(t, "commitHook")
     \/ ~errs[t] /\ Goto(t, "catch")
  /\ UNCHANGED <<request, database, answer>>

LoadHook(t) == Load(t, "commitHook", "finishHook", "catch")

FinishHook(t) ==
  /\ pc[t] = "finishHook"
  /\ CommitTransaction(t, "forgetHook", "catch")
  /\ UNCHANGED Locals


(* Mutant: the handler goes on to a place that does not exist. *)
MutForgetHook(t) == Forget(t, "forgetHook", "return")

ForgetHook(t) == Forget(t, "forgetHook", "answer")

Answer(t) ==
  /\ pc[t] = "answer"
  /\ Goto(t, "idle")
  /\ answer' = [answer EXCEPT ![t] = IF errs[t] THEN "form" ELSE "view"]
  /\ UNCHANGED <<request, database>>
-----------------------------------------------------------------------------
(* catch (Throwable oops) *)


(* Mutant: what was thrown leaves the transaction open. *)
MutCatchKeeps(t) ==
  /\ pc[t] = "catch"
  /\ Goto(t, "recover")
  /\ UNCHANGED <<request, database, answer>>

(* Mutant: the rollback does not ask whether a transaction is active. *)
MutCatchAlways(t) ==
  /\ pc[t] = "catch"
  /\ Goto(t, "abort")
  /\ UNCHANGED <<request, database, answer>>

(* Mutant: the request is tried again. *)
MutCatchRetries(t) ==
  /\ pc[t] = "catch"
  /\ Goto(t, IF Active(ctl[t]) THEN "abort" ELSE "begin")
  /\ UNCHANGED <<request, database, answer>>

Catch(t) ==
  /\ pc[t] = "catch"
  /\ Goto(t, IF Active(ctl[t]) THEN "abort" ELSE "recover")
  /\ UNCHANGED <<request, database, answer>>

LoadAbort(t) == Load(t, "abort", "finishAbort", "escape")

(* Mutant: the transaction is committed instead of rolled back. *)
MutFinishAbort(t) ==
  /\ pc[t] = "finishAbort"
  /\ CommitTransaction(t, "forgetAbort", "escape")
  /\ UNCHANGED Locals

FinishAbort(t) ==
  /\ pc[t] = "finishAbort"
  /\ RollbackTransaction(t, "forgetAbort", "escape")
  /\ UNCHANGED Locals

ForgetAbort(t) == Forget(t, "forgetAbort", "recover")

Recover(t) ==
  /\ pc[t] = "recover"
  /\ svc[t]
  /\ StartTransaction(t, "onFailure", "escape")
  /\ UNCHANGED Locals

(* onFailure does nothing, so its transaction is committed at once. *)
LoadFailure(t) == Load(t, "onFailure", "finishFailure", "escape")

FinishFailure(t) ==
  /\ pc[t] = "finishFailure"
  /\ CommitTransaction(t, "forgetFailure", "escape")
  /\ UNCHANGED Locals

ForgetFailure(t) == Forget(t, "forgetFailure", "panic")

(* The panic view, shown by the handler itself or, when something was      *)
(* thrown in its catch block, by the handler of ControllerConfiguration.   *)
Panic(t) ==
  /\ \/ pc[t] \in {"panic", "escape"}
     \/ pc[t] = "recover" /\ ~svc[t]
  /\ Goto(t, "idle")
  /\ answer' = [answer EXCEPT ![t] = "panic"]
  /\ UNCHANGED <<request, database>>

-----------------------------------------------------------------------------

Step(t) ==
  \/ Begin(t) \/ Dispatch(t) \/ Enter(t) \/ Write(t) \/ Served(t)
  \/ LoadRequest(t) \/ FinishRequest(t) \/ ForgetRequest(t)
  \/ Restart(t) \/ Hook(t) \/ LoadHook(t) \/ FinishHook(t) \/ ForgetHook(t)
  \/ Answer(t)
  \/ Catch(t) \/ LoadAbort(t) \/ FinishAbort(t) \/ ForgetAbort(t)
  \/ Recover(t) \/ LoadFailure(t) \/ FinishFailure(t) \/ ForgetFailure(t)
  \/ Panic(t)

Next ==
  \E t \in Threads :
    \/ Step(t)
    \/ \E c \in Controllers, n \in 0..MaxWrites : Accept(t, c, n)

Spec == Init /\ [][Next]_vars

(* A thread that serves a request is scheduled; nobody has to send one.    *)
FairSpec == Spec /\ \A t \in Threads : WF_vars(Step(t))

-----------------------------------------------------------------------------
(* Properties.                                                             *)

(* Inside commit or rollback. *)
FinishLabels == {"finish", "finishHook", "finishAbort", "finishFailure"}

Labels ==
  FinishLabels \cup
  {"idle", "begin", "dispatch", "enter", "serve", "complete", "forget",
   "restart", "hook", "commitHook", "forgetHook", "answer", "catch", "abort",
   "forgetAbort", "recover", "onFailure", "forgetFailure", "panic", "escape"}

(* Every variable of the handler keeps to its type, and a thread has a     *)
(* status in its hands exactly while it is inside commit or rollback.      *)
TypeOK ==
  /\ pc \in [Threads -> Labels]
  /\ ctl \in [Threads -> Controllers]
  /\ svc \in [Threads -> BOOLEAN]
  /\ errs \in [Threads -> BOOLEAN]
  /\ plan \in [Threads -> Nat]
  /\ written \in [Threads -> Nat]
  /\ pending \in [Threads -> Nat]
  /\ durable \in [Threads -> Nat]
  /\ status \in [Controllers -> Status \cup {NoStatus}]
  /\ bound \in [Threads -> {"none", "active", "stale"}]
  /\ taken \in [Threads -> Status \cup {NoStatus}]
  /\ \A t \in Threads : taken[t] # NoStatus <=> pc[t] \in FinishLabels
  /\ leaked \subseteq Threads
  /\ answer \in [Threads -> {"none", "view", "form", "panic"}]

(* No connection is lost: a thread that has answered holds no transaction, *)
(* and none was torn off its thread, whatever failed on the way            *)
(* (the catch block of handleRequest).                                     *)
NoLeakedTransaction ==
  /\ leaked = {}
  /\ \A t \in Threads : pc[t] = "idle" => bound[t] = "none"

(* "the 'onSuccess' and the 'onFailure' methods must be executed in fresh  *)
(* transactions": one that the thread itself began, with no write of the   *)
(* request still waiting in it.                                            *)
HookInFreshTransaction ==
  \A t \in Threads :
    pc[t] \in {"hook", "onFailure"} =>
      /\ status[ctl[t]] = [owner |-> t, new |-> TRUE, done |-> FALSE]
      /\ pending[t] = 0

(* 'assert this.isTransactionActive()' of commitTransaction and            *)
(* rollbackTransaction, at each of their calls.                            *)
TransactionActiveWhenCompleted ==
  \A t \in Threads :
    pc[t] \in {"complete", "commitHook", "abort", "onFailure"} => Active(ctl[t])

(* The writes of a request are saved all or none, whatever is thrown, at   *)
(* whichever write, and even if the commit itself fails.                   *)
AllOrNothing == \A t \in Threads : durable[t] \in {0, plan[t]}

(* "let's commit or rollback the transaction depending on whether there    *)
(* are errors or not in the response": who gets the requested view has had *)
(* everything saved, who gets the form with its errors nothing.            *)
AnswerTellsOutcome ==
  \A t \in Threads :
    /\ answer[t] = "view" => durable[t] = plan[t]
    /\ answer[t] = "form" => durable[t] = 0

(* A transaction is completed by a step of the thread that began it.       *)
OnlyOwnTransaction ==
  [][\A t \in Threads :
       bound[t] = "active" /\ bound'[t] # "active" => pc'[t] # pc[t]]_vars

(* The handler implements its contract: the durable writes and the answers *)
(* of every thread behave as AtomicRequest allows, and every request that  *)
(* was accepted is answered.                                               *)
Contract == INSTANCE AtomicRequest WITH
  busy <- [t \in Threads |-> pc[t] # "idle"],
  stored <- durable

ImplementsContract == Contract!Spec

(* However the requests of a controller interleave, each is answered: a    *)
(* thread never waits for a status, a transaction or another thread.       *)
EveryRequestAnswered ==
  \A t \in Threads : []<>(pc[t] = "idle")

(* Thread t can complete the transaction it began: the field holds it. *)
Completable(t) == status[ctl[t]] = Begun(t)

(* Somebody has loaded the transaction of t and is committing it or        *)
(* rolling it back.                                                        *)
InHand(t) == \E u \in Threads : taken[u] = Begun(t)

(* A transaction that was overtaken in the field by another one of its     *)
(* controller before anybody had loaded it for completion is lost for      *)
(* good: nobody completes it any more, and none of its writes is saved.    *)
(* So, of two transactions of a controller that overlap, both are saved    *)
(* only if the second began while the first was inside commit; before that *)
(* (isTransactionActive, :93) the field lets one of them through.          *)
OvertakenIsLost ==
  [][\A t \in Threads :
       bound[t] = "active" /\ ~Completable(t) /\ ~InHand(t) =>
         ~Completable(t)' /\ ~InHand(t)' /\ durable'[t] <= durable[t]]_vars

=============================================================================
