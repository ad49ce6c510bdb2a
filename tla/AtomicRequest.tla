--------------------------- MODULE AtomicRequest ---------------------------
(***************************************************************************)
(* What the request handler of the framework promises to whoever sends a   *)
(* request: the writes of the request become durable all together or not   *)
(* at all, no answer lies about which of the two happened, and every       *)
(* request is answered.  A panic view makes no promise beyond the first    *)
(* one: the code shows it both for a request that was rolled back and for  *)
(* one that was saved and whose 'onSuccess' then failed.                   *)
(***************************************************************************)
EXTENDS Naturals

CONSTANTS
  Threads,     \* the worker threads of the servlet container
  MaxWrites    \* bound: the most entities that one request saves or deletes

VARIABLES
  busy,        \* busy[t]: thread t is serving a request
  plan,        \* plan[t]: the writes that the request of t has to make
  stored,      \* stored[t]: how many of them are durable
  answer       \* answer[t]: the last answer of t

vars == <<busy, plan, stored, answer>>

Init ==
  /\ busy = [t \in Threads |-> FALSE]
  /\ plan = [t \in Threads |-> 0]
  /\ stored = [t \in Threads |-> 0]
  /\ answer = [t \in Threads |-> "none"]

Accept(t) ==
  /\ ~busy[t]
  /\ busy' = [busy EXCEPT ![t] = TRUE]
  /\ \E n \in 0..MaxWrites : plan' = [plan EXCEPT ![t] = n]
  /\ stored' = [stored EXCEPT ![t] = 0]
  /\ answer' = [answer EXCEPT ![t] = "none"]

(* All the writes of the request become durable in one step. *)
Store(t) ==
  /\ busy[t]
  /\ stored[t] = 0
  /\ stored' = [stored EXCEPT ![t] = plan[t]]
  /\ UNCHANGED <<busy, plan, answer>>

(* "view": the requested view; "form": the same form, with its errors.     *)
Answer(t) ==
  /\ busy[t]
  /\ busy' = [busy EXCEPT ![t] = FALSE]
  /\ \E a \in {"view", "form", "panic"} :
       /\ a = "view" => stored[t] = plan[t]
       /\ a = "form" => stored[t] = 0
       /\ answer' = [answer EXCEPT ![t] = a]
  /\ UNCHANGED <<plan, stored>>

Next == \E t \in Threads : Accept(t) \/ Store(t) \/ Answer(t)

Spec == Init /\ [][Next]_vars /\ \A t \in Threads : WF_vars(Answer(t))
=============================================================================
