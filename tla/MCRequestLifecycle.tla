------------------------ MODULE MCRequestLifecycle ------------------------
(* RequestLifecycle on a few threads and controllers. *)
EXTENDS RequestLifecycle, TLC

CONSTANTS t1, t2, c1, c2, null

MCThreads == {t1, t2}
MCControllers == {c1, c2}
MCController == {c1}
=============================================================================
