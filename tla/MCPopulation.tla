---------------------------- MODULE MCPopulation ----------------------------
(* Population with two files: one entity in the first, as if it were       *)
(* initial-data.xml, and three in the second.  Every order of the second   *)
(* and every choice of mandatory references within it is an initial state. *)
EXTENDS Population

CONSTANTS a, b, c, d

MCEntities == {a, b, c, d}
MCFileOf == [e \in MCEntities |-> IF e = a THEN 1 ELSE 2]

MCInit ==
  /\ needs \in [MCEntities -> SUBSET (MCEntities \ {a})]
  /\ needs[a] = {}
  /\ \A e \in MCEntities : e \notin needs[e]
  /\ valid \in SUBSET MCEntities
  /\ declared \in {<<<<a>>, l>> : l \in {l \in [1..3 -> MCEntities \ {a}] : Listed(l) = {b, c, d}}}
  /\ Start

MCSpec == MCInit /\ [][Next]_vars /\ WF_vars(Next)
=============================================================================
