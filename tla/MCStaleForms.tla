---------------------------- MODULE MCStaleForms ----------------------------
(* StaleForms with two rows, of which the first one may be populated.  A   *)
(* day has two instants.                                                   *)
EXTENDS StaleForms, TLC

CONSTANTS r1, r2, t1, t2, u1, u2, x1, x2, none, gone

OneRow == {r1}
TwoRows == {r1, r2}
OneTab == {t1}
TwoTabs == {t1, t2}
TwoThreads == {u1, u2}
MCTexts == {x1, x2}

Amount(n, c) == [amount |-> n, currency |-> c]
(* All in euros; a silver reward in something else; and that with a gold reward *)
(* that is given with the sign.                                                 *)
MCRewards ==
  {[gold |-> Amount(3, p[1]), silver |-> Amount(2, p[2]), bronze |-> Amount(1, "EUR")]
     : p \in {<<"EUR", "EUR">>, <<"EUR", "other">>, <<"sign", "other">>}}

(* The second row is an offer that is already there, so that its ticker can *)
(* be asked for again; offers are neither updated nor deleted.              *)
MCInit ==
  /\ Init
  /\ Exists(r2) /\ row[r2].kind = "offer" /\ row[r2].content.deadline = Horizon

MCSpec == MCInit /\ [][Next]_vars

MCSymmetry ==
  Permutations(TwoTabs) \cup Permutations(TwoThreads) \cup Permutations(MCTexts)
=============================================================================
