------------------------- MODULE MCAccountSessions -------------------------
(* AccountSessions with two accounts, two sessions, one role to acquire    *)
(* and two requests on their way.                                          *)
EXTENDS AccountSessions, TLC

CONSTANTS a1, a2, s1, s2, t1, t2, p1, p2, p3, p4, Worker

MCAccounts == {a1, a2}
MCSessions == {s1, s2}
MCThreads == {t1, t2}
MCPrincipals == {p1, p2, p3, p4}
MCClasses == {Worker}
MCSymmetry ==
  Permutations(MCSessions) \cup Permutations(MCThreads) \cup
  Permutations(MCAccounts) \cup Permutations(MCPrincipals)
=============================================================================
