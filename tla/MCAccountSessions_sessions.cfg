\* Two accounts in two sessions, two requests on their way.
SPECIFICATION Spec
CONSTANTS
  a1 = a1
  a2 = a2
  s1 = s1
  s2 = s2
  t1 = t1
  t2 = t2
  p1 = p1
  p2 = p2
  p3 = p3
  p4 = p4
  Worker = Worker
  Authenticated = Authenticated
  None = None
  Accounts <- MCAccounts
  Sessions <- MCSessions
  Threads <- MCThreads
  Classes <- MCClasses
  RoleIds = {1, 2, 3}
  Principals <- MCPrincipals
SYMMETRY MCSymmetry
INVARIANTS
  TypeOK
  OneRolePerClass
  OwnRoleIdWhenAlone
  SessionLearnsRole
PROPERTY
  ImplementsAtomicRoles
