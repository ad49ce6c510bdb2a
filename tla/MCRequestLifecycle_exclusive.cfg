\* At most one request per controller at a time, two controllers.
SPECIFICATION FairSpec
CONSTANTS
  t1 = t1
  t2 = t2
  c1 = c1
  c2 = c2
  null = null
  Threads <- MCThreads
  Controllers <- MCControllers
  NoStatus <- null
  MaxWrites = 2
  InFlight = 1
INVARIANTS
  TypeOK
  NoLeakedTransaction
  HookInFreshTransaction
  TransactionActiveWhenCompleted
  AllOrNothing
  AnswerTellsOutcome
PROPERTIES
  OnlyOwnTransaction
  ImplementsContract
