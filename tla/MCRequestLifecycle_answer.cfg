\* Two requests on one controller at the same time.
SPECIFICATION Spec
CONSTANTS
  t1 = t1
  t2 = t2
  c1 = c1
  c2 = c2
  null = null
  Threads <- MCThreads
  Controllers <- MCController
  NoStatus <- null
  MaxWrites = 1
  InFlight = 2
INVARIANTS
  AnswerTellsOutcome
