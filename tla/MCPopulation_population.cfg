\* An initial file of one entity and a sample file of three.
SPECIFICATION MCSpec
CONSTANTS
  a = a
  b = b
  c = c
  d = d
  Entities <- MCEntities
  Files = 2
  FileOf <- MCFileOf
  MaxFaults = 1
INVARIANTS
  TypeOK
  WholeFiles
  InOrder
  CharmIsSaved
  AlmostSortedIsPersisted
PROPERTIES
  AttemptsAdvance
  Ends
\* The populator ends.
CHECK_DEADLOCK FALSE
