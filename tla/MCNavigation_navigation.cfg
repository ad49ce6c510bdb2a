\* One job, one thread and one bulletin; a reader who strays once and clicks one row again,
\* for whom no stack has more than 2 + 2 + 1 addresses.
SPECIFICATION Spec
CONSTANTS
  Jobs = {j}
  Threads = {t}
  Bulletins = {b}
  None = None
  MaxStack = 5
  MaxStrays = 1
  MaxAgain = 1
INVARIANTS
  TypeOK
  StackFits
PROPERTIES
  PostShowsItsListing
  DeadEndsAreKnown
