\* One job, two workers, two applications and three threads.
SPECIFICATION Spec
CONSTANTS
  j1 = j1
  w1 = w1
  w2 = w2
  a1 = a1
  a2 = a2
  none = none
  t1 = t1
  t2 = t2
  t3 = t3
  Jobs <- MCJobs
  Workers <- MCWorkers
  Applications <- MCApplications
  Threads <- MCThreads
  Full = 2
  Percentages <- MCPercentages
  MaxDuties = 2
  NoApplication <- none
  NoRequest <- none
SYMMETRY MCSymmetry
INVARIANTS
  PublishedSalaryInEuros
\* When the job is deleted and no request is on its way, nothing is left to do.
CHECK_DEADLOCK FALSE
