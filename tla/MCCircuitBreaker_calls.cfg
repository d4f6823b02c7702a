CONSTANTS
  Threads = {t1, t2, t3, t4}
  Names = {n1, n2}
  MaxPending = 2
  CounterModulus = 8
SPECIFICATION FairSpec
INVARIANTS
  TypeOK
  PendingCountsCalls
  PlacesAreBounded
  CountsAreConserved
PROPERTIES
  RejectedOnlyUnderLoad
  QuietClears
  ImplementsAdmission
