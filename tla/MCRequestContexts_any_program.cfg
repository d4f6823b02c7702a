CONSTANTS
  c1 = c1
  c2 = c2
  c3 = c3
  c4 = c4
  Global = global
  ThreadLocal = threadLocal
  None = none
  Objects = {global, threadLocal, c1, c2, c3, c4}
  Values = {v1}
  MayCopyGlobal = FALSE
SPECIFICATION SpecRequests
SYMMETRY Symmetry
INVARIANTS
  NoContextIsItsOwnAncestor
  AllInheritGlobal
  RequestIsVisible
PROPERTIES
  CopiesSeeTheSame
  KeepsParentsAlive
