SPECIFICATION DigestSpec
CONSTANTS
  s1 = s1
  s2 = s2
  Dispatcher = {s1, s2}
  CatchUp = 7
  LastDay = 9
SYMMETRY Symmetry
INVARIANTS
  CoveredOnce
  NoDayMissed
