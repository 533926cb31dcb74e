SPECIFICATION ApiSpec
CONSTANTS
  h1 = h1
  h2 = h2
  e1 = e1
  e2 = e2
  e3 = e3
  ListHead <- TwoHeads
  Entry <- ThreeEntries
INVARIANTS
  Represents
  WalkIsExact
  QueriesAgree
PROPERTY
  WalkEnds
