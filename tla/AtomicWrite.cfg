SPECIFICATION Spec
CONSTANTS
  Inode = {n0, n1, n2, n3}
  Content = {old, new}
  Chunks = 2
  Writer = {w1, w2}
  Reader = {r1}
  Seed = n0
  SeedContent = old
  Nothing = Nothing
INVARIANTS
  TypeOK
  ReadsComplete
PROPERTIES
  OrphansExplained
  ImplementsCell
