SPECIFICATION Spec
CONSTANTS
  none = none
  one = one
  both = both
  unsafe = unsafe
  k1 = k1
  k2 = k2
  up = up
  v1 = v1
  v2 = v2
  Absent = Absent
  None = None
  Manifest = {none, one, both, unsafe}
  Key = {k1, k2, up}
  Value = {v1, v2}
  UnsafeKey = {up}
  Desired <- MCDesired
INVARIANTS
  TypeOK
  CurrentComplete
  AppliedIsCurrent
  QuiescentLoad
  LeftoversExplained
PROPERTY ImplementsCell
