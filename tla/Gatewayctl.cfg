SPECIFICATION Spec
CONSTANTS
  Operator = {o1, o2}
  Name = {a}
  Cds = cds
  Lds = lds
  Runtime = runtime
  Files <- MCFiles
  Missing = Missing
  Empty = Empty
  Nobody = Nobody
  MaxCommands = 3
SYMMETRY Interchangeable
INVARIANTS
  TypeOK
  MissingIsSafe
PROPERTIES
  InSync
  Delivers
  FetchCopies
  GenerateCopies
CHECK_DEADLOCK FALSE
