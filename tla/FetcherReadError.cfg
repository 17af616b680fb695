SPECIFICATION Spec
CONSTANTS
  cds = cds
  lds = lds
  Files <- MCFiles
  Content = {seed, c1}
  Seed = seed
  NotPushed = NotPushed
  None = None
  ReadErrorIsNotFound = TRUE
PROPERTY ReadyIsEarned
