SPECIFICATION FairSpec
CONSTANTS
  cds = cds
  lds = lds
  Files <- MCFiles
  Content = {seed, c1}
  Seed = seed
  NotPushed = NotPushed
  None = None
  ReadErrorIsNotFound = FALSE
INVARIANTS
  TypeOK
  HashMeansApplied
  CleanPassReflects
PROPERTIES
  ReadyIsEarned
  FileConverges
  BecomesReady
