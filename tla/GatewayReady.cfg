SPECIFICATION GatewaySpec
CONSTANTS
  a = a
  CDS = cds
  LDS = lds
  Files <- MCFiles
  Content <- MCContent
  Seed <- MCSeed
  NotPushed = NotPushed
  None = None
  ReadErrorIsNotFound = FALSE
  Operator = {o1}
PROPERTY ReadyMeansServing
