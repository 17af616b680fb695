SPECIFICATION MCSpec
CONSTANTS
  person = person
  cron = cron
  pod = pod
  url = url
  bucket = bucket
  team = team
  secret = secret
  cds = cds
  lds = lds
  Operator <- MCOperator
  Pod <- MCPod
  Client <- MCClient
  Server <- MCServer
  Bucket <- MCBucket
  Login <- MCLogin
  Files <- MCFiles
  Name <- MCName
  Value <- MCValue
  Env <- MCEnv
  Preset <- MCPreset
  Argument <- MCArgument
  ApiToken = secret
  DefaultURL = url
  Unset = Unset
  Image = Image
  Unknown = Unknown
  Nobody = Nobody
  NotPushed = NotPushed
  Silence = Silence
  MaxCommands = 2
INVARIANTS
  TypeOK
  SettingsAsSet
  MismatchedNeverReady
PROPERTIES
  SuccessPrevails
  ImplementsFetcher
  ReplicasConverge
