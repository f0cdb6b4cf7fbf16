SPECIFICATION FairSpec
CONSTANTS
  ExtraPoll <- MCExtra
  Entities <- MCEntities
  YamlModbus = TRUE
  WriteAddrs = {47011, 10001}
  Models = {F1255, NoModel}
  NoModel = NoModel
  MaxWrites = 3
  QueueCap = 2
  RxCap = 2
  F1255 = F1255
INVARIANT TypeOK
INVARIANT ReadsCoverPolled
INVARIANT RotationFair
PROPERTY ImplementsWriteService
PROPERTY ReadsGoOn
PROPERTY WritesResolve
