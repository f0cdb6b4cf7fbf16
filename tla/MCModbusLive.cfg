SPECIFICATION FairSpec
CONSTANTS
  Slave = 1
  Polled <- TwoPolled
  Meta <- MCMeta
  WriteFc = 16
  Checksum <- PolyCrc
  WriteAddrs = {47011, 10001}
  Content <- MCContent
  MaxWrites = 1
  MaxGarbled = 1
  Noise = {128, 255}
  QueueCap = 2
  MrxCap = 256
  InboxCap = 1
  Prompt = TRUE
INVARIANT TypeOK
INVARIANT Attribution
PROPERTY WritesResolve
PROPERTY ReadsGoOn
PROPERTY RepliesGetThrough
