SPECIFICATION FairSpec
CONSTANTS
  Slave = 1
  Polled <- TwoPolled
  Meta <- MCMeta
  WriteFc = 16
  Checksum <- MCCrc
  WriteAddrs = {}
  Content <- OnContent
  MaxWrites = 0
  MaxGarbled = 1
  Noise = {128}
  QueueCap = 2
  MrxCap = 256
  InboxCap = 1
  Prompt = TRUE
PROPERTY RepliesGetThrough
