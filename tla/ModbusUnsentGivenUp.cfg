SPECIFICATION Spec
CONSTANTS
  Slave = 1
  Polled <- OnePolled
  Meta <- MCMeta
  WriteFc = 16
  Checksum <- PolyCrc
  WriteAddrs = {47011}
  Content <- MCContent
  MaxWrites = 1
  MaxGarbled = 0
  Noise = {128, 255}
  QueueCap = 2
  MrxCap = 256
  InboxCap = 1
  Prompt = TRUE
INVARIANT AbandonedWasSent
