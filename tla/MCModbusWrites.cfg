SPECIFICATION Spec
CONSTANTS
  Slave = 1
  Polled <- OnePolled
  Meta <- MCMeta
  WriteFc = 16
  Checksum <- MCCrc
  WriteAddrs = {47011}
  Content <- MCContent
  MaxWrites = 3
  MaxGarbled = 1
  Noise = {128}
  QueueCap = 2
  MrxCap = 256
  InboxCap = 1
  Prompt = TRUE
INVARIANT RequestHasTarget
INVARIANT AckedWasApplied
INVARIANT BoundedRetransmission
PROPERTY ImplementsWriteService
PROPERTY NeverBackwards
