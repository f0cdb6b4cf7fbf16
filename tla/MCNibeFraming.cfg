SPECIFICATION FairSpec
CONSTANTS
  Messages <- TwoMessages
  DamagedTo = {0, 7, 92, 128, 200}
  MaxDamaged = 1
  LineCap = 16
  Prompt = FALSE
INVARIANT TypeOK
INVARIANT CleanDelivery
INVARIANT BufferBounded
PROPERTY Recovers
