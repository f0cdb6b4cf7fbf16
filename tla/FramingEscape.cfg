SPECIFICATION Spec
CONSTANTS
  Messages <- DoubleMessages
  DamagedTo = {}
  MaxDamaged = 0
  LineCap = 20
  Prompt = TRUE
INVARIANT CleanDelivery
