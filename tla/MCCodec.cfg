SPECIFICATION CodecSpec
CONSTANTS
  Unit = 300
  Catalog <- MCCatalog
  Numbers <- MCNumbers
  Strangers <- MCStrangers
  Models <- MCModels
  Sample = {0, 1, 3, 128, 255}
  Text <- MCText
  Offsets <- MCOffsets
  Reach = 40
  MaxLen = 3
  MaxItems = 2
  MaxTail = 3
INVARIANT FastCrcIsCrc
INVARIANT FramesDivide
INVARIANT DamageIsNoticed
INVARIANT ReadsTrue
INVARIANT WritesNearest
INVARIANT NamesRecognised
