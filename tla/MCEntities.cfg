SPECIFICATION FairSpec
CONSTANTS
  Unit = 60
  Kind <- MCKind
  Meta <- MCMeta
  Options <- MCOptions
  Holds <- MCHolds
  Wishes <- MCWishes
  QueueCap = 2
  MaxSets = 3
  MaxChanges = 1
  Unknown = Unknown
INVARIANT WishGranted
PROPERTY SettlesOnPump
