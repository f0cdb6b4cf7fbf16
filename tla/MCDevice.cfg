SPECIFICATION DeviceSpec
CONSTANTS
  Builds <- MCBuilds
  Names = {"F1255", "WPM", "Long"}
  LongNames = {"Long"}
  Unnamed = ""
  CutShort = "Lon"
  MaxSelection = 2
  Posted = {0, 3, 30001, 47011, 47041}
INVARIANT TypeOK
INVARIANT OnlyUsersSwitch
INVARIANT OneEntityEach
INVARIANT SlotsSuffice
INVARIANT SelectionSound
INVARIANT PageShowsEntities
PROPERTY MastersHaveTransport
PROPERTY NibeChoiceHonoured
PROPERTY MasterKeepsFc
PROPERTY SavedWhole
