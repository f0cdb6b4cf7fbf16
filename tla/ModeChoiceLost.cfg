SPECIFICATION DeviceSpec
CONSTANTS
  Builds <- OneBuild
  Names = {"F1255", "WPM", "Long"}
  LongNames = {"Long"}
  Unnamed = ""
  CutShort = "Lon"
  MaxSelection = 2
  Posted = {47011}
PROPERTY ModbusChoiceHonoured
