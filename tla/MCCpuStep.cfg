SPECIFICATION Spec
CONSTANTS
  Devices <- MCDevices
  HostDevices <- MCHostDevices
  BR <- MCBR
  Modes = {0, 3}
  Levels <- MCLevels
  PirLevels <- MCPirLevels
  TrapPsw <- AnyTrapPsw
  DevPsw <- AnyDevPsw
  StackWords = 8
  Yellow = 6
  Red = 4
  Limit = "register"
  HasExpt = FALSE
  MaxAbortDepth = 8
  Panel = FALSE
INVARIANTS CleanBetweenInstructions
PROPERTIES RedNeverSilent YellowSettles NoUnmaskedRequest GrantsInOrder
