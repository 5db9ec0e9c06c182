SPECIFICATION FairSpec
CONSTANTS
  Devices <- MCDevices
  HostDevices <- MCHostDevices
  BR <- MCBR
  Modes = {0}
  Levels <- MCLevels
  PirLevels <- MCPirLevels
  TrapPsw <- MaskingTrapPsw
  DevPsw <- MaskingDevPsw
  StackWords = 8
  Yellow = 6
  Red = 4
  Limit = "register"
  HasExpt = TRUE
  MaxAbortDepth = 2
  Panel = TRUE
PROPERTIES StepEnds ReachesInstruction
