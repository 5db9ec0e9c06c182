SPECIFICATION Spec
CONSTANTS
  PageCount = 2
  BlockCount = 2
  BlockBytes = 2
  PdrStores <- MCPdrStores
  Instructions <- MCInstructions
  PcStarts <- MCPcStarts
PROPERTIES EveryAbortUnwinds
