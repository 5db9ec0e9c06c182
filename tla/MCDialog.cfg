SPECIFICATION DialogSpec
CONSTANTS
  RingSize = 3
  MaxTyped = 5
  Steps <- MCSteps
  Chatter <- MCChatter
  TailSize = 3
  Settle = 4
  KeyGap = 2
  ReadLatency = 3
  ScriptBytes = 4
INVARIANTS EveryKeyAccounted RepliesMeetPrompts
PROPERTIES ReadInOrder LatchesInterrupts DialogFinishes
CHECK_DEADLOCK FALSE
