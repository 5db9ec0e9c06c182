SPECIFICATION FairSpec
CONSTANTS
  Timers = {"tm", "rl"}
  ClearedByReset = {"tm"}
  Restartable = {"rl"}
  Stoppable = {"tm", "rl"}
  Clock = "clk"
  Tick = 3
  Costs <- MCCosts
  Delays <- MCDelays
INVARIANTS NothingOverdue OnTheBeat SkipIsSpin
PROPERTY WaitEnds
