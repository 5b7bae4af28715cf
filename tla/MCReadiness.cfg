\* The budget holds several dials and attempts, an attempt several ticks, a dial
\* more than one attempt; delays are 2, 3, 4 and 5 to 7, then 7 to 9.
CONSTANTS
  Budget = 30
  ProbeTimeout = 4
  Interval = 2
  BaseDelay = 2
  MaxDelay = 8
  ConnectTimeout = 6
SPECIFICATION FairSpec
INVARIANT TypeOK
INVARIANT WithinBudget
INVARIANT ReadyIsSeen
PROPERTY WaitEnds
