SPECIFICATION Spec
CONSTANTS
  Names = {"a", "b"}
  Uids = {"u1", "u2", "u3", "u4"}
  Listed <- FirstOfEach
  MaxTicks = 3
  None = None
INVARIANTS TypeOK GoneMeansGone AwaitedWereDeleted
PROPERTIES WaitAdvances StrangersAreNotAwaited EventuallyReturns
