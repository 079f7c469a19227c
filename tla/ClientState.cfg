SPECIFICATION MCFairSpec
CONSTANTS
  GlobalInput = TRUE  MaxPresses = 2
  Device = {d, e}  Text = {x}  Blank = Blank  None = None  MaxEdits = 2  MaxTurns = 1
  MaxMessages = 3  MaxVersion = 2  MaxWrites = 2  PageSize = 1  CatchUpPage = 1
  MaxDisruptions = 2  MaxFailures = 1
INVARIANTS TypesOK HeldOnlyInUse DirtyIsPending
PROPERTIES
  OpensOnAPressAlone ReleaseCloses NoStaleVersions CatchUpRepairs ShownBeforeReplaced
CHECK_DEADLOCK FALSE
