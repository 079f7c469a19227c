SPECIFICATION TracksSpec
CONSTANTS
  Job = {1, 2, 3}  Peer = {p, q}  Source = {"microphone"}  Nothing = Nothing
  Overlap = TRUE
INVARIANT CapturesAreReleased
CHECK_DEADLOCK FALSE
