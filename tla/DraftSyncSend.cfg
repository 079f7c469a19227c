SPECIFICATION DraftSpec
CONSTANTS
  Device = {d, e}  Text = {x, y}  Blank = Blank  None = None
  MaxEdits = 2  MaxTurns = 1
PROPERTY SendClearsWhatItSent
CHECK_DEADLOCK FALSE
