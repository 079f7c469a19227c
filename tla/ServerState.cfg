SPECIFICATION MCFairSpec
CONSTANTS
  Chunks = 2  Request = {1, 2}  Cleaner = 3  None = None
  MaxFailures = 2  MaxBegins = 2
  Socket = {4, 5}  NoSocket = NoSocket  MaxInbound = 2
  Observer = {o}  Window = {v, w}  Conn = {c, d}  EventQueue = 2  Unset = Unset
INVARIANTS TypesOK ReadyIsWhole NothingUnnamed PresenceSettles
PROPERTIES AbandonedIsErased OneMediaSession UnauthorizedMediaEnds
CHECK_DEADLOCK FALSE
