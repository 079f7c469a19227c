SPECIFICATION MCSpec
CONSTANTS
  r1 = r1  u1 = u1  u2 = u2  s1 = s1  s2 = s2  p1 = p1  p2 = p2  p3 = p3
  Room = {r1}  User = {u1, u2}  Session = {s1, s2}  Call = r1
  Voice = {}  None = None
  SessionUser <- MCSessionUser
  Peer = {p1, p2, p3}
  PeerSession <- MCPeerSession
  Conn = {1, 2, 3}
  SignalQueue = 2
  MaxSignals = 1
  MaxRestarts = 1
INVARIANTS TypeOK NoPhantoms NobodyMissed
CHECK_DEADLOCK FALSE
