SPECIFICATION FairSpec
CONSTANTS
  r1 = r1  u1 = u1  u2 = u2  s1 = s1  s2 = s2  p1 = p1  p2 = p2  p3 = p3
  Room = {r1}  User = {u1, u2}  Session = {s1, s2}  Call = r1
  Voice = {}  None = None
  SessionUser <- MCSessionUser
  Peer = {p1, p3}
  PeerSession <- MCPairSession
  Conn = {1, 2, 3}
  SignalQueue = 1
  MaxSignals = 0
  MaxRestarts = 0
CHECK_DEADLOCK FALSE
PROPERTIES BrokenConnectionsLeave DeparturesReachEveryone
