SPECIFICATION FairSpec
CONSTANTS
  u1 = u1  u2 = u2  s1 = s1  s2 = s2  s3 = s3
  Room = {r1}  User = {u1, u2}  Session = {s1, s3}
  SessionUser <- MCPairSessionUser
  Peer = {p1}  Conn = {c1, c2}  Voice = {v1}  Lease = {}
  LeaseCapacity = 1  None = None
PROPERTIES MutationsComplete EndedSessionsLeave
INVARIANT VoiceOwnerInCall
