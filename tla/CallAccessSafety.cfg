SPECIFICATION Spec
CONSTANTS
  u1 = u1  u2 = u2  s1 = s1  s2 = s2  s3 = s3
  Room = {r1}  User = {u1}  Session = {s1, s2}
  SessionUser <- MCDeviceSessionUser
  Peer = {p1, p2}  Conn = {c1, c2}  Voice = {}  Lease = {l1, l2}
  LeaseCapacity = 2  None = None
SYMMETRY Interchangeable
INVARIANTS TypeOK AdmissionFence PendingCovered OneConnectionPerPeer LeasesUnique
PROPERTY RevocationIsAtomic
