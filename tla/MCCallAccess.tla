---------------------------- MODULE MCCallAccess ----------------------------
(***************************************************************************)
(* Instances of CallAccess for TLC: accounts u1 and u2 with one device    *)
(* each (sessions s1, s3), or u1 with two (s1, s2); any of them may        *)
(* present any peer id.                                                    *)
(***************************************************************************)
EXTENDS CallAccess, TLC

CONSTANTS u1, u2, s1, s2, s3

MCPairSessionUser == s1 :> u1 @@ s3 :> u2
MCDeviceSessionUser == s1 :> u1 @@ s2 :> u1

(* With both sessions on one account, nothing tells them apart either.     *)
Interchangeable ==
  Permutations(Conn) \cup Permutations(Lease) \cup Permutations(Peer) \cup Permutations(Session)
=============================================================================
