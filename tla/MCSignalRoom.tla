---------------------------- MODULE MCSignalRoom ----------------------------
(***************************************************************************)
(* Instances of SignalRoom for TLC: account u1 has a call session open in  *)
(* two tabs (p1, p2), u2 in one (p3); every tab may come back under its    *)
(* peer id as long as connections last.                                    *)
(***************************************************************************)
EXTENDS SignalRoom, TLC

CONSTANTS r1, u1, u2, s1, s2, p1, p2, p3

MCSessionUser == s1 :> u1 @@ s2 :> u2
MCPeerSession == p1 :> s1 @@ p2 :> s1 @@ p3 :> s2
MCPairSession == p1 :> s1 @@ p3 :> s2

\* Three tabs and no signals; or two tabs (the third has ended before) with the
\* signals and restarts the bounds allow.
Trio == relayed = MaxSignals /\ restarts = MaxRestarts /\ phase = [p \in Peer |-> "new"]
Pair == relayed = 0 /\ restarts = 0 /\ phase = [p \in Peer |-> IF p = p2 THEN "ended" ELSE "new"]

MCInit ==
  /\ RegistryInit
  /\ member = User
  /\ stage = [c \in Conn |-> "new"]
  /\ queue = [c \in Conn |-> <<>>]
  /\ overflowed = [c \in Conn |-> FALSE]
  /\ kicked = {} /\ departing = {} /\ late = {} /\ evicted = {}
  /\ relaying = [c \in Conn |-> None]
  /\ closing = [c \in Conn |-> {}]
  /\ sock = [p \in Peer |-> None]
  /\ told = [p \in Peer |-> {}] /\ view = [p \in Peer |-> {}]
  /\ Trio \/ Pair

MCSpec == MCInit /\ [][Next]_vars
=============================================================================
