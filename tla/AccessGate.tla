---------------------------- MODULE AccessGate ----------------------------
(***************************************************************************)
(* What CallAccess promises, without locks, handlers or evictions: doors   *)
(* into calls, held by whoever passed one while allowed to, and a          *)
(* revocation that takes the permission and closes the doors in one step.  *)
(***************************************************************************)
CONSTANTS
  Door,      \* signaling connections and media leases
  Identity,  \* who may hold one: room, session and peer
  Nobody

VARIABLES
  allowed,   \* identities that may enter
  holder     \* holder[d]: who holds door d open

Init ==
  /\ allowed \subseteq Identity
  /\ holder = [d \in Door |-> Nobody]

(* People enter free doors and leave, several at a time: a new connection  *)
(* of an account replaces others.                                          *)
Move ==
  /\ holder' \in [Door -> Identity \cup {Nobody}]
  /\ \A d \in Door : holder'[d] # holder[d] =>
                       \/ holder'[d] = Nobody
                       \/ holder[d] = Nobody /\ holder'[d] \in allowed
  /\ UNCHANGED allowed

Grant ==
  /\ allowed' \subseteq Identity /\ allowed \subseteq allowed'
  /\ UNCHANGED holder

Revoke ==
  /\ allowed' \subseteq allowed
  /\ holder' = [d \in Door |-> IF holder[d] \in allowed' THEN holder[d] ELSE Nobody]

Next == Move \/ Grant \/ Revoke

Spec == Init /\ [][Next]_<<allowed, holder>>
=============================================================================
