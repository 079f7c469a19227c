---------------------------- MODULE MCClientState ----------------------------
(***************************************************************************)
(* What the client keeps for its user, for TLC: the gate of the microphone *)
(* (PushToTalk), the history of a conversation (MessageHistory) and its    *)
(* draft (DraftSync).  They share no variable, so one run checks them side *)
(* by side: `which` names the component that moves, and their state spaces *)
(* add up instead of multiplying.                                          *)
(***************************************************************************)
EXTENDS PushToTalk, DraftSync, MessageHistory

VARIABLE which

all == <<which, vars, historyVars, draftVars>>

\* What the theorems about histories and drafts assume of their constants.
ASSUME PageAssumption == HistoryAssumption
ASSUME EntryAssumption == DraftAssumption

Component == {"talk", "history", "drafts"}
Talks(A) == which = "talk" /\ A /\ UNCHANGED <<which, historyVars, draftVars>>
Reads(A) == which = "history" /\ A /\ UNCHANGED <<which, vars, draftVars>>
Writes(A) == which = "drafts" /\ A /\ UNCHANGED <<which, vars, historyVars>>

\* A component that does not move starts in one state only: the gate in that of
\* a user without shortcuts, the history in that of an empty log.
MCInit ==
  /\ which \in Component
  /\ Init /\ HistoryInit /\ DraftInit
  /\ which # "talk" => ~enabled /\ ~globalMute
  /\ which # "history" => log = <<>>

MCNext ==
  \/ Talks(Next)
  \/ Reads(HistoryNext)
  \/ Writes(DraftNext)

MCSpec == MCInit /\ [][MCNext]_all
MCFairSpec == MCSpec /\ WF_all(Talks(Heartbeat))

-----------------------------------------------------------------------------
\* Every variable keeps its type, in each of the components.
TypesOK == which \in Component /\ TypeOK /\ HistoryTypeOK /\ DraftTypeOK
=============================================================================
