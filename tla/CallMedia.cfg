SPECIFICATION MCFairSpec
CONSTANTS
  Initiator = "a"  Responder = "b"  None = None  NoDescription = NoDescription  Nil = Nil
  MaxChanges = 3  MaxLosses = 2  MaxLate = 2  MaxTries = 2
  Attempt = {1, 2, 3}  Toggle = {t1}  Session = {s1, s2}  Room = {r, q}
  MaxBegun = 4
  Impolite = "a"  Polite = "b"
  MaxRevision = 2  MaxSendLosses = 1  MaxQueue = 4
  PromptTimers = FALSE  SlowLimits = FALSE
  Job = {1, 2, 3}  Peer = {p, q}  Source = {"microphone"}  Nothing = Nothing
  Overlap = FALSE
INVARIANTS
  TypesOK EpochsAgree KeysServeOneSession CapturesAreReleased MutedIsSilent
  NoOrphans ShownAsItIs RecordingsEnd
PROPERTIES
  ChangesGetNegotiated RestoredTogether FallbackGetsHeard
CHECK_DEADLOCK FALSE
