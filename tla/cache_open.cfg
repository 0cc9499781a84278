SPECIFICATION FairSpec
CONSTANTS
  p1 = p1
  p2 = p2
  p3 = p3
  Process <- Processes
  Src <- Sharing
  Separate = TRUE
  Killable <- NotHalfMoved
  MaxKills = 2
  Nobody = Nobody
  Absent = Absent
INVARIANTS
  NothingLost
  EntriesKept
PROPERTIES
  FailsOnlyNew
  EveryoneEnds
CHECK_DEADLOCK FALSE
