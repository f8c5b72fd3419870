\* when the user has left the page, nothing more has to happen
CHECK_DEADLOCK FALSE
SPECIFICATION FairSpec
CONSTANTS
  MaxSockets = 2
  MaxEvents = 1
  Handler = {TRUE, FALSE}
  Message <- Rounds
  MaxRounds = 2
  MaxBatch = 1
  MaxPolls = 1
INVARIANTS TypeOK ConnectionsBounded SkippedWasTorn
PROPERTIES PushedInOrder PlaybackStays GoneLeaves PageCatchesUp
