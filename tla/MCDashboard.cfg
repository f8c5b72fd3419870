SPECIFICATION Spec
CONSTANTS
  Tour <- Tours
  Here = t1
  Tab = {t1, t2}
  ShellPage = {"convergence"}
  MaxShellClicks = 2
  MaxRuns = 2
  MaxPolls = 2
  MaxFaults = 1
  Field = {metrics_dir, key_storage_dir, transport, hysteresis}
  ApiField = {metrics_dir}
  CoreField = {key_storage_dir}
  RequestField = {transport}
  Refused <- NoHysteresis
  hysteresis = hysteresis
  zero = zero
  Value = {old, zero}
  Default = old
  Bad = bad
  MaxEdits = 2
  MaxSaves = 2
  MaxConfigFaults = 1
  Image = {i1, i2}
  NoImage = none
  Model = {m1, m2}
  NoModel = nomodel
  MaxRequests = 2
  MaxClicks = 3
  MaxPicks = 2
  MaxNodes = 2
  Filter <- SecondOnly
  Size = {1, 2}
  FirstSize = 2
  Column = {status}
  MaxTableClicks = 3
  MaxRecords = 2
  MaxLoaders = 1
  MaxLoads <- Overlaps
  MaxLoadFaults = 1
  TimeRange = {"10", "all"}
  Partner <- Other
INVARIANTS TypeOK OldResultNeedsOverlap EnvIsOneForm ResultsOfImage
PROPERTIES SimulationsUseSaved PickNeedsOverlap SelectionStays GoesBackNeedsOverlap PlaybackSkipsNothing ResultShows
CHECK_DEADLOCK FALSE
