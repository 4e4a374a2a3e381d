SPECIFICATION FairSpec
CONSTANTS
  Hour = 1
  Day = 2
  Width = 5
  Builtin <- MCBuiltin
  Updates = {u1}
  Files <- MCFiles
  Envs <- MCEnvs
  PromptDirs <- MCPromptDirs
  NoText = NoText
  MaxLives = 2
  MaxTime = 3
INVARIANTS
  BlindOnlyIfPurged
  StopIsSelfContained
PROPERTIES
  RowsLiveForever
  KeptForRetention
  TicksSpaced
  LastSoundWins
  StopEnds
CHECK_DEADLOCK FALSE
