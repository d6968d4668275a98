SPECIFICATION MCSpec
CONSTANTS
  Clients <- OneClient
  Contents <- MCContents
  NoContent = "none"
  ReplayLimit = 2
  QueueLimit = 2
  Headroom = 20
  MaxChanges = 1
  MaxBeats = 3
  MaxConnects = 2
  MaxRestarts = 0
  MaxFaults = 0
INVARIANTS ReplayHasNoGap LatestWins VersionsSurviveRestart
PROPERTIES RestartEventuallyCurrent
