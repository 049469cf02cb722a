SPECIFICATION FairSpec
CONSTANTS
  scan = scan
  storm = storm
  a1 = a1
  NoAddress = NoAddress
  MissionTypes <- MCMissionTypes
  Addresses <- MCAddresses
  MaxMissions = 3
INVARIANTS TypeOK OnlyFirstOfTypeRuns RunningIsMonitored SinglePing
PROPERTIES RunnerAnswered ImplementsRegistry SignalEndsProcess
