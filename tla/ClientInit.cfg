SPECIFICATION Spec
CONSTANTS
  scan = scan
  storm = storm
  a1 = a1
  NoAddress = NoAddress
  MissionTypes <- MCMissionTypes
  Addresses <- MCAddresses
  MaxMissions = 2
PROPERTIES InitAnswered
