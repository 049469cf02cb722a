SPECIFICATION Spec
CONSTANTS
  Sizes = {0, 215}
  OptionSizes = {0, 3, 44}
  Contexts <- MCContexts
  MaxChanges = 2
  MaxTags = 1
INVARIANTS PacketWellFormed Checksums
PROPERTIES FailedCallAddsNothing IpLenFollowsTcp
CHECK_DEADLOCK FALSE
