SPECIFICATION FairContents
CONSTANTS
  p1 = p1
  p2 = p2
  Products <- MCProducts
  Kinds = {"products", "sold", "warnings"}
  InstantOf <- MCInstantOf
  AbortNotifies = {TRUE, FALSE}
  MaxEvents = 3
  MaxInbox = 3
  MaxAsked = 2
  MaxFailures = 1
  MaxLost = 1
INVARIANTS
  ContentsTypeOK
  ContentsAccount
PROPERTY CaughtUp
CHECK_DEADLOCK FALSE
