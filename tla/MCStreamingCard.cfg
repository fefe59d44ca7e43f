\* A reply of up to three cards; three updates that fail.
SPECIFICATION FairSpec
CONSTANTS
  MaxText = 5
  Slice = 2
  Limit = 3
  Body <- Bodies
  MaxPatchFailures = 2
  MaxQueue = 2
  MaxFailures = 3
INVARIANT TypeOK
INVARIANT NoZombie
INVARIANT ReplyIsShown
INVARIANT CardsMeet
PROPERTY NoRepaint
PROPERTY ReplySettles
CHECK_DEADLOCK FALSE
