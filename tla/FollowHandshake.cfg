SPECIFICATION FairSpec
CONSTANTS
  Actor = {a1}
  Opaque = {a1}
  MaxSends = 2
  MaxTries = 2
INVARIANTS
  FollowersWereAccepted
  GraphMatchesRemote
PROPERTIES
  AcceptedIsFederated
\* The account sends MaxSends activities and then stops.
CHECK_DEADLOCK FALSE
