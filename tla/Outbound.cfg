SPECIFICATION FairSpec
CONSTANTS
  Tweet = {t1, r1}
  Original = {t1}
  TTL = 3
  Overrun = 1
  Actor = {a1, a2}
  Cap = 2
  FanOut = {f1, f2}
  Follower = {a, b}
  Inbound = {i1, i2}
  Self = Self
INVARIANTS
  FetchedIsPublished
  KnownMatchesSent
  SlotsAreExact
  ReturnsSettled
PROPERTIES
  PublishesOnlyNewOrLapsed
  PostsAreFederated
  Converges
  FanOutsEnd
