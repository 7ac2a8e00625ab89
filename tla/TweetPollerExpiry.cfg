SPECIFICATION TweetSpec
CONSTANTS
  Tweet = {t1, r1}
  Original = {t1}
  TTL = 3
  Overrun = 1
PROPERTIES
  ExpiryNeverRepublishes
