SPECIFICATION FairSpec
CONSTANTS
  User = {u1}
  Session = {s1, s2, s3}
  None = None
  EmptyScansToStop = 2
INVARIANTS
  OneLiveSession
PROPERTIES
  StopNeedsTwoEmptyReads
  Resumes
  StopsForGood
  DrainsAfterShutdown
