SPECIFICATION FairSpec
CONSTANT N = 4
INVARIANTS
  TypeOK
  WritesAreNotRaced
  WriteRepeatedOnlyAfterError
  FailureIsExhaustive
  AnswerIsGenuine
PROPERTIES
  ImplementsContract
  EverythingEnds
\* A request is one-shot: it stops when it has returned and its attempts ended.
CHECK_DEADLOCK FALSE
