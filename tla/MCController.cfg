\* Every order of the two callers' calls, the queue at its depth, shutdown and
\* abort at any point.
SPECIFICATION FairSpec
CONSTANTS
  a = a
  b = b
  Callers <- MCCallers
  Kinds <- MCKinds
  Cap = 2
  Calls <- MCCalls
INVARIANTS TypeOK AnswersAreCurrent GoneIsUnapplied DrainServes
PROPERTIES InOrder CallersReturn
\* Callers that have all left a controller that is gone do nothing more.
CHECK_DEADLOCK FALSE
