CONSTANTS
  Streams <- MC_Streams
  Malformed = Malformed
  None = None
  Panic = Panic
  MaxNext <- MC_MaxNext
SPECIFICATION Spec
\* A panic ends the thread: no call follows it.
CHECK_DEADLOCK FALSE
INVARIANT ElementsRecovered
PROPERTY IterationEnds
