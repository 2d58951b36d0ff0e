CONSTANTS
    Contents <- MC_ContentsZeroLinks
    Malformed = Malformed
    None = None
SPECIFICATION Spec
INVARIANT DescriptorsRecovered
\* A panic ends the thread: no call follows it.
CHECK_DEADLOCK FALSE
