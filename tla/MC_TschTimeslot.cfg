CONSTANTS
    Ids <- MC_Ids
    GuardTimes <- MC_Guards
    Durations <- MC_Durations
    BufLens = {25}
    MaxSets <- MC_MaxSets
    None = None
SPECIFICATION Spec
INVARIANT TimingsRoundTrip
\* A panic ends the thread: no call follows it.
CHECK_DEADLOCK FALSE
