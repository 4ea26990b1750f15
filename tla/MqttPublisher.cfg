SPECIFICATION FairSpec
CONSTANT MaxResults = 4
CONSTANT MaxStarts = 3
INVARIANT MessageIsWhole
INVARIANT ClientOutlivesTimer
PROPERTY LastIsSent
CHECK_DEADLOCK FALSE
