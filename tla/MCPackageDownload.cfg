SPECIFICATION FairSpec
CONSTANTS
  Package = {a, b, c, d}
  JobLimit = 2
  RetryLimits = {0, 3}
INVARIANT QueueIsServed
INVARIANT DownloadComplete
INVARIANT RetriedAtMostOnce
PROPERTY Terminates
CHECK_DEADLOCK FALSE
