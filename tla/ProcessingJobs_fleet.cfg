\* Two workers of two processes, two callers of create, one crash.
SPECIFICATION FairSpec
CONSTANTS
  Worker = {w1, w2}
  Client = {c1}
  File = {f1}
  Model = {f1}
  NoFile = NoFile
  MaxJobs = 2
  MaxAttempts = 2
  MaxCrashes = 1
INVARIANTS TypeOK OneActiveJob RetryNeverPasses NoFileForgotten AttemptsBounded
PROPERTIES BoardKept JobsSettle
