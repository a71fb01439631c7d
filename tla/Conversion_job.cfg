\* One job from its upload to its model: one worker, its stalls, a crash anywhere.
SPECIFICATION FairSpec
CONSTANTS
  Request = {r1}
  Recovery = Recovery
  Kind <- Kinds
  Worker = {w1}
  Admin = {a1}
  MaxAttempts = 2
  MaxOps = 1
  MaxCrashes = 1
INVARIANTS TypeOK UploadWhole NothingLost
PROPERTIES BorrowedKept CompletionRecovers WorkSettles
CHECK_DEADLOCK FALSE
