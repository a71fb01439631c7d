\* The automatic publication fails while an administrator publishes.
SPECIFICATION Spec
CONSTANTS
  Request = {r1}
  Recovery = Recovery
  Kind <- Upload
  Worker = {w1}
  Admin = {a1}
  MaxAttempts = 1
  MaxOps = 1
  MaxCrashes = 0
PROPERTIES PublishedKept
CHECK_DEADLOCK FALSE
