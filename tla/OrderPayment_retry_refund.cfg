\* A retry races the capture it does not know of.
SPECIFICATION Spec
CONSTANTS
  Req = {r1, r2}
  Nobody = Nobody
  RzpOrder = {o1, o2}
  NoId = NoId
  FailedPayId = FailedPayId
  Ops = {"create", "hook", "retry"}
  AdminTargets = {}
  OtherUses = 1
SYMMETRY AllAlike
INVARIANTS ConfirmedNotRefunded
