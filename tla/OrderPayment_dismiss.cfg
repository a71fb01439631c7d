\* The customer closes the payment dialog while a capture arrives.
SPECIFICATION Spec
CONSTANTS
  Req = {r1, r2}
  Nobody = Nobody
  RzpOrder = {o1, o2}
  NoId = NoId
  FailedPayId = FailedPayId
  Ops = {"create", "hook", "cancel"}
  AdminTargets = {}
  OtherUses = 1
SYMMETRY AllAlike
PROPERTIES DismissKeepsPaidOrder
