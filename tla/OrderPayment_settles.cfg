\* Liveness with lost answers, one Razorpay order.
SPECIFICATION FairSpec
CONSTANTS
  Req = {r1, r2}
  Nobody = Nobody
  RzpOrder = {o1}
  NoId = NoId
  FailedPayId = FailedPayId
  Ops = {"create", "verify", "hook", "fail", "expire", "recover", "lost"}
  AdminTargets = {}
  OtherUses = 1
PROPERTIES WindowIsFinal LateMoneyReturned LostAnswerReconciled
