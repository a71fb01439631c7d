\* Payment, webhooks, the cron and the administrator, with crashes and lost answers.
SPECIFICATION Spec
CONSTANTS
  Req = {r1, r2}
  Nobody = Nobody
  RzpOrder = {o1, o2}
  NoId = NoId
  FailedPayId = FailedPayId
  Ops = {"create", "verify", "hook", "fail", "expire", "stale", "recover", "admin",
         "crash", "lost"}
  AdminTargets = {"CONFIRMED", "PROCESSING", "CANCELLED", "REFUNDED"}
  OtherUses = 1
SYMMETRY AllAlike
INVARIANTS ConfirmedNotRefunded CouponReleasedOnce RefundedOrderReturnsMoney
PROPERTIES CaptureKept SettledAtOnce
