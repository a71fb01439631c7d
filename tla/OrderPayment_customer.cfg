\* Everything a customer, Razorpay, the cron and the administrator who confirms or
\* refunds an order do; answers get lost.
SPECIFICATION Spec
CONSTANTS
  Req = {r1, r2}
  Nobody = Nobody
  RzpOrder = {o1, o2}
  NoId = NoId
  FailedPayId = FailedPayId
  Ops = {"create", "cancel", "retry", "verify", "hook", "fail", "expire", "admin",
         "stale", "recover", "lost"}
  AdminTargets = {"CONFIRMED", "REFUNDED"}
  OtherUses = 1
SYMMETRY AllAlike
INVARIANTS TypeOK ConfirmedOnce RefundsAreReal NoStrandedMoney
