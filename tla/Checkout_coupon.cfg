\* Two customers, one key each, and a coupon for two orders, one per customer.
SPECIFICATION Spec
CONSTANTS
  Req = {r1, r2}
  Customer = {alice, bob}
  Key = {k}
  OrderId = {o1, o2, o3}
  None = None
  UsageLimit = 2
  UsageLimitPerUser = 1
SYMMETRY Alike
CONSTRAINT Few
INVARIANTS TypeOK UsesAreCounted LimitHolds CustomerLimitHolds LoserFindsOrder
PROPERTIES PlacedAtOnce
 
