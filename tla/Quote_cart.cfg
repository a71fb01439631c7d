\* Carts of up to two lines under every campaign, shipping rule and coupon.
SPECIFICATION Spec
CONSTANTS
  Amount = {149, 4950}
  Quantity = {1, 3}
  GstRate = {0, 1800}
  Increase = {2000}
  Discount = {3333}
  Category = {c1}
  Nowhere = Nowhere
  CouponValue = {1000, 20000}
  Unset = Unset
  MaxLines = 2
INVARIANTS TotalAddsUp TaxMatchesGoods ShownIsCharged
CHECK_DEADLOCK FALSE
