------------------------------- MODULE Quote -------------------------------
(* One call of PricingService.calculate: it prices the lines of a cart, adds  *)
(* the shipping, takes the coupon off, and extracts the GST that the prices   *)
(* already contain, line by line.                                             *)
(*                                                                            *)
(* What the call reads between its awaits is chosen when it is read: the      *)
(* tables may be changed by an administrator at any moment, and the sums must *)
(* be right for every combination. Amounts are integers in minor units and a  *)
(* division is exact, which a double is for amounts a shop can have.          *)
(*                                                                            *)
(* A priced line also carries upTo, what the lines up to it come to. The code *)
(* does not keep it; it says which part of the goods has been taxed.          *)
EXTENDS Integers, Sequences

CONSTANTS
  Amount,       \* the prices, shipping amounts and thresholds that occur
  Quantity,     \* the quantities of a line
  GstRate,      \* Category.gstRateBps
  Increase,     \* priceIncreaseBps of a sale campaign
  Discount,     \* discountBps of a sale campaign
  Category,     \* the categories; Nowhere: no category, or no parent
  Nowhere,
  CouponValue,  \* Promotion.value: basis points or minor units
  Unset,        \* null in a column of a rule or a promotion
  MaxLines      \* bound: the lines of a cart

Whole == 10000    \* 100 % in basis points

ASSUME ConstantsOK ==
  /\ Amount \subseteq Nat
  /\ Quantity \subseteq Nat \ {0}
  /\ GstRate \subseteq 0..Whole
  /\ Increase \subseteq 0..Whole
  /\ Discount \subseteq 0..Whole
  /\ CouponValue \subseteq Nat
  /\ MaxLines \in Nat

Somewhere == Category \cup {Nowhere}
OptAmount == Amount \cup {Unset}
Currency == {"INR", "USD"}

(* A cart line with what the call reads of its product, variant and category. *)
Item == [price : Amount, quantity : Quantity, gst : GstRate,
         category : Somewhere, parent : Somewhere]

Campaign == [active : BOOLEAN, scope : Somewhere, increase : Increase, discount : Discount]

Rule == [type : {"FREE", "FLAT_RATE", "FREE_ABOVE", "WEIGHT_BASED"},
         amount : OptAmount, freeAbove : OptAmount]

Promotion == [percentage : BOOLEAN, value : CouponValue,
              minSubtotal : OptAmount, maxDiscount : OptAmount]

Line == [item : Item, unit : Nat, total : Nat, upTo : Nat]

VARIABLES
  phase,        \* how far the call is
  sale,         \* the campaign it read
  currency,     \* the currency of the lines
  lines,        \* the priced lines
  subtotal, saleDiscount, saleSubtotal,
  shipping,
  coupon,       \* discountMinor, the coupon's share
  taxed,        \* the number of lines whose tax is computed
  tax,          \* taxMinor
  total         \* totalMinor

sums == <<subtotal, saleDiscount, saleSubtotal>>
vars == <<phase, sale, currency, lines, sums, shipping, coupon, taxed, tax, total>>

-----------------------------------------------------------------------------
Lesser(a, b) == IF a <= b THEN a ELSE b
Greater(a, b) == IF a >= b THEN a ELSE b

\* Math.round(n / d) of a quotient that is not negative.
Rounded(n, d) == (2 * n + d) \div (2 * d)

(* The sale. *)
Clamped(bps) == Lesser(Whole, Greater(0, bps))

BugOwnCategoryOnly(item, c) == c.active /\ c.scope \in {Nowhere, item.category}

SaleApplies(item, c) == c.active /\ c.scope \in {Nowhere, item.category, item.parent}

Scaled(amount, bps) == Rounded(amount * bps, Whole)

ListPrice(item, c) ==
  IF SaleApplies(item, c) THEN Scaled(item.price, Whole + Clamped(c.increase)) ELSE item.price

UnitPrice(item, c) ==
  IF SaleApplies(item, c) THEN Scaled(ListPrice(item, c), Whole - Clamped(c.discount))
                          ELSE item.price

(* What the pages of the shop show for the same product or size. *)
ShopPrice(item, c) ==
  IF /\ c.active
     /\ \/ c.scope = Nowhere
        \/ c.scope = item.category
        \/ c.scope = item.parent
  THEN Scaled(Scaled(item.price, Whole + Greater(0, c.increase)), Whole - Greater(0, c.discount))
  ELSE item.price

(* Shipping and coupon, both by the subtotal after the sale. *)
ShippingOf(rule, goods) ==
  IF \/ rule.type = "FREE"
     \/ rule.type = "FREE_ABOVE" /\ rule.freeAbove # Unset /\ goods >= rule.freeAbove
  THEN 0
  ELSE IF rule.amount = Unset THEN 0 ELSE rule.amount

Worth(p, goods) == IF p.percentage THEN (goods * p.value) \div Whole ELSE p.value

CouponOf(p, goods) ==
  LET most == Lesser(Worth(p, goods), goods) IN
    IF p.maxDiscount = Unset THEN most ELSE Lesser(most, p.maxDiscount)

(* The GST that a line contains after its share of the coupon. *)
Share(amount) == IF saleSubtotal > 0 THEN (coupon * amount) \div saleSubtotal ELSE 0

BugTaxBeforeCoupon(line) ==
  Rounded(line.total * line.item.gst, Whole + line.item.gst)

Discounted(line) == Greater(0, line.total - Share(line.total))

LineTax(line) ==
  IF line.item.gst > 0
  THEN Rounded(Discounted(line) * line.item.gst, Whole + line.item.gst)
  ELSE 0

(* What is left to pay, to the rupee. *)
Unrounded == Greater(0, subtotal + shipping - (saleDiscount + coupon))

BugDropsPaise ==
  IF currency = "INR" THEN (Unrounded \div 100) * 100 ELSE Unrounded

ToPay == IF currency = "INR" THEN Rounded(Unrounded, 100) * 100 ELSE Unrounded

-----------------------------------------------------------------------------
Init ==
  /\ phase = "lines"
  /\ sale \in Campaign
  /\ currency \in Currency
  /\ lines = <<>>
  /\ subtotal = 0 /\ saleDiscount = 0 /\ saleSubtotal = 0
  /\ shipping = 0 /\ coupon = 0
  /\ taxed = 0 /\ tax = 0 /\ total = 0

\* The next line of the cart.
PriceLine ==
  /\ phase = "lines"
  /\ Len(lines) < MaxLines
  /\ \E item \in Item :
       LET unit == UnitPrice(item, sale)
           amount == unit * item.quantity
           listed == ListPrice(item, sale) * item.quantity
       IN /\ subtotal' = subtotal + listed
          /\ saleDiscount' = saleDiscount + (listed - amount)
          /\ saleSubtotal' = saleSubtotal + amount
          /\ lines' = Append(lines, [item |-> item, unit |-> unit, total |-> amount,
                                     upTo |-> saleSubtotal + amount])
  /\ UNCHANGED <<phase, sale, currency, shipping, coupon, taxed, tax, total>>

Refuse ==
  /\ phase' = "refused"
  /\ UNCHANGED <<sale, currency, lines, sums, shipping, coupon, taxed, tax, total>>

\* The cart is empty, or a line cannot be sold: its product is not on sale or not
\* taking orders, its size is gone or has no price, or its currency is another; or
\* the postal code is not delivered to.
RefuseLine == phase = "lines" /\ Refuse

\* The first shipping rule that matches, if there is one.
Ship ==
  /\ phase = "lines"
  /\ lines # <<>>
  /\ \/ shipping' = 0
     \/ \E rule \in Rule : shipping' = ShippingOf(rule, saleSubtotal)
  /\ phase' = "coupon"
  /\ UNCHANGED <<sale, currency, lines, sums, coupon, taxed, tax, total>>

ApplyNoCoupon ==
  /\ phase = "coupon"
  /\ phase' = "tax"
  /\ UNCHANGED <<sale, currency, lines, sums, shipping, coupon, taxed, tax, total>>

Admits(p, goods) == ~(p.minSubtotal # Unset /\ goods < p.minSubtotal)

ApplyCoupon ==
  /\ phase = "coupon"
  /\ \E p \in Promotion :
       /\ Admits(p, saleSubtotal)
       /\ coupon' = CouponOf(p, saleSubtotal)
  /\ phase' = "tax"
  /\ UNCHANGED <<sale, currency, lines, sums, shipping, taxed, tax, total>>

\* The coupon is unknown, out of its time or used up, or the cart is too small.
RefuseCoupon == phase = "coupon" /\ Refuse

TaxLine ==
  /\ phase = "tax"
  /\ taxed < Len(lines)
  /\ taxed' = taxed + 1
  /\ tax' = tax + LineTax(lines[taxed + 1])
  /\ UNCHANGED <<phase, sale, currency, lines, sums, shipping, coupon, total>>

\* An order that costs nothing cannot be paid, and is refused.
Finish ==
  /\ phase = "tax"
  /\ taxed = Len(lines)
  /\ total' = ToPay
  /\ phase' = IF ToPay > 0 THEN "quoted" ELSE "refused"
  /\ UNCHANGED <<sale, currency, lines, sums, shipping, coupon, taxed, tax>>

Next ==
  \/ PriceLine \/ RefuseLine \/ Ship
  \/ ApplyNoCoupon \/ ApplyCoupon \/ RefuseCoupon
  \/ TaxLine \/ Finish

Spec == Init /\ [][Next]_vars

-----------------------------------------------------------------------------
\* Every variable has its type. A coupon never takes off more than the goods
\* cost after the sale.
TypeOK ==
  /\ phase \in {"lines", "coupon", "tax", "quoted", "refused"}
  /\ sale \in Campaign
  /\ currency \in Currency
  /\ lines \in Seq(Line)
  /\ subtotal \in Nat /\ saleDiscount \in Nat /\ saleSubtotal \in Nat
  /\ shipping \in Nat
  /\ coupon \in 0..saleSubtotal
  /\ taxed \in 0..Len(lines)
  /\ tax \in Nat
  /\ total \in Nat

Goods == saleSubtotal - coupon

\* What the customer pays is the goods after sale and coupon plus the shipping:
\* Math.max never cuts a negative total off, and rounding to the rupee moves the
\* amount by half a rupee at most. A quoted total can be paid.
TotalAddsUp ==
  phase = "quoted" =>
    /\ total > 0
    /\ currency = "INR" =>
         /\ total % 100 = 0
         /\ total - (Goods + shipping) \in -50..50
    /\ currency # "INR" => total = Goods + shipping

\* When all lines have one rate, the tax that was extracted line by line, each
\* line with its own rounded share of the coupon, is the tax contained in what
\* the customer pays for the goods, to within one minor unit per line.
TaxMatchesGoods ==
  phase = "quoted" =>
    \A rate \in GstRate :
      (\A k \in 1..Len(lines) : lines[k].item.gst = rate) =>
        LET off == tax * (Whole + rate) - Goods * rate
            most == Len(lines) * (Whole + rate)
        IN -most <= off /\ off <= most

\* Every line is charged at the price the shop shows for it under the same
\* campaign, also when the campaign is for the parent of the product's category.
ShownIsCharged ==
  \A k \in 1..Len(lines) : lines[k].unit = ShopPrice(lines[k].item, sale)

=============================================================================
