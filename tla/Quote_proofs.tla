---------------------------- MODULE Quote_proofs ----------------------------
(* For every cart, campaign, shipping rule and coupon: the call keeps its     *)
(* types, the total is what its parts come to, the GST taken out line by line *)
(* is the GST of what is paid, and every line costs what the shop shows.      *)
EXTENDS Quote, TLAPS

-----------------------------------------------------------------------------
(* Quotients. *)

\* Math.floor of a quotient is the largest integer below it.
LEMMA DivBound ==
  ASSUME NEW a \in Nat, NEW b \in Nat, b > 0
  PROVE  /\ a \div b \in Nat
         /\ b * (a \div b) <= a
         /\ a < b * (a \div b) + b
  OBVIOUS

\* A product keeps the order of its first factors.
LEMMA TimesMono ==
  ASSUME NEW a \in Int, NEW b \in Int, NEW c \in Nat, a <= b
  PROVE  a * c <= b * c
  OBVIOUS

LEMMA TimesNat ==
  ASSUME NEW a \in Nat, NEW b \in Nat
  PROVE  a * b \in Nat
  OBVIOUS

LEMMA TimesZero ==
  ASSUME NEW a \in Int, NEW b \in Int
  PROVE  0 * a * b = 0 /\ a * b * 0 = 0 /\ 0 * a = 0
  OBVIOUS

\* Math.round of a quotient is off by half a unit at most.
LEMMA RoundedBound ==
  ASSUME NEW n \in Nat, NEW d \in Nat, d > 0
  PROVE  /\ Rounded(n, d) \in Nat
         /\ 2 * (d * Rounded(n, d)) <= 2 * n + d
         /\ 2 * n <= 2 * (d * Rounded(n, d)) + d
PROOF
  <1> DEFINE q == (2 * n + d) \div (2 * d)
  <1>1. 2 * n + d \in Nat /\ 2 * d \in Nat /\ 2 * d > 0
    OBVIOUS
  <1>2. q \in Nat /\ (2 * d) * q <= 2 * n + d /\ 2 * n + d < (2 * d) * q + 2 * d
    BY <1>1, DivBound
  <1>3. (2 * d) * q = 2 * (d * q)
    BY <1>2
  <1>4. q = Rounded(n, d)
    BY DEF Rounded
  <1> QED BY <1>2, <1>3, <1>4

LEMMA RoundedZero ==
  ASSUME NEW d \in Nat, d > 0
  PROVE  Rounded(0, d) = 0
PROOF
  <1> DEFINE q == Rounded(0, d)
  <1>1. q \in Nat /\ 2 * (d * q) <= d
    BY RoundedBound
  <1> HIDE DEF q
  <1>2. SUFFICES ASSUME 1 <= q PROVE FALSE
    BY <1>1 DEF q
  <1>3. 1 * d <= q * d
    BY <1>1, <1>2, TimesMono
  <1> QED BY <1>1, <1>3

\* Before the first line is taxed both sides of TaxSoFar are zero.
LEMMA NothingTaxed ==
  ASSUME NEW S \in Nat, NEW d \in Int, NEW rate \in Nat
  PROVE  0 * (Whole + rate) * S = 0 /\ rate * (S - d) * 0 = 0 /\ 0 * ((Whole + rate) * S) = 0
PROOF
  <1>1. Whole + rate \in Nat /\ S - d \in Int
    BY DEF Whole
  <1>2. (Whole + rate) * S \in Nat
    BY <1>1, TimesNat
  <1> QED BY <1>1, <1>2, TimesZero

\* A campaign never makes a price negative, and its discount never raises one.
LEMMA ScaledDown ==
  ASSUME NEW amount \in Nat, NEW bps \in 0..Whole
  PROVE  Scaled(amount, bps) \in Nat /\ Scaled(amount, bps) <= amount
PROOF
  <1> DEFINE n == amount * bps
             s == Rounded(n, Whole)
  <1>1. n \in Nat /\ n <= amount * Whole
    BY TimesMono DEF Whole
  <1>2. Whole \in Nat /\ Whole > 0
    BY DEF Whole
  <1>3. s \in Nat /\ 2 * (Whole * s) <= 2 * n + Whole
    <2> HIDE DEF n
    <2> QED BY <1>1, <1>2, RoundedBound
  <1>4. 2 * (Whole * s) <= 2 * (amount * Whole) + Whole
    <2> HIDE DEF n, s
    <2> QED BY <1>1, <1>2, <1>3
  <1>5. s <= amount
    <2> HIDE DEF n, s
    <2> QED BY <1>3, <1>4 DEF Whole
  <1> QED BY <1>3, <1>5 DEF Scaled

LEMMA ScaledNat ==
  ASSUME NEW amount \in Nat, NEW bps \in Nat
  PROVE  Scaled(amount, bps) \in Nat
PROOF
  <1>1. amount * bps \in Nat
    OBVIOUS
  <1> QED BY <1>1, RoundedBound DEF Scaled, Whole

\* The coupon's share of a line is rounded down and the line's tax to the nearest
\* unit; together they put the tax off by less than one unit.
LEMMA OneLine ==
  ASSUME NEW S \in Nat, NEW d \in 0..S, NEW L \in 0..S, NEW r \in 0..Whole, S > 0,
         NEW t \in Nat,
         t = IF r > 0 THEN Rounded(Greater(0, L - (d * L) \div S) * r, Whole + r) ELSE 0
  PROVE  /\ t * (Whole + r) * S - r * (S - d) * L <= (Whole + r) * S
         /\ r * (S - d) * L - t * (Whole + r) * S <= (Whole + r) * S
PROOF
  <1> DEFINE a == (d * L) \div S
             D == L - a
             R == Whole + r
             E == (S - d) * L
  <1>0. R \in Nat /\ R > 0 /\ 2 * r <= R
    BY DEF Whole
  <1>1. a \in Nat /\ S * a <= d * L /\ d * L < S * a + S
    BY DivBound
  <1>2. a <= L
    <2>1. d * L <= S * L
      BY TimesMono
    <2>2. SUFFICES ASSUME L + 1 <= a PROVE FALSE
      BY <1>1
    <2>3. (L + 1) * S <= a * S
      BY <2>2, <1>1, TimesMono
    <2> QED BY <1>1, <2>1, <2>3
  <1>3. D \in Nat /\ Greater(0, D) = D
    BY <1>1, <1>2 DEF Greater
  <1>4. E \in Nat /\ E <= S * D /\ S * D <= E + S
    <2>1. S * D = S * L - S * a
      BY <1>1
    <2>2. E = S * L - d * L
      OBVIOUS
    <2>3. E \in Nat
      OBVIOUS
    <2> QED BY <1>1, <2>1, <2>2, <2>3
  <1>5. CASE r = 0
    <2>1. t = 0
      BY <1>5
    <2> QED BY <1>5, <2>1, <1>0
  <1>6. CASE r > 0
    <2> DEFINE X == R * t
               Y == D * r
    <2>1. Y \in Nat /\ X \in Nat
      BY <1>0, <1>3
    <2>2. t = Rounded(Y, R)
      BY <1>6, <1>3
    <2>3. 2 * X <= 2 * Y + R /\ 2 * Y <= 2 * X + R
      BY <2>1, <2>2, <1>0, RoundedBound
    <2>4. (2 * X) * S <= (2 * Y + R) * S /\ (2 * Y) * S <= (2 * X + R) * S
      <3> HIDE DEF X, Y, R
      <3> QED BY <2>1, <2>3, <1>0, TimesMono
    <2>5. 2 * (X * S) <= 2 * (Y * S) + R * S /\ 2 * (Y * S) <= 2 * (X * S) + R * S
      <3> HIDE DEF X, Y, R
      <3> QED BY <2>1, <2>4, <1>0
    <2>6. E * r <= (S * D) * r /\ (S * D) * r <= (E + S) * r
      <3> HIDE DEF D, E
      <3> QED BY <1>3, <1>4, TimesMono
    <2>7. Y * S = (S * D) * r
      <3> HIDE DEF D
      <3> QED BY <1>3
    <2>8. E * r <= Y * S /\ Y * S <= E * r + r * S
      <3> HIDE DEF D, E, Y
      <3> QED BY <1>3, <1>4, <2>6, <2>7
    <2>9. 2 * (r * S) <= R * S
      <3>1. (2 * r) * S <= R * S
        BY <1>0, TimesMono
      <3> QED BY <3>1
    <2>10. X * S - E * r <= R * S /\ E * r - X * S <= R * S
      <3> DEFINE p == X * S
                 q == Y * S
                 e == E * r
                 u == R * S
                 v == r * S
      <3>1. p \in Nat /\ q \in Nat /\ e \in Nat /\ u \in Nat /\ v \in Nat
        <4> HIDE DEF X, Y, E, R
        <4> QED BY <2>1, <1>0, <1>4
      <3>2. 2 * p <= 2 * q + u /\ 2 * q <= 2 * p + u /\ e <= q /\ q <= e + v /\ 2 * v <= u
        BY <2>5, <2>8, <2>9
      <3> HIDE DEF p, q, e, u, v
      <3>3. p - e <= u /\ e - p <= u
        BY <3>1, <3>2
      <3> QED BY <3>3 DEF p, e, u
    <2>11. t * (Whole + r) * S = X * S
      BY <1>0
    <2>12. r * (S - d) * L = E * r
      OBVIOUS
    <2> QED BY <2>10, <2>11, <2>12
  <1> QED BY <1>5, <1>6

-----------------------------------------------------------------------------
(* The invariant. *)

\* What the first k lines come to.
UpTo(k) == IF k = 0 THEN 0 ELSE lines[k].upTo

SumsAgree == saleSubtotal = subtotal - saleDiscount

LinesAddUp ==
  /\ UpTo(Len(lines)) = saleSubtotal
  /\ \A k \in 1..Len(lines) : lines[k].upTo = UpTo(k - 1) + lines[k].total
                              /\ lines[k].upTo <= saleSubtotal

NotYet ==
  /\ phase \in {"lines", "coupon"} => coupon = 0 /\ taxed = 0 /\ tax = 0
  /\ phase = "quoted" => taxed = Len(lines) /\ total = ToPay /\ ToPay > 0

\* The tax of the first taxed lines against their share of what is paid.
TaxSoFar ==
  /\ saleSubtotal = 0 => tax = 0
  /\ \A rate \in GstRate :
       (\A k \in 1..taxed : lines[k].item.gst = rate) =>
         LET part == tax * (Whole + rate) * saleSubtotal
             due == rate * (saleSubtotal - coupon) * UpTo(taxed)
             most == taxed * ((Whole + rate) * saleSubtotal)
         IN part - due <= most /\ due - part <= most

Inv == TypeOK /\ SumsAgree /\ LinesAddUp /\ NotYet /\ TaxSoFar /\ ShownIsCharged

LEMMA Rates ==
  ASSUME NEW rate \in GstRate
  PROVE  rate \in Nat /\ rate \in 0..Whole /\ Whole + rate \in Nat
PROOF
  <1>1. rate \in 0..Whole
    BY ConstantsOK
  <1>2. rate \in 0..10000 /\ Whole = 10000
    BY <1>1 DEF Whole
  <1> QED BY <1>1, <1>2

LEMMA Clamps ==
  ASSUME NEW bps \in 0..Whole
  PROVE  /\ Clamped(bps) = bps /\ Greater(0, bps) = bps
         /\ Whole + bps \in Nat /\ Whole - bps \in 0..Whole
  BY DEF Clamped, Greater, Lesser, Whole

\* Prices under a campaign: integers, not above the list price, and the same in
\* the shop as in the quote.
LEMMA Prices ==
  ASSUME NEW item \in Item, NEW c \in Campaign
  PROVE  /\ UnitPrice(item, c) \in Nat
         /\ ListPrice(item, c) \in Nat
         /\ UnitPrice(item, c) <= ListPrice(item, c)
         /\ UnitPrice(item, c) = ShopPrice(item, c)
PROOF
  <1>1. item.price \in Nat /\ c.increase \in 0..Whole /\ c.discount \in 0..Whole
    BY ConstantsOK DEF Item, Campaign
  <1>2. /\ Clamped(c.increase) = c.increase /\ Greater(0, c.increase) = c.increase
        /\ Clamped(c.discount) = c.discount /\ Greater(0, c.discount) = c.discount
    BY <1>1, Clamps
  <1>3. Whole + c.increase \in Nat /\ Whole - c.discount \in 0..Whole
    BY <1>1, Clamps
  <1>4. SaleApplies(item, c) <=> /\ c.active
                                 /\ \/ c.scope = Nowhere
                                    \/ c.scope = item.category
                                    \/ c.scope = item.parent
    BY DEF SaleApplies
  <1>5. Scaled(item.price, Whole + c.increase) \in Nat
    BY <1>1, <1>3, ScaledNat
  <1>6. ListPrice(item, c) \in Nat
    BY <1>1, <1>2, <1>5 DEF ListPrice
  <1>7. UnitPrice(item, c) \in Nat /\ UnitPrice(item, c) <= ListPrice(item, c)
    <2>1. Scaled(ListPrice(item, c), Whole - c.discount) \in Nat
          /\ Scaled(ListPrice(item, c), Whole - c.discount) <= ListPrice(item, c)
      BY <1>6, <1>3, ScaledDown
    <2>2. CASE SaleApplies(item, c)
      BY <2>1, <2>2, <1>2 DEF UnitPrice
    <2>3. CASE ~SaleApplies(item, c)
      BY <2>3, <1>1 DEF UnitPrice, ListPrice
    <2> QED BY <2>2, <2>3
  <1>8. UnitPrice(item, c) = ShopPrice(item, c)
    BY <1>2, <1>4 DEF UnitPrice, ListPrice, ShopPrice
  <1> QED BY <1>6, <1>7, <1>8

LEMMA InvInit == Init => Inv
PROOF
  <1> SUFFICES ASSUME Init PROVE Inv
    OBVIOUS
  <1> USE DEF Init
  <1>1. TypeOK
    BY DEF TypeOK
  <1>2. SumsAgree /\ LinesAddUp /\ NotYet /\ ShownIsCharged
    BY DEF SumsAgree, LinesAddUp, NotYet, ShownIsCharged, UpTo
  <1>3. TaxSoFar
    <2> SUFFICES ASSUME NEW rate \in GstRate
                 PROVE  LET part == tax * (Whole + rate) * saleSubtotal
                            due == rate * (saleSubtotal - coupon) * UpTo(taxed)
                            most == taxed * ((Whole + rate) * saleSubtotal)
                        IN part - due <= most /\ due - part <= most
      BY DEF TaxSoFar
    <2>1. rate \in Nat /\ UpTo(taxed) = 0
      BY Rates DEF UpTo
    <2> QED BY <2>1 DEF Whole
  <1> QED BY <1>1, <1>2, <1>3 DEF Inv

\* A line that is added leaves the ones before it as they were.
LEMMA PriceLineStep == Inv /\ PriceLine => Inv'
PROOF
  <1> SUFFICES ASSUME Inv, PriceLine PROVE Inv'
    OBVIOUS
  <1> USE DEF Inv
  <1>0. PICK item \in Item :
          /\ subtotal' = subtotal + ListPrice(item, sale) * item.quantity
          /\ saleDiscount' = saleDiscount + (ListPrice(item, sale) * item.quantity
                                             - UnitPrice(item, sale) * item.quantity)
          /\ saleSubtotal' = saleSubtotal + UnitPrice(item, sale) * item.quantity
          /\ lines' = Append(lines, [item |-> item, unit |-> UnitPrice(item, sale),
                                     total |-> UnitPrice(item, sale) * item.quantity,
                                     upTo |-> saleSubtotal
                                              + UnitPrice(item, sale) * item.quantity])
    BY DEF PriceLine
  <1> DEFINE unit == UnitPrice(item, sale)
             amount == unit * item.quantity
             listed == ListPrice(item, sale) * item.quantity
             line == [item |-> item, unit |-> unit, total |-> amount,
                      upTo |-> saleSubtotal + amount]
             n == Len(lines)
  <1>1. /\ phase = "lines" /\ phase' = phase /\ sale' = sale /\ currency' = currency
        /\ shipping' = shipping /\ coupon' = coupon /\ taxed' = taxed /\ tax' = tax
        /\ total' = total
    BY DEF PriceLine
  <1>2. unit \in Nat /\ ListPrice(item, sale) \in Nat /\ unit <= ListPrice(item, sale)
        /\ unit = ShopPrice(item, sale)
    BY Prices DEF TypeOK
  <1>3. item.quantity \in Nat
    BY ConstantsOK DEF Item
  <1>4. amount \in Nat /\ listed \in Nat /\ amount <= listed
    <2>1. unit * item.quantity <= ListPrice(item, sale) * item.quantity
      BY <1>2, <1>3, TimesMono
    <2> QED BY <2>1, <1>2, <1>3
  <1> HIDE DEF amount, listed, unit
  <1>5. line \in Line
    BY <1>2, <1>4 DEF Line, TypeOK
  <1>6. lines \in Seq(Line) /\ lines' = Append(lines, line)
    BY <1>0 DEF TypeOK, amount, unit
  <1>7. /\ n \in Nat /\ Len(lines') = n + 1
        /\ \A k \in 1..n : lines'[k] = lines[k]
        /\ lines'[n + 1] = line
        /\ lines' \in Seq(Line)
    <2> HIDE DEF line
    <2> QED BY <1>5, <1>6
  <1>8. coupon = 0 /\ taxed = 0 /\ tax = 0
    BY <1>1 DEF NotYet
  <1>9. subtotal' = subtotal + listed /\ saleDiscount' = saleDiscount + (listed - amount)
        /\ saleSubtotal' = saleSubtotal + amount
    BY <1>0 DEF amount, listed, unit
  <1>10. TypeOK'
    BY <1>1, <1>4, <1>7, <1>8, <1>9 DEF TypeOK
  <1>11. SumsAgree'
    BY <1>4, <1>9 DEF SumsAgree, TypeOK
  <1>12. LinesAddUp'
    <2>1. UpTo(n) = saleSubtotal
      BY DEF LinesAddUp
    <2>2. line.upTo = saleSubtotal' /\ line.total = amount
      BY <1>9
    <2>3. lines'[n + 1].upTo = saleSubtotal' /\ lines'[n + 1].total = amount
      BY <1>7, <2>2
    <2>4. UpTo(Len(lines))' = saleSubtotal'
      BY <1>7, <2>3 DEF UpTo
    <2>5. ASSUME NEW k \in 0..n PROVE UpTo(k)' = UpTo(k)
      BY <1>7 DEF UpTo
    <2>6. ASSUME NEW k \in 1..Len(lines')
          PROVE  lines'[k].upTo = UpTo(k - 1)' + lines'[k].total
                 /\ lines'[k].upTo <= saleSubtotal'
      <3>1. CASE k = n + 1
        <4>1. UpTo(k - 1)' = saleSubtotal
          BY <3>1, <2>1, <2>5, <1>7
        <4> QED BY <3>1, <4>1, <2>3, <1>4, <1>9 DEF TypeOK
      <3>2. CASE k \in 1..n
        <4>1. lines'[k] = lines[k] /\ UpTo(k - 1)' = UpTo(k - 1)
          BY <3>2, <2>5, <1>7
        <4>2. lines[k].upTo = UpTo(k - 1) + lines[k].total /\ lines[k].upTo <= saleSubtotal
          BY <3>2 DEF LinesAddUp
        <4>3. lines[k] \in Line
          BY <3>2, <1>6
        <4>4. lines[k].upTo \in Nat
          BY <4>3 DEF Line
        <4> QED BY <4>1, <4>2, <4>4, <1>4, <1>9 DEF TypeOK
      <3> QED BY <3>1, <3>2, <1>7
    <2> QED BY <2>4, <2>6 DEF LinesAddUp
  <1>13. NotYet'
    BY <1>1, <1>8 DEF NotYet
  <1>14. TaxSoFar'
    <2> SUFFICES ASSUME NEW rate \in GstRate
                 PROVE  LET part == tax' * (Whole + rate) * saleSubtotal'
                            due == rate * (saleSubtotal' - coupon') * UpTo(taxed)'
                            most == taxed' * ((Whole + rate) * saleSubtotal')
                        IN part - due <= most /\ due - part <= most
      BY <1>1, <1>8 DEF TaxSoFar
    <2>1. rate \in Nat /\ UpTo(taxed)' = 0 /\ tax' = 0 /\ taxed' = 0 /\ coupon' = 0
      BY <1>1, <1>8, Rates DEF UpTo
    <2>2. saleSubtotal' \in Nat
      BY <1>10 DEF TypeOK
    <2> QED BY <2>1, <2>2, NothingTaxed
  <1>15. ShownIsCharged'
    <2> SUFFICES ASSUME NEW k \in 1..Len(lines')
                 PROVE  lines'[k].unit = ShopPrice(lines'[k].item, sale)
      BY <1>1 DEF ShownIsCharged, ShopPrice
    <2>1. CASE k = n + 1
      BY <2>1, <1>2, <1>7
    <2>2. CASE k \in 1..n
      BY <2>2, <1>7 DEF ShownIsCharged
    <2> QED BY <2>1, <2>2, <1>7
  <1> QED BY <1>10, <1>11, <1>12, <1>13, <1>14, <1>15

\* What the lines and sums decide stays true while they stay the same.
LEMMA LinesKept ==
  ASSUME Inv, sale' = sale, lines' = lines, sums' = sums
  PROVE  /\ SumsAgree' /\ LinesAddUp' /\ ShownIsCharged'
         /\ \A k \in 0..Len(lines) : UpTo(k)' = UpTo(k)
PROOF
  <1>1. subtotal' = subtotal /\ saleDiscount' = saleDiscount /\ saleSubtotal' = saleSubtotal
    BY DEF sums
  <1>2. \A k : UpTo(k)' = UpTo(k)
    BY DEF UpTo
  <1>3. SumsAgree' /\ ShownIsCharged'
    BY <1>1 DEF Inv, SumsAgree, ShownIsCharged, ShopPrice
  <1>4. LinesAddUp'
    BY <1>1, <1>2 DEF Inv, LinesAddUp
  <1> QED BY <1>2, <1>3, <1>4

LEMMA TaxKept ==
  ASSUME Inv, lines' = lines, sums' = sums, coupon' = coupon, taxed' = taxed, tax' = tax
  PROVE  TaxSoFar'
  BY DEF Inv, TaxSoFar, UpTo, sums

\* Before the first line is taxed, whatever the coupon is.
LEMMA TaxNotBegun ==
  ASSUME Inv, phase \in {"lines", "coupon"}, sums' = sums, coupon' \in Nat,
         taxed' = taxed, tax' = tax
  PROVE  TaxSoFar'
PROOF
  <1>1. taxed' = 0 /\ tax' = 0 /\ saleSubtotal' = saleSubtotal /\ saleSubtotal \in Nat
    BY DEF Inv, NotYet, TypeOK, sums
  <1> SUFFICES ASSUME NEW rate \in GstRate
               PROVE  LET part == tax' * (Whole + rate) * saleSubtotal'
                          due == rate * (saleSubtotal' - coupon') * UpTo(taxed)'
                          most == taxed' * ((Whole + rate) * saleSubtotal')
                      IN part - due <= most /\ due - part <= most
    BY <1>1 DEF TaxSoFar
  <1>2. rate \in Nat /\ coupon' \in Int
    BY Rates
  <1>3. UpTo(taxed)' = 0
    BY <1>1 DEF UpTo
  <1> QED BY <1>1, <1>2, <1>3, NothingTaxed

LEMMA RefuseStep == Inv /\ Refuse => Inv'
PROOF
  <1> SUFFICES ASSUME Inv, Refuse PROVE Inv'
    OBVIOUS
  <1>1. TypeOK' /\ NotYet'
    BY DEF Inv, TypeOK, NotYet, Refuse, sums
  <1>2. SumsAgree' /\ LinesAddUp' /\ ShownIsCharged'
    BY LinesKept DEF Refuse
  <1>3. TaxSoFar'
    BY TaxKept DEF Refuse
  <1> QED BY <1>1, <1>2, <1>3 DEF Inv

LEMMA ShipStep == Inv /\ Ship => Inv'
PROOF
  <1> SUFFICES ASSUME Inv, Ship PROVE Inv'
    OBVIOUS
  <1>1. ASSUME NEW rule \in Rule PROVE ShippingOf(rule, saleSubtotal) \in Nat
    BY ConstantsOK DEF Rule, OptAmount, ShippingOf
  <1>2. shipping' \in Nat
    BY <1>1 DEF Ship
  <1>3. TypeOK' /\ NotYet'
    BY <1>2 DEF Inv, TypeOK, NotYet, Ship, sums
  <1>4. SumsAgree' /\ LinesAddUp' /\ ShownIsCharged'
    BY LinesKept DEF Ship
  <1>5. TaxSoFar'
    BY TaxKept DEF Ship
  <1> QED BY <1>3, <1>4, <1>5 DEF Inv

\* A coupon never takes off more than the goods.
LEMMA CouponWithinGoods ==
  ASSUME NEW p \in Promotion, NEW goods \in Nat
  PROVE  CouponOf(p, goods) \in 0..goods
PROOF
  <1>1. p.value \in Nat /\ (p.maxDiscount = Unset \/ p.maxDiscount \in Nat)
    BY ConstantsOK DEF Promotion, OptAmount
  <1>2. (goods * p.value) \div Whole \in Nat
    <2>1. goods * p.value \in Nat /\ Whole \in Nat /\ Whole > 0
      BY <1>1, TimesNat DEF Whole
    <2> QED BY <2>1, DivBound
  <1>3. Worth(p, goods) \in Nat
    BY <1>1, <1>2 DEF Worth
  <1> QED BY <1>1, <1>3 DEF CouponOf, Lesser

LEMMA CouponStep == Inv /\ (ApplyNoCoupon \/ ApplyCoupon) => Inv'
PROOF
  <1> SUFFICES ASSUME Inv, ApplyNoCoupon \/ ApplyCoupon PROVE Inv'
    OBVIOUS
  <1>1. /\ phase = "coupon" /\ phase' = "tax"
        /\ sale' = sale /\ lines' = lines /\ sums' = sums
        /\ taxed' = taxed /\ tax' = tax
    BY DEF ApplyNoCoupon, ApplyCoupon
  <1>2. saleSubtotal \in Nat /\ coupon \in 0..saleSubtotal
    BY DEF Inv, TypeOK
  <1>3. coupon' \in 0..saleSubtotal
    BY <1>2, CouponWithinGoods DEF ApplyNoCoupon, ApplyCoupon
  <1>4. TypeOK' /\ NotYet'
    BY <1>1, <1>3 DEF Inv, TypeOK, NotYet, sums, ApplyNoCoupon, ApplyCoupon
  <1>5. SumsAgree' /\ LinesAddUp' /\ ShownIsCharged'
    BY <1>1, LinesKept
  <1>6. TaxSoFar'
    BY <1>1, <1>3, TaxNotBegun
  <1> QED BY <1>4, <1>5, <1>6 DEF Inv

LEMMA FinishStep == Inv /\ Finish => Inv'
PROOF
  <1> SUFFICES ASSUME Inv, Finish PROVE Inv'
    OBVIOUS
  <1>1. subtotal + shipping - (saleDiscount + coupon) \in Int
    BY DEF Inv, TypeOK
  <1>2. Unrounded \in Nat
    BY <1>1 DEF Unrounded, Greater
  <1>3. ToPay \in Nat
    <2>1. Rounded(Unrounded, 100) \in Nat
      BY <1>2, RoundedBound
    <2> QED BY <1>2, <2>1 DEF ToPay
  <1>4. TypeOK'
    BY <1>3 DEF Inv, TypeOK, Finish, sums
  <1>5. ToPay' = ToPay
    BY DEF ToPay, Unrounded, Finish, sums
  <1>6. NotYet'
    BY <1>5 DEF Inv, NotYet, Finish
  <1>7. SumsAgree' /\ LinesAddUp' /\ ShownIsCharged'
    BY LinesKept DEF Finish
  <1>8. TaxSoFar'
    BY TaxKept DEF Finish
  <1> QED BY <1>4, <1>6, <1>7, <1>8 DEF Inv

\* Each line brings the tax by at most one unit out of step with its part of the
\* goods: OneLine, for the line that is taxed next.
LEMMA TaxLineStep == Inv /\ TaxLine => Inv'
PROOF
  <1> SUFFICES ASSUME Inv, TaxLine PROVE Inv'
    OBVIOUS
  <1> DEFINE n == taxed + 1
             line == lines[n]
             t == LineTax(line)
             S == saleSubtotal
             L == line.total
  <1>1. /\ phase = "tax" /\ phase' = "tax" /\ taxed < Len(lines)
        /\ taxed' = n /\ tax' = tax + t
        /\ sale' = sale /\ lines' = lines /\ sums' = sums /\ coupon' = coupon
        /\ currency' = currency /\ shipping' = shipping /\ total' = total
    BY DEF TaxLine
  <1>2. S \in Nat /\ coupon \in 0..S /\ tax \in Nat /\ taxed \in Nat /\ lines \in Seq(Line)
    BY DEF Inv, TypeOK
  <1>3. n \in 1..Len(lines) /\ n \in Nat
    BY <1>1, <1>2
  <1>4. line \in Line
    BY <1>2, <1>3
  <1>5. /\ L \in Nat /\ line.upTo \in Nat
        /\ line.item.gst \in Nat /\ Whole + line.item.gst \in Nat /\ Whole + line.item.gst > 0
    <2>1. line.item \in Item
      BY <1>4 DEF Line
    <2>2. line.item.gst \in 0..Whole
      BY <2>1, ConstantsOK DEF Item
    <2>3. line.item.gst \in Nat
      <3> DEFINE g == line.item.gst
      <3> HIDE DEF g
      <3>1. g \in 0..Whole
        BY <2>2 DEF g
      <3>2. g \in Nat
        BY <3>1 DEF Whole
      <3> QED BY <3>2 DEF g
    <2>4. Whole \in Nat /\ Whole > 0
      BY DEF Whole
    <2> QED BY <1>4, <2>3, <2>4 DEF Line
  <1>6. line.upTo = UpTo(taxed) + L /\ line.upTo <= S
    <2>1. n - 1 = taxed
      BY <1>2
    <2> QED BY <1>3, <2>1 DEF Inv, LinesAddUp
  <1>7. UpTo(taxed) \in Nat
    <2>1. CASE taxed = 0
      BY <2>1 DEF UpTo
    <2>2. CASE taxed # 0
      <3>1. lines[taxed] \in Line
        BY <2>2, <1>1, <1>2
      <3> QED BY <2>2, <3>1 DEF UpTo, Line
    <2> QED BY <2>1, <2>2
  <1>8. L \in 0..S
    BY <1>5, <1>6, <1>7, <1>2
  <1>9. UpTo(taxed)' = UpTo(taxed) + L
    BY <1>1, <1>2, <1>6 DEF UpTo
  <1> HIDE DEF t, L
  <1>10. S > 0 => t = IF line.item.gst > 0
                      THEN Rounded(Greater(0, L - (coupon * L) \div S) * line.item.gst,
                                   Whole + line.item.gst)
                      ELSE 0
    BY DEF t, L, LineTax, Discounted, Share
  <1>11. t \in Nat /\ (S = 0 => t = 0)
    <2> DEFINE share == Share(L)
               m == Greater(0, L - share) * line.item.gst
    <2>1. share \in Int
      <3>1. CASE S > 0
        <4>1. coupon * L \in Nat
          BY <1>2, <1>5, TimesNat
        <4>2. (coupon * L) \div S \in Nat
          BY <3>1, <4>1, <1>2, DivBound
        <4> QED BY <3>1, <4>2 DEF Share
      <3>2. CASE ~(S > 0)
        BY <3>2 DEF Share
      <3> QED BY <3>1, <3>2
    <2>2. Greater(0, L - share) \in Nat
      <3> HIDE DEF share
      <3> QED BY <2>1, <1>5 DEF Greater
    <2>3. m \in Nat
      BY <2>2, <1>5, TimesNat
    <2>4. Whole + line.item.gst \in Nat /\ Whole + line.item.gst > 0
      BY <1>5
    <2>5. Rounded(m, Whole + line.item.gst) \in Nat
      <3> DEFINE R == Whole + line.item.gst
      <3>1. R \in Nat /\ R > 0
        BY <2>4
      <3> HIDE DEF R, m
      <3>2. Rounded(m, R) \in Nat
        BY <3>1, <2>3, RoundedBound
      <3> QED BY <3>2 DEF R
    <2>6. t = IF line.item.gst > 0 THEN Rounded(m, Whole + line.item.gst) ELSE 0
      BY DEF t, L, LineTax, Discounted
    <2>7. ASSUME S = 0 PROVE t = 0
      <3>1. share = 0 /\ L = 0
        BY <2>7, <1>8, <1>2 DEF Share
      <3>2. Greater(0, L - share) = 0
        BY <3>1 DEF Greater
      <3>3. m = 0
        BY <3>2, <1>5
      <3>4. Rounded(0, Whole + line.item.gst) = 0
        BY <2>4, RoundedZero
      <3> QED BY <2>6, <3>3, <3>4
    <2> QED BY <2>5, <2>6, <2>7
  <1>12. tax' \in Nat
    BY <1>1, <1>2, <1>11
  <1>13. TypeOK'
    BY <1>1, <1>3, <1>12 DEF Inv, TypeOK, sums
  <1>14. NotYet'
    BY <1>1 DEF NotYet
  <1>15. SumsAgree' /\ LinesAddUp' /\ ShownIsCharged'
    BY <1>1, LinesKept
  <1>16. TaxSoFar'
    <2>1. S' = S
      BY <1>1 DEF sums
    <2>2. ASSUME S = 0 PROVE tax' = 0
      BY <2>2, <1>1, <1>2, <1>11 DEF Inv, TaxSoFar
    <2>3. ASSUME NEW rate \in GstRate, \A k \in 1..n : lines[k].item.gst = rate
          PROVE  LET part == tax' * (Whole + rate) * S
                     due == rate * (S - coupon) * (UpTo(taxed) + L)
                     most == n * ((Whole + rate) * S)
                 IN part - due <= most /\ due - part <= most
      <3> DEFINE R == Whole + rate
                 F == rate * (S - coupon)
                 u == UpTo(taxed)
                 a == tax * R * S
                 b == F * u
                 c == t * R * S
                 d == F * L
                 e == R * S
                 f == taxed * e
      <3>1. rate \in 0..Whole /\ rate \in Nat
        BY Rates
      <3>2. R \in Nat /\ F \in Nat /\ u \in Nat /\ L \in Nat
        <4>1. R \in Nat
          BY <3>1 DEF Whole
        <4>2. S - coupon \in Nat
          BY <1>2
        <4>3. F \in Nat
          BY <3>1, <4>2, TimesNat
        <4> QED BY <4>1, <4>3, <1>5, <1>7 DEF L
      <3>3. a - b <= f /\ b - a <= f
        <4>1. \A k \in 1..taxed : lines[k].item.gst = rate
          BY <2>3, <1>2
        <4> QED BY <4>1 DEF Inv, TaxSoFar
      <3>4. line.item.gst = rate
        BY <2>3, <1>3
      <3>5. c - d <= e /\ d - c <= e
        <4>1. CASE S > 0
          <5>1. t = IF rate > 0
                    THEN Rounded(Greater(0, L - (coupon * L) \div S) * rate, Whole + rate)
                    ELSE 0
            BY <4>1, <1>10, <3>4
          <5> HIDE DEF S
          <5> QED BY <5>1, <4>1, <1>2, <1>8, <1>11, <3>1, OneLine
        <4>2. CASE S = 0
          <5>1. t = 0 /\ L = 0
            BY <4>2, <1>8, <1>11
          <5> HIDE DEF R, F
          <5>2. c = 0 /\ d = 0 /\ e = 0
            BY <5>1, <4>2, <3>2, TimesZero
          <5> QED BY <5>2
        <4> QED BY <4>1, <4>2, <1>2
      <3> HIDE DEF R, F, u, S
      <3>6. a \in Int /\ b \in Int /\ c \in Int /\ d \in Int /\ e \in Int /\ f \in Int
        BY <1>2, <1>11, <3>2
      <3>7. tax' * R * S = a + c
        BY <1>1, <1>2, <1>11, <3>2
      <3>8. F * (u + L) = b + d
        BY <3>2
      <3>9. n * (R * S) = f + e
        BY <1>2, <3>2
      <3>10. (a + c) - (b + d) <= f + e /\ (b + d) - (a + c) <= f + e
        <4> HIDE DEF a, b, c, d, e, f
        <4> QED BY <3>3, <3>5, <3>6
      <3>11. /\ tax' * R * S - F * (u + L) <= n * (R * S)
             /\ F * (u + L) - tax' * R * S <= n * (R * S)
        <4> HIDE DEF a, b, c, d, e, f, n
        <4> QED BY <3>7, <3>8, <3>9, <3>10
      <3> QED BY <3>11 DEF R, F, u
    <2> QED BY <2>1, <2>2, <2>3, <1>1, <1>9 DEF TaxSoFar
  <1> QED BY <1>13, <1>14, <1>15, <1>16 DEF Inv

LEMMA InvNext == Inv /\ [Next]_vars => Inv'
PROOF
  <1> SUFFICES ASSUME Inv, [Next]_vars PROVE Inv'
    OBVIOUS
  <1>1. CASE PriceLine
    BY <1>1, PriceLineStep
  <1>2. CASE RefuseLine
    BY <1>2, RefuseStep DEF RefuseLine
  <1>3. CASE Ship
    BY <1>3, ShipStep
  <1>4. CASE ApplyNoCoupon \/ ApplyCoupon
    BY <1>4, CouponStep
  <1>5. CASE RefuseCoupon
    BY <1>5, RefuseStep DEF RefuseCoupon
  <1>6. CASE TaxLine
    BY <1>6, TaxLineStep
  <1>7. CASE Finish
    BY <1>7, FinishStep
  <1>8. CASE UNCHANGED vars
    <2>1. TypeOK' /\ NotYet'
      BY <1>8 DEF vars, sums, Inv, TypeOK, NotYet, ToPay, Unrounded
    <2>2. SumsAgree' /\ LinesAddUp' /\ ShownIsCharged'
      BY <1>8, LinesKept DEF vars
    <2>3. TaxSoFar'
      BY <1>8, TaxKept DEF vars
    <2> QED BY <2>1, <2>2, <2>3 DEF Inv
  <1> QED BY <1>1, <1>2, <1>3, <1>4, <1>5, <1>6, <1>7, <1>8 DEF Next

LEMMA InvAlways == Spec => []Inv
PROOF
  <1>1. Init => Inv
    BY InvInit
  <1>2. Inv /\ [Next]_vars => Inv'
    BY InvNext
  <1> QED BY <1>1, <1>2, PTL DEF Spec

-----------------------------------------------------------------------------
(* The theorems. *)

\* The call keeps its types; no coupon takes off more than the goods cost.
THEOREM TypeCorrect == Spec => []TypeOK
PROOF
  <1>1. Inv => TypeOK
    BY DEF Inv
  <1> QED BY <1>1, InvAlways, PTL

\* Every line of a quote costs what the shop shows for it.
THEOREM ChargedAsShown == Spec => []ShownIsCharged
PROOF
  <1>1. Inv => ShownIsCharged
    BY DEF Inv
  <1> QED BY <1>1, InvAlways, PTL

\* The total of a quote is positive and is the goods less sale and coupon plus
\* the shipping, to within half a rupee when it is rounded to the rupee.
THEOREM TotalIsRight == Spec => []TotalAddsUp
PROOF
  <1>1. Inv => TotalAddsUp
    <2> SUFFICES ASSUME Inv, phase = "quoted"
                 PROVE  /\ total > 0
                        /\ currency = "INR" =>
                             /\ total % 100 = 0
                             /\ total - (Goods + shipping) \in -50..50
                        /\ currency # "INR" => total = Goods + shipping
      BY DEF TotalAddsUp
    <2>1. total = ToPay /\ ToPay > 0
      BY DEF Inv, NotYet
    <2>2. Unrounded = Goods + shipping /\ Unrounded \in Nat
      BY DEF Inv, TypeOK, SumsAgree, Unrounded, Greater, Goods
    <2> DEFINE r == Rounded(Unrounded, 100)
    <2>3. r \in Nat /\ 2 * (100 * r) <= 2 * Unrounded + 100
          /\ 2 * Unrounded <= 2 * (100 * r) + 100
      BY <2>2, RoundedBound
    <2>4. ToPay = IF currency = "INR" THEN r * 100 ELSE Unrounded
      BY DEF ToPay
    <2> HIDE DEF r
    <2>5. (r * 100) % 100 = 0
      BY <2>3
    <2> QED BY <2>1, <2>2, <2>3, <2>4, <2>5
  <1> QED BY <1>1, InvAlways, PTL

\* The GST taken out of the lines of one rate is the GST contained in what the
\* customer pays for the goods, to within one minor unit per line.
THEOREM TaxIsRight == Spec => []TaxMatchesGoods
PROOF
  <1>1. Inv => TaxMatchesGoods
    <2> SUFFICES ASSUME Inv, phase = "quoted", NEW rate \in GstRate,
                        \A k \in 1..Len(lines) : lines[k].item.gst = rate
                 PROVE  LET off == tax * (Whole + rate) - Goods * rate
                            most == Len(lines) * (Whole + rate)
                        IN -most <= off /\ off <= most
      BY DEF TaxMatchesGoods
    <2> DEFINE S == saleSubtotal
               R == Whole + rate
               G == S - coupon
               n == Len(lines)
               x == tax * R - G * rate
               m == n * R
    <2>1. S \in Nat /\ coupon \in 0..S /\ tax \in Nat /\ n \in Nat
      BY DEF Inv, TypeOK
    <2>2. rate \in Nat /\ R \in Nat /\ G \in Nat /\ G <= S
      <3>1. rate \in Nat /\ R \in Nat
        BY Rates
      <3>2. G \in Nat /\ G <= S
        BY <2>1
      <3> QED BY <3>1, <3>2
    <2>3. taxed = n /\ UpTo(n) = S
      BY DEF Inv, NotYet, LinesAddUp
    <2>4. tax * R * S - rate * G * S <= n * (R * S)
          /\ rate * G * S - tax * R * S <= n * (R * S)
      BY <2>3 DEF Inv, TaxSoFar
    <2> HIDE DEF S, R, G, n
    <2>5. x \in Int /\ m \in Nat
      BY <2>1, <2>2
    <2>6. tax * R * S - rate * G * S = x * S /\ n * (R * S) = m * S
      BY <2>1, <2>2
    <2>7. x * S <= m * S /\ (-x) * S <= m * S
      <3>1. rate * G * S - tax * R * S = (-x) * S
        BY <2>1, <2>2
      <3> HIDE DEF x, m
      <3> QED BY <2>4, <2>6, <3>1
    <2>8. CASE S > 0
      <3> HIDE DEF x, m
      <3>1. x <= m
        <4>1. SUFFICES ASSUME m + 1 <= x PROVE FALSE
          BY <2>5
        <4>2. (m + 1) * S <= x * S
          BY <4>1, <2>1, <2>5, TimesMono
        <4>3. (m + 1) * S = m * S + S
          BY <2>1, <2>5
        <4> DEFINE p == m * S
                   q == x * S
        <4>4. p \in Int /\ q \in Int /\ p + S <= q /\ q <= p
          BY <4>2, <4>3, <2>7, <2>1, <2>5
        <4> HIDE DEF p, q
        <4> QED BY <4>4, <2>8, <2>1
      <3>2. -x <= m
        <4>1. SUFFICES ASSUME m + 1 <= -x PROVE FALSE
          BY <2>5
        <4>2. (m + 1) * S <= (-x) * S
          BY <4>1, <2>1, <2>5, TimesMono
        <4>3. (m + 1) * S = m * S + S
          BY <2>1, <2>5
        <4> DEFINE p == m * S
                   q == (-x) * S
        <4>4. p \in Int /\ q \in Int /\ p + S <= q /\ q <= p
          BY <4>2, <4>3, <2>7, <2>1, <2>5
        <4> HIDE DEF p, q
        <4> QED BY <4>4, <2>8, <2>1
      <3>3. -m <= x
        BY <3>2, <2>5
      <3> QED BY <3>1, <3>3 DEF x, m, G, R, S, n, Goods
    <2>9. CASE S = 0
      <3>1. tax = 0
        BY <2>9 DEF Inv, TaxSoFar, S
      <3>2. G = 0
        BY <2>9, <2>2
      <3>3. tax * R = 0 /\ G * rate = 0
        BY <3>1, <3>2, <2>2
      <3>4. x = 0
        BY <3>3
      <3> QED BY <3>4, <2>5 DEF G, R, S, n, Goods
    <2> QED BY <2>1, <2>8, <2>9
  <1> QED BY <1>1, InvAlways, PTL

=============================================================================
