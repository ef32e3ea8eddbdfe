--------------------------- MODULE InterestProofs ---------------------------
(***************************************************************************)
(* The shape of the contract's rate curve, for every scale, base rate,      *)
(* slopes, optimum and ceiling; that no second is charged above the ceiling *)
(* of its time; and that what the loans owe by the index stays within the   *)
(* rounding of the debt.  Compounding and the sum over the loans are        *)
(* recursive functions: what is said of them is proved by a least           *)
(* counterexample among their indices (EverySecond).                        *)
(***************************************************************************)
EXTENDS Interest, TLAPS, WellFoundedInduction

(***************************************************************************)
(* What the rounding guarantees, for every numerator and every positive     *)
(* denominator.                                                             *)
(***************************************************************************)

\* A floored quotient is the integer just below the exact one
\* (mul_div_with_rounding with Rounding::Floor).
LEMMA FloorDivBounds ==
  ASSUME NEW x \in Nat, NEW y \in Nat \ {0}
  PROVE  /\ FloorDiv(x, y) \in Nat
         /\ FloorDiv(x, y) * y <= x
         /\ x < (FloorDiv(x, y) + 1) * y
<1> DEFINE q == x \div y
<1>1. q \in Int /\ x = y * q + (x % y) /\ x % y \in 0..(y-1)
  OBVIOUS
<1> HIDE DEF q
<1>2. x % y \in Int BY <1>1
<1>3. q >= 0 
  <2>1. SUFFICES ASSUME q <= -1 PROVE FALSE BY <1>1
  <2>2. y * q <= -y BY <1>1, <2>1
  <2> QED BY <1>1, <2>2
<1>4. q * y = y * q /\ (q+1)*y = y*q + y BY <1>1
<1> QED BY <1>1, <1>2, <1>3, <1>4 DEF FloorDiv, q

\* A ceiled quotient is the integer just above the exact one
\* (mul_div_with_rounding with Rounding::Ceil).
LEMMA CeilDivBounds ==
  ASSUME NEW x \in Nat, NEW y \in Nat \ {0}
  PROVE  /\ CeilDiv(x, y) \in Nat
         /\ x <= CeilDiv(x, y) * y
         /\ CeilDiv(x, y) * y < x + y
<1> DEFINE q == FloorDiv(x + y - 1, y)
<1>1. x + y - 1 \in Nat OBVIOUS
<1>2. q \in Nat /\ q * y <= x + y - 1 /\ x + y - 1 < (q + 1) * y BY <1>1, FloorDivBounds
<1>3. CeilDiv(x,y) = q BY DEF CeilDiv, FloorDiv
<1> HIDE DEF q
<1>4. (q+1)*y = q*y + y /\ q * y \in Nat BY <1>2
<1> QED BY <1>2, <1>3, <1>4

\* A common positive factor cancels from a strict inequality (the rounded
\* prices below).
LEMMA MulCancel ==
  ASSUME NEW a \in Nat, NEW b \in Nat, NEW c \in Nat \ {0}, a * c < b * c
  PROVE a < b
OBVIOUS

\* The floored quotient is the greatest integer whose product stays below
\* (what a payment rounded down is at most).
LEMMA FloorAtLeast ==
  ASSUME NEW x \in Nat, NEW y \in Nat \ {0}, NEW k \in Nat, k * y <= x
  PROVE  k <= FloorDiv(x, y)
<1> DEFINE q == FloorDiv(x, y)
<1>1. q \in Nat /\ x < (q+1)*y BY FloorDivBounds
<1> HIDE DEF q
<1>2. k * y < (q+1) * y BY <1>1
<1>3. k < q + 1 BY <1>2, <1>1, MulCancel
<1> QED BY <1>3, <1>1 DEF q

-----------------------------------------------------------------------------
(* The curve *)

\* One more unit of utilization raises a slope's share by at most the slope's
\* own step, rounded up, and never lowers it (compute_borrow_rate).
LEMMA SlopeStep ==
  ASSUME NEW a \in Nat, NEW s \in Nat, NEW m \in Nat, s <= m
  PROVE  /\ WadMul(a, s) \in Nat
         /\ WadMul(a + 1, s) - WadMul(a, s) \in 0..CeilDiv(m, Wad)
<1> DEFINE x == a * s
           y == (a + 1) * s
           p == FloorDiv(x, Wad)
           q == FloorDiv(y, Wad)
           c == CeilDiv(m, Wad)
<1>1. Wad \in Nat \ {0} BY InterestAssumption
<1>2. x \in Nat /\ y \in Nat /\ y = x + s OBVIOUS
<1> HIDE DEF x, y
<1>3. /\ p \in Nat /\ p * Wad <= x /\ x < (p + 1) * Wad
      /\ q \in Nat /\ q * Wad <= y
  BY <1>1, <1>2, FloorDivBounds
<1>4. c \in Nat /\ m <= c * Wad BY <1>1, CeilDivBounds
<1>5. p <= q
  <2>1. p * Wad <= y BY <1>1, <1>2, <1>3
  <2> HIDE DEF p, q
  <2>2. p <= FloorDiv(y, Wad) BY <1>1, <1>2, <1>3, <2>1, FloorAtLeast
  <2> QED BY <2>2 DEF q
<1> HIDE DEF p, q, c
<1>6. q * Wad < (p + 1 + c) * Wad
  <2>1. q * Wad \in Nat /\ c * Wad \in Nat /\ (p + 1) * Wad \in Nat BY <1>1, <1>3, <1>4
  <2>2. (p + 1 + c) * Wad = (p + 1) * Wad + c * Wad BY <1>1, <1>3, <1>4
  <2> QED BY <1>1, <1>2, <1>3, <1>4, <2>1, <2>2
<1>7. q < p + 1 + c BY <1>1, <1>3, <1>4, <1>6, MulCancel
<1> QED BY <1>3, <1>4, <1>5, <1>7 DEF WadMul, p, q, c, x, y

\* The curve without a ceiling: monotone, and without a jump at the kink
\* (compute_borrow_rate).
LEMMA CurveStep ==
  ASSUME NEW u \in 0..(Wad - 1)
  PROVE  /\ CurveRate(u) \in Nat /\ CurveRate(u + 1) \in Nat
         /\ CurveRate(u + 1) - CurveRate(u) \in 0..CeilDiv(Later(Slope1, Slope2), Wad)
<1> DEFINE m == Later(Slope1, Slope2)
           c == CeilDiv(m, Wad)
<1>1. /\ Wad \in Nat \ {0} /\ BaseRate \in Nat /\ Slope1 \in Nat /\ Slope2 \in Nat
      /\ Optimal \in Nat /\ u \in Nat
  BY InterestAssumption
<1>2. m \in Nat /\ Slope1 <= m /\ Slope2 <= m BY <1>1 DEF Later
<1> HIDE DEF m
<1>3. c \in Nat BY <1>1, <1>2, CeilDivBounds
<1> HIDE DEF c
<1>4. \A a \in Nat : /\ WadMul(a, Slope1) \in Nat /\ WadMul(a, Slope2) \in Nat
                     /\ WadMul(a + 1, Slope1) - WadMul(a, Slope1) \in 0..c
                     /\ WadMul(a + 1, Slope2) - WadMul(a, Slope2) \in 0..c
  BY <1>1, <1>2, SlopeStep DEF c
<1>5. CASE u + 1 <= Optimal
  <2>1. /\ CurveRate(u) = BaseRate + WadMul(u, Slope1)
        /\ CurveRate(u + 1) = BaseRate + WadMul(u + 1, Slope1)
    <3>1. u <= Optimal BY <1>1, <1>5
    <3> QED BY <1>5, <3>1 DEF CurveRate
  <2>2. /\ WadMul(u, Slope1) \in Nat
        /\ WadMul(u + 1, Slope1) - WadMul(u, Slope1) \in 0..c
    BY <1>1, <1>4
  <2>3. WadMul(u + 1, Slope1) \in Nat
    <3>1. u + 1 \in Nat BY <1>1
    <3> QED BY <1>4, <3>1
  <2>4. /\ CurveRate(u) \in Nat /\ CurveRate(u + 1) \in Nat
        /\ CurveRate(u + 1) - CurveRate(u) \in 0..c
    BY <1>1, <1>3, <2>1, <2>2, <2>3
  <2> QED BY <2>4 DEF c, m
<1>6. CASE u = Optimal
  <2>1. WadMul(0, Slope2) = 0 BY <1>1 DEF WadMul, FloorDiv
  <2>2. WadMul(1, Slope2) - WadMul(0, Slope2) \in 0..c
    <3>1. 0 \in Nat /\ 0 + 1 = 1 OBVIOUS
    <3> QED BY <1>4, <3>1
  <2>3. CurveRate(u) = BaseRate + WadMul(Optimal, Slope1)
    <3>1. Optimal <= Optimal BY <1>1
    <3> QED BY <1>6, <3>1 DEF CurveRate
  <2>4. CurveRate(u + 1) = BaseRate + WadMul(Optimal, Slope1) + WadMul(1, Slope2)
    <3> DEFINE v == u + 1
    <3>1. ~(v <= Optimal) /\ v - Optimal = 1 BY <1>1, <1>6
    <3> HIDE DEF v
    <3>2. CurveRate(v) = BaseRate + WadMul(Optimal, Slope1) + WadMul(v - Optimal, Slope2)
      BY <3>1 DEF CurveRate
    <3> QED BY <3>1, <3>2 DEF v
  <2>5. WadMul(Optimal, Slope1) \in Nat /\ WadMul(1, Slope2) \in 0..c
    <3>1. 1 \in Nat OBVIOUS
    <3>2. WadMul(1, Slope2) \in Nat BY <1>4, <3>1
    <3>3. WadMul(1, Slope2) \in 0..c BY <1>3, <2>1, <2>2, <3>2
    <3> QED BY <1>1, <1>4, <3>3
  <2>6. /\ CurveRate(u) \in Nat /\ CurveRate(u + 1) \in Nat
        /\ CurveRate(u + 1) - CurveRate(u) \in 0..c
    BY <1>1, <1>3, <2>3, <2>4, <2>5
  <2> QED BY <2>6 DEF c, m
<1>7. CASE u > Optimal
  <2> DEFINE a == u - Optimal
  <2>1. a \in Nat /\ u + 1 - Optimal = a + 1 /\ ~(u <= Optimal) /\ ~(u + 1 <= Optimal)
    BY <1>1, <1>7
  <2>2. /\ CurveRate(u) = BaseRate + WadMul(Optimal, Slope1) + WadMul(a, Slope2)
        /\ CurveRate(u + 1) = BaseRate + WadMul(Optimal, Slope1) + WadMul(a + 1, Slope2)
    <3> DEFINE v == u + 1
    <3>1. ~(v <= Optimal) /\ v - Optimal = a + 1 BY <1>1, <2>1
    <3> HIDE DEF v
    <3>2. CurveRate(v) = BaseRate + WadMul(Optimal, Slope1) + WadMul(v - Optimal, Slope2)
      BY <3>1 DEF CurveRate
    <3>3. CurveRate(u) = BaseRate + WadMul(Optimal, Slope1) + WadMul(u - Optimal, Slope2)
      BY <2>1 DEF CurveRate
    <3> QED BY <3>1, <3>2, <3>3 DEF v
  <2> HIDE DEF a
  <2>3. /\ WadMul(Optimal, Slope1) \in Nat /\ WadMul(a, Slope2) \in Nat
        /\ WadMul(a + 1, Slope2) - WadMul(a, Slope2) \in 0..c
    BY <1>1, <1>4, <2>1
  <2>4. WadMul(a + 1, Slope2) \in Nat
    <3>1. a + 1 \in Nat BY <2>1
    <3> QED BY <1>4, <3>1
  <2>5. /\ CurveRate(u) \in Nat /\ CurveRate(u + 1) \in Nat
        /\ CurveRate(u + 1) - CurveRate(u) \in 0..c
    BY <1>1, <1>3, <2>2, <2>3, <2>4
  <2> QED BY <2>5 DEF c, m
<1> QED BY <1>1, <1>5, <1>6, <1>7

\* Cutting the rate off at a ceiling keeps both (MaxBorrowRate).
LEMMA ClampedStep ==
  ASSUME NEW x \in Nat, NEW d \in Nat, NEW y \in Int, y - x \in 0..d, NEW k \in Nat
  PROVE  Clamped(y, k) - Clamped(x, k) \in 0..d
BY DEF Clamped, Lesser

\* set_max_borrow_rate is the only writer of the ceiling.
THEOREM CeilingIsNat == Spec => [](ceiling \in Nat)
<1>1. Init => ceiling \in Nat BY DEF Init, NoCeiling
<1>2. ceiling \in Nat /\ [Next]_vars => (ceiling \in Nat)'
  <2> SUFFICES ASSUME ceiling \in Nat, [Next]_vars PROVE ceiling' \in Nat OBVIOUS
  <2>1. CASE Accrue BY <2>1 DEF Accrue
  <2>2. CASE Tick BY <2>2 DEF Tick
  <2>3. ASSUME NEW amount \in Amounts, Borrow(amount) PROVE ceiling' \in Nat
    BY <2>3 DEF Borrow
  <2>4. ASSUME NEW amount \in Amounts, Donate(amount) PROVE ceiling' \in Nat
    BY <2>4 DEF Donate
  <2>5. ASSUME NEW k \in DOMAIN loans, RepayLoan(k) PROVE ceiling' \in Nat
    BY <2>5 DEF RepayLoan
  <2>6. ASSUME NEW rate \in Ceilings, SetMaxBorrowRate(rate) PROVE ceiling' \in Nat
    BY <2>6, InterestAssumption DEF SetMaxBorrowRate
  <2>7. CASE UNCHANGED vars BY <2>7 DEF vars
  <2> QED BY <2>1, <2>2, <2>3, <2>4, <2>5, <2>6, <2>7 DEF Next
<1> QED BY <1>1, <1>2, PTL DEF Spec

\* Under every ceiling the contract can hold, the borrow rate never falls as
\* utilization rises and has no jump, at the kink or at the ceiling.
THEOREM RateIsContinuous == Spec => [](RateHasNoJump /\ RateShape)
<1>1. ceiling \in Nat => RateHasNoJump /\ RateShape
  <2> SUFFICES ASSUME ceiling \in Nat, NEW u \in 0..(Wad - 1)
               PROVE  BorrowRate(u + 1) - BorrowRate(u)
                        \in 0..CeilDiv(Later(Slope1, Slope2), Wad)
    BY DEF RateHasNoJump, RateShape
  <2> DEFINE c == CeilDiv(Later(Slope1, Slope2), Wad)
  <2>1. /\ CurveRate(u) \in Nat /\ CurveRate(u + 1) \in Nat
        /\ CurveRate(u + 1) - CurveRate(u) \in 0..c
    BY CurveStep
  <2>2. c \in Nat
    <3>1. Later(Slope1, Slope2) \in Nat /\ Wad \in Nat \ {0} BY InterestAssumption DEF Later
    <3> QED BY <3>1, CeilDivBounds
  <2> HIDE DEF c
  <2>3. Clamped(CurveRate(u + 1), ceiling) - Clamped(CurveRate(u), ceiling) \in 0..c
    <3> DEFINE x == CurveRate(u)
               y == CurveRate(u + 1)
    <3>1. x \in Nat /\ y \in Int /\ y - x \in 0..c BY <2>1
    <3> HIDE DEF x, y
    <3>2. Clamped(y, ceiling) - Clamped(x, ceiling) \in 0..c BY <2>2, <3>1, ClampedStep
    <3> QED BY <3>2 DEF x, y
  <2> QED BY <2>3 DEF BorrowRate, c
<1> QED BY <1>1, CeilingIsNat, PTL

-----------------------------------------------------------------------------
(***************************************************************************)
(* Compounding.  The product of the one-second factors is a recursive       *)
(* function; that it exists, and grows with its factors, is shown by a      *)
(* least counterexample among the seconds.                                  *)
(***************************************************************************)

\* A set of seconds that holds 0 and with every second the next holds them all.
LEMMA EverySecond ==
  ASSUME NEW m \in Nat, NEW T, 0 \in T, \A n \in 0..m : n < m /\ n \in T => n + 1 \in T
  PROVE  \A n \in 0..m : n \in T
<1> DEFINE Bad == {n \in 0..m : n \notin T}
           R == OpToRel(<, Nat)
<1>1. IsWellFoundedOn(R, Nat) BY NatLessThanWellFounded
<1>2. \A x, y \in Nat : <<y, x>> \in R <=> y < x BY DEF OpToRel
<1> HIDE DEF R
<1>3. SUFFICES ASSUME Bad # {} PROVE FALSE OBVIOUS
<1>4. Bad \in SUBSET Nat OBVIOUS
<1> HIDE DEF Bad
<1>5. PICK x \in Bad : \A y \in Bad : ~(<<y, x>> \in R) BY <1>1, <1>3, <1>4, WFMin
<1>6. x \in 0..m /\ x \notin T /\ x # 0 BY <1>5 DEF Bad
<1>7. x - 1 \in 0..m /\ x - 1 < m /\ x - 1 + 1 = x BY <1>6
<1>8. x - 1 \notin T BY <1>6, <1>7
<1>9. x - 1 \in Bad /\ x \in Nat /\ x - 1 \in Nat /\ x - 1 < x BY <1>6, <1>7, <1>8 DEF Bad
<1> QED BY <1>2, <1>5, <1>9

\* p holds the partial products of the factors w up to the m-th.
Products(p, w, m) ==
  p = [n \in 0..m |-> IF n = 0 THEN Wad ELSE WadMul(p[n - 1], w[n])]

\* Partial products exist, however many the factors.
LEMMA ProductsExist ==
  ASSUME NEW m \in Nat, NEW w
  PROVE  \E p : Products(p, w, m)
<1> DEFINE T == {n \in 0..m : \E p : Products(p, w, n)}
<1>1. 0 \in T
  <2> DEFINE p == [n \in 0..0 |-> Wad]
  <2>1. Products(p, w, 0) BY DEF Products
  <2> QED BY <2>1
<1>2. ASSUME NEW n \in 0..m, n < m, n \in T PROVE n + 1 \in T
  <2>1. PICK p : Products(p, w, n) BY <1>2
  <2> DEFINE q == [k \in 0..(n + 1) |-> IF k = n + 1 THEN WadMul(p[n], w[n + 1]) ELSE p[k]]
  <2>2. ASSUME NEW k \in 0..(n + 1)
        PROVE  q[k] = IF k = 0 THEN Wad ELSE WadMul(q[k - 1], w[k])
    <3>1. CASE k = n + 1
      <4>1. q[k] = WadMul(p[n], w[n + 1]) /\ q[k - 1] = p[n] BY <1>2, <3>1
      <4> QED BY <1>2, <3>1, <4>1
    <3>2. CASE k # n + 1
      <4>1. k \in 0..n BY <1>2, <3>2
      <4>2. q[k] = p[k] /\ (k # 0 => q[k - 1] = p[k - 1]) BY <1>2, <3>2, <4>1
      <4>3. p[k] = IF k = 0 THEN Wad ELSE WadMul(p[k - 1], w[k])
        BY <2>1, <4>1 DEF Products
      <4> HIDE DEF q
      <4> QED BY <4>2, <4>3
    <3> QED BY <3>1, <3>2
  <2>3. Products(q, w, n + 1)
    <3>1. q = [k \in 0..(n + 1) |-> q[k]] OBVIOUS
    <3> HIDE DEF q
    <3> QED BY <2>2, <3>1 DEF Products
  <2>4. n + 1 \in 0..m BY <1>2
  <2> HIDE DEF q
  <2> QED BY <2>3, <2>4
<1>3. \A n \in 0..m : n \in T
  <2> HIDE DEF T
  <2> QED BY <1>1, <1>2, EverySecond
<1> QED BY <1>3

\* The compound factor is the last of its partial products.
LEMMA CompoundIsLast ==
  ASSUME NEW w, Len(w) \in Nat
  PROVE  \E p : Products(p, w, Len(w)) /\ Compound(w) = p[Len(w)]
<1> DEFINE p == CHOOSE p : p = [n \in 0..Len(w) |->
                                  IF n = 0 THEN Wad ELSE WadMul(p[n - 1], w[n])]
<1>1. \E q : q = [n \in 0..Len(w) |-> IF n = 0 THEN Wad ELSE WadMul(q[n - 1], w[n])]
  BY ProductsExist DEF Products
<1>2. Products(p, w, Len(w)) BY <1>1 DEF Products
<1>3. Compound(w) = p[Len(w)] BY DEF Compound
<1> QED BY <1>2, <1>3

\* Multiplying by a factor of one or more keeps order and lowers nothing.
LEMMA WadMulMono ==
  ASSUME NEW a \in Nat, NEW b \in Nat, NEW x \in Nat, NEW y \in Nat, a <= b, x <= y
  PROVE  /\ WadMul(a, x) \in Nat /\ WadMul(b, y) \in Nat
         /\ WadMul(a, x) <= WadMul(b, y)
         /\ x >= Wad => a <= WadMul(a, x)
<1>1. Wad \in Nat \ {0} BY InterestAssumption
<1>2. a * x \in Nat /\ b * y \in Nat /\ a * x <= b * y
  <2>1. a * x <= b * x /\ b * x <= b * y OBVIOUS
  <2>2. a * x \in Nat /\ b * x \in Nat /\ b * y \in Nat OBVIOUS
  <2> QED BY <2>1, <2>2
<1>3. /\ WadMul(a, x) \in Nat /\ WadMul(b, y) \in Nat
      /\ WadMul(a, x) * Wad <= a * x
  BY <1>1, <1>2, FloorDivBounds DEF WadMul
<1>4. WadMul(a, x) * Wad <= b * y
  <2>1. WadMul(a, x) * Wad \in Int BY <1>1, <1>3
  <2> QED BY <1>2, <1>3, <2>1
<1>5. WadMul(a, x) <= WadMul(b, y)
  <2> DEFINE k == WadMul(a, x)
  <2> HIDE DEF k
  <2>1. k \in Nat /\ k * Wad <= b * y BY <1>3, <1>4 DEF k
  <2>2. k <= FloorDiv(b * y, Wad) BY <1>1, <1>2, <2>1, FloorAtLeast
  <2> QED BY <2>2 DEF WadMul, k
<1>6. ASSUME x >= Wad PROVE a <= WadMul(a, x)
  <2>1. a * Wad <= a * x BY <1>1, <1>6
  <2> QED BY <1>1, <1>2, <2>1, FloorAtLeast DEF WadMul
<1> QED BY <1>3, <1>5, <1>6

\* Second for second no smaller factor, no smaller product; and never below
\* 1.0 when every factor is at least that.
LEMMA CompoundMono ==
  ASSUME NEW v, NEW w, NEW m \in Nat, Len(v) = m, Len(w) = m,
         \A s \in 1..m : v[s] \in Nat /\ w[s] \in Nat /\ Wad <= v[s] /\ v[s] <= w[s]
  PROVE  /\ Compound(v) \in Nat /\ Compound(w) \in Nat
         /\ Wad <= Compound(v) /\ Compound(v) <= Compound(w)
<1>1. PICK p : Products(p, v, m) /\ Compound(v) = p[m] BY CompoundIsLast
<1>2. PICK q : Products(q, w, m) /\ Compound(w) = q[m] BY CompoundIsLast
<1> DEFINE T == {n \in 0..m : p[n] \in Nat /\ q[n] \in Nat /\ Wad <= p[n] /\ p[n] <= q[n]}
<1>3. 0 \in T
  <2>1. p[0] = Wad /\ q[0] = Wad BY <1>1, <1>2 DEF Products
  <2> QED BY <2>1, InterestAssumption
<1>4. ASSUME NEW n \in 0..m, n < m, n \in T PROVE n + 1 \in T
  <2>1. n + 1 \in 1..m /\ n + 1 \in 0..m /\ n + 1 - 1 = n /\ n + 1 # 0 BY <1>4
  <2>2. p[n + 1] = WadMul(p[n], v[n + 1]) /\ q[n + 1] = WadMul(q[n], w[n + 1])
    BY <1>1, <1>2, <2>1 DEF Products
  <2>3. p[n] \in Nat /\ q[n] \in Nat /\ Wad <= p[n] /\ p[n] <= q[n] BY <1>4
  <2>4. v[n + 1] \in Nat /\ w[n + 1] \in Nat /\ Wad <= v[n + 1] /\ v[n + 1] <= w[n + 1]
    BY <2>1
  <2>5. /\ p[n + 1] \in Nat /\ q[n + 1] \in Nat /\ p[n + 1] <= q[n + 1]
        /\ p[n] <= p[n + 1]
    <3> DEFINE a == p[n]
               b == q[n]
               x == v[n + 1]
               y == w[n + 1]
    <3>1. a \in Nat /\ b \in Nat /\ x \in Nat /\ y \in Nat /\ a <= b /\ x <= y
      BY <2>3, <2>4
    <3>2. x >= Wad BY <2>4, InterestAssumption
    <3> HIDE DEF a, b, x, y
    <3>3. /\ WadMul(a, x) \in Nat /\ WadMul(b, y) \in Nat
          /\ WadMul(a, x) <= WadMul(b, y) /\ a <= WadMul(a, x)
      BY <3>1, <3>2, WadMulMono
    <3> QED BY <2>2, <3>3 DEF a, b, x, y
  <2>6. Wad <= p[n + 1] BY <2>3, <2>5, InterestAssumption
  <2> QED BY <2>1, <2>5, <2>6
<1>5. m \in T
  <2>1. m \in 0..m OBVIOUS
  <2> HIDE DEF T
  <2> QED BY <1>3, <1>4, <2>1, EverySecond
<1> QED BY <1>1, <1>2, <1>5

-----------------------------------------------------------------------------
(* The books *)

\* The seconds not charged yet all stand under the ceiling now in force:
\* set_max_borrow_rate charges what is due before it stores a new one.
OneCeiling == \A s \in DOMAIN inForce : inForce[s] = ceiling

Loan == [amount : Nat, at : Nat \ {0}]

BooksInv ==
  /\ TypeOK /\ now \in Nat
  /\ inForce \in Seq(Nat) /\ loans \in Seq(Loan) /\ OneCeiling

\* The curve yields a rate at every utilization (compute_borrow_rate).
LEMMA RateNat ==
  ASSUME ceiling \in Nat, NEW u \in Nat
  PROVE  /\ BorrowRate(u) \in Nat
         /\ ceiling # NoCeiling => BorrowRate(u) <= ceiling
<1> USE InterestAssumption
<1>1. ASSUME NEW x \in Nat, NEW y \in Nat PROVE WadMul(x, y) \in Nat
  <2>1. x * y \in Nat OBVIOUS
  <2> QED BY <2>1, FloorDivBounds DEF WadMul
<1>2. CurveRate(u) \in Nat
  <2>1. CASE u <= Optimal
    <3>1. WadMul(u, Slope1) \in Nat BY <1>1
    <3> QED BY <2>1, <3>1 DEF CurveRate
  <2>2. CASE ~(u <= Optimal)
    <3>1. u - Optimal \in Nat /\ Optimal \in Nat BY <2>2
    <3>2. WadMul(Optimal, Slope1) \in Nat /\ WadMul(u - Optimal, Slope2) \in Nat
      BY <1>1, <3>1
    <3> QED BY <2>2, <3>2 DEF CurveRate
  <2> QED BY <2>1, <2>2
<1> QED BY <1>2 DEF BorrowRate, Clamped, Lesser

\* A second's factor is 1.0 or more, and no more than the ceiling's.
LEMMA FactorsShape ==
  ASSUME NEW r \in Nat, NEW c \in Nat
  PROVE  /\ Wad + PerSecond(r) \in Nat /\ Wad <= Wad + PerSecond(r)
         /\ r <= c => Wad + PerSecond(r) <= Wad + PerSecond(c)
<1> USE InterestAssumption
<1>1. /\ PerSecond(r) \in Nat /\ PerSecond(r) * Year <= r
      /\ PerSecond(c) \in Nat
  BY FloorDivBounds DEF PerSecond
<1>2. ASSUME r <= c PROVE PerSecond(r) <= PerSecond(c)
  <2> DEFINE k == PerSecond(r)
  <2>1. k \in Nat /\ k * Year <= r BY <1>1
  <2> HIDE DEF k
  <2>2. k * Year <= c BY <1>2, <2>1
  <2>3. k <= FloorDiv(c, Year) BY <2>1, <2>2, FloorAtLeast
  <2> QED BY <2>3 DEF PerSecond, k
<1> QED BY <1>1, <1>2

\* Utilization is a ratio of what the books hold.
LEMMA UtilizationNat ==
  ASSUME TypeOK
  PROVE  Utilization(debt, debt + idle) \in Nat
<1>1. debt * Wad \in Nat /\ debt + idle \in Nat BY InterestAssumption DEF TypeOK
<1>2. CASE debt + idle > 0
  BY <1>1, <1>2, FloorDivBounds DEF Utilization
<1> QED BY <1>1, <1>2 DEF Utilization

\* Whatever the elapsed time, the compound factor is 1.0 or more
\* (accrue_interest).
LEMMA FactorNat ==
  ASSUME BooksInv
  PROVE  Factor \in Nat /\ Factor >= Wad /\ Elapsed \in Nat
<1> DEFINE r == BorrowRate(Utilization(debt, debt + idle))
           v == [s \in 1..Elapsed |-> Wad + PerSecond(r)]
<1>1. ceiling \in Nat /\ Elapsed \in Nat
  BY InterestAssumption DEF BooksInv, TypeOK, NoCeiling, Elapsed
<1>2. r \in Nat BY <1>1, UtilizationNat, RateNat DEF BooksInv
<1> HIDE DEF r
<1>3. Wad + PerSecond(r) \in Nat /\ Wad <= Wad + PerSecond(r) BY <1>2, FactorsShape
<1> DEFINE k == Wad + PerSecond(r)
<1> HIDE DEF k
<1>4. k \in Nat /\ Wad <= k /\ k <= k BY <1>3 DEF k
<1>5. v = [s \in 1..Elapsed |-> k] BY DEF k
<1> HIDE DEF v
<1>6. v \in Seq(Nat) /\ Len(v) = Elapsed /\ \A s \in 1..Elapsed : v[s] = k
  BY <1>1, <1>4, <1>5
<1>7. Compound(v) \in Nat /\ Wad <= Compound(v)
  BY <1>1, <1>4, <1>6, CompoundMono
<1>8. Factor = Compound(v) BY DEF Factor, v, r
<1> QED BY <1>1, <1>7, <1>8, InterestAssumption

\* Charging interest never lowers the debt or the index.
LEMMA ChargedNat ==
  ASSUME BooksInv
  PROVE  /\ Charged \in Nat /\ Charged >= debt
         /\ Indexed \in Nat /\ Indexed >= index /\ Indexed >= Wad
<1>1. Factor \in Nat /\ Factor >= Wad BY FactorNat
<1>2. debt \in Nat /\ index \in Nat /\ index >= Wad /\ Wad \in Nat
  BY InterestAssumption DEF BooksInv, TypeOK
<1>3. Factor <= Factor /\ debt <= debt /\ index <= index BY <1>1, <1>2
<1>4. /\ WadMul(debt, Factor) \in Nat /\ debt <= WadMul(debt, Factor)
      /\ WadMul(index, Factor) \in Nat /\ index <= WadMul(index, Factor)
  BY <1>1, <1>2, <1>3, WadMulMono
<1> QED BY <1>2, <1>4 DEF Charged, Indexed

\* What a charge leaves, beside the debt.
LEMMA ChargeStep ==
  ASSUME BooksInv, ChargeInterest, debt' \in Nat, idle' \in Nat, now' = now,
         loans' \in Seq(Loan), ceiling' \in Ceilings \cup {NoCeiling}
  PROVE  BooksInv'
<1>1. Indexed \in Nat /\ Indexed >= Wad BY ChargedNat
<1>2. now \in Nat BY DEF BooksInv
<1>3. index' = Indexed /\ last' = now /\ inForce' = <<>> BY DEF ChargeInterest
<1>4. inForce' \in Seq(Nat) /\ Len(inForce') = 0 /\ DOMAIN inForce' = {} BY <1>3
<1>5. now' - last' = 0 /\ last' \in 0..now' BY <1>2, <1>3
<1>6. TypeOK' BY <1>1, <1>3, <1>4, <1>5 DEF TypeOK
<1>7. OneCeiling' BY <1>4 DEF OneCeiling
<1> QED BY <1>2, <1>4, <1>6, <1>7 DEF BooksInv

LEMMA BooksStep ==
  ASSUME BooksInv, [Next]_vars
  PROVE  BooksInv'
<1> USE InterestAssumption
<1>1. /\ idle \in Nat /\ debt \in Nat /\ now \in Nat /\ last \in 0..now
      /\ ceiling \in Ceilings \cup {NoCeiling} /\ loans \in Seq(Loan)
  BY DEF BooksInv, TypeOK
<1>2. Charged \in Nat /\ Indexed \in Nat /\ Indexed >= Wad BY ChargedNat
<1>3. CASE Accrue BY <1>1, <1>2, <1>3, ChargeStep DEF Accrue
<1>4. CASE Tick
  <2>1. /\ now' = now + 1 /\ inForce' = Append(inForce, ceiling)
        /\ UNCHANGED <<idle, debt, index, last, ceiling, loans, charges>>
    BY <1>4 DEF Tick
  <2>2. inForce \in Seq(Nat) /\ ceiling \in Nat /\ Len(inForce) = now - last
    BY DEF BooksInv, TypeOK, NoCeiling
  <2>3. /\ inForce' \in Seq(Nat) /\ Len(inForce') = Len(inForce) + 1
        /\ DOMAIN inForce' = 1..(Len(inForce) + 1)
        /\ \A s \in DOMAIN inForce' : s \in DOMAIN inForce \/ inForce'[s] = ceiling
        /\ \A s \in DOMAIN inForce : inForce'[s] = inForce[s]
    BY <2>1, <2>2
  <2>4. OneCeiling' BY <2>1, <2>3 DEF BooksInv, OneCeiling
  <2>5. TypeOK'
    <3>1. last' \in 0..now' /\ Len(inForce') = now' - last'
      BY <1>1, <2>1, <2>2, <2>3
    <3> QED BY <2>1, <3>1 DEF BooksInv, TypeOK
  <2> QED BY <1>1, <2>1, <2>3, <2>4, <2>5 DEF BooksInv
<1>5. ASSUME NEW amount \in Amounts, Borrow(amount) PROVE BooksInv'
  <2>1. [amount |-> amount, at |-> Indexed] \in Loan BY <1>2 DEF Loan
  <2>2. loans' \in Seq(Loan) BY <1>1, <1>5, <2>1 DEF Borrow
  <2>3. debt' \in Nat /\ idle' \in Nat BY <1>1, <1>2, <1>5 DEF Borrow
  <2> QED BY <1>1, <1>5, <2>2, <2>3, ChargeStep DEF Borrow
<1>6. ASSUME NEW amount \in Amounts, Donate(amount) PROVE BooksInv'
  <2>1. /\ idle' \in Nat
        /\ UNCHANGED <<debt, index, last, ceiling, now, loans, inForce, charges>>
    BY <1>1, <1>6 DEF Donate
  <2> QED BY <2>1 DEF BooksInv, TypeOK, OneCeiling
<1>7. ASSUME NEW k \in DOMAIN loans, RepayLoan(k) PROVE BooksInv'
  <2> DEFINE amount == Payoff(loans[k], Indexed)
  <2>1. k \in 1..Len(loans) /\ Len(loans) \in Nat BY <1>1
  <2>2. amount \in Nat
    <3>1. loans[k].amount \in Nat /\ loans[k].at \in Nat \ {0}
      <4>1. loans[k] \in Loan BY <1>1
      <4> QED BY <4>1 DEF Loan
    <3>2. loans[k].amount * Indexed \in Nat BY <1>2, <3>1
    <3> QED BY <3>1, <3>2, FloorDivBounds DEF Payoff
  <2>3. /\ amount <= Charged /\ debt' = Charged - amount /\ idle' = idle + amount
        /\ loans' = SubSeq(loans, 1, k - 1) \o SubSeq(loans, k + 1, Len(loans))
        /\ ChargeInterest /\ UNCHANGED <<ceiling, now>>
    BY <1>7 DEF RepayLoan
  <2> HIDE DEF amount
  <2>4. debt' \in Nat /\ idle' \in Nat BY <1>1, <1>2, <2>2, <2>3
  <2>5. loans' \in Seq(Loan)
    <3>1. SubSeq(loans, 1, k - 1) \in Seq(Loan) BY <1>1, <2>1
    <3>2. SubSeq(loans, k + 1, Len(loans)) \in Seq(Loan) BY <1>1, <2>1
    <3> QED BY <2>3, <3>1, <3>2
  <2> QED BY <1>1, <2>3, <2>4, <2>5, ChargeStep
<1>8. ASSUME NEW rate \in Ceilings, SetMaxBorrowRate(rate) PROVE BooksInv'
  BY <1>1, <1>2, <1>8, ChargeStep DEF SetMaxBorrowRate
<1>9. CASE UNCHANGED vars BY <1>9 DEF vars, BooksInv, TypeOK, OneCeiling
<1> QED BY <1>3, <1>4, <1>5, <1>6, <1>7, <1>8, <1>9 DEF Next

\* The books of the contract keep their types through every charge, loan and
\* repayment, and the seconds not charged yet stand under one ceiling
\* (accrue_interest, borrow, repay, set_max_borrow_rate).
THEOREM BooksHold == Spec => []BooksInv
<1>1. Init => BooksInv
  BY InterestAssumption DEF Init, BooksInv, TypeOK, OneCeiling, NoCeiling
<1> QED BY <1>1, BooksStep, PTL DEF Spec

\* A charge compounds, second for second, no more than the ceiling.
LEMMA CeilingStep ==
  ASSUME BooksInv, [Next]_vars, last' # last,
         \A s \in DOMAIN inForce : inForce[s] # NoCeiling
  PROVE  index' <= WadMul(index,
                     Compound([s \in DOMAIN inForce |-> Wad + PerSecond(inForce[s])]))
<1> DEFINE r == BorrowRate(Utilization(debt, debt + idle))
           v == [s \in 1..Elapsed |-> Wad + PerSecond(r)]
           w == [s \in DOMAIN inForce |-> Wad + PerSecond(inForce[s])]
<1>1. index' = Indexed
  BY DEF Next, vars, Accrue, Tick, Borrow, Donate, RepayLoan, SetMaxBorrowRate,
         ChargeInterest
<1>2. /\ ceiling \in Nat /\ index \in Nat /\ debt \in Nat /\ Elapsed \in Nat
      /\ inForce \in Seq(Nat) /\ Len(inForce) = Elapsed
      /\ DOMAIN inForce = 1..Elapsed
  BY InterestAssumption DEF BooksInv, TypeOK, NoCeiling, Elapsed
<1>3. r \in Nat /\ (ceiling # NoCeiling => r <= ceiling)
  BY <1>2, UtilizationNat, RateNat DEF BooksInv
<1> HIDE DEF r
<1>4. ASSUME NEW s \in 1..Elapsed
      PROVE  /\ v[s] \in Nat /\ w[s] \in Nat /\ Wad <= v[s] /\ v[s] <= w[s]
  <2>1. inForce[s] = ceiling /\ ceiling # NoCeiling
    BY <1>2, <1>4 DEF BooksInv, OneCeiling
  <2>2. r <= ceiling BY <1>3, <2>1
  <2>3. v[s] = Wad + PerSecond(r) /\ w[s] = Wad + PerSecond(ceiling)
    BY <1>2, <1>4, <2>1
  <2>4. /\ Wad + PerSecond(r) \in Nat /\ Wad <= Wad + PerSecond(r)
        /\ Wad + PerSecond(ceiling) \in Nat
        /\ Wad + PerSecond(r) <= Wad + PerSecond(ceiling)
    BY <1>2, <1>3, <2>2, FactorsShape
  <2> QED BY <2>3, <2>4
<1>5. Len(v) = Elapsed /\ Len(w) = Elapsed
  <2>1. \A n \in Nat : \A e : Len([s \in 1..n |-> e]) = n OBVIOUS
  <2>2. Len(v) = Elapsed BY <1>2, <2>1
  <2>3. w = [s \in 1..Elapsed |-> w[s]] BY <1>2
  <2>4. Len(w) = Elapsed
    <3> HIDE DEF w
    <3>1. \A n \in Nat : Len([s \in 1..n |-> w[s]]) = n OBVIOUS
    <3> QED BY <1>2, <2>3, <3>1
  <2> QED BY <2>2, <2>4
<1> HIDE DEF v, w
<1>6. /\ Compound(v) \in Nat /\ Compound(w) \in Nat
      /\ Wad <= Compound(v) /\ Compound(v) <= Compound(w)
  BY <1>2, <1>4, <1>5, CompoundMono
<1>7. Factor = Compound(v) BY DEF Factor, v, r
<1>8. index <= index /\ Compound(w) >= Wad BY <1>2, <1>6, InterestAssumption
<1>9. /\ WadMul(index, Compound(v)) <= WadMul(index, Compound(w))
      /\ WadMul(index, Compound(v)) \in Nat
  BY <1>2, <1>6, <1>8, WadMulMono
<1>10. index <= WadMul(index, Compound(w))
  <2>1. Compound(w) <= Compound(w) BY <1>6
  <2> QED BY <1>2, <1>6, <1>8, <2>1, WadMulMono
<1>11. Indexed <= WadMul(index, Compound(w))
  BY <1>7, <1>9, <1>10 DEF Indexed
<1> QED BY <1>1, <1>11 DEF w

\* For every curve, ceiling, elapsed time and order of calls, no second is
\* charged above the ceiling that was in force in it (set_max_borrow_rate
\* accrues before it stores the new ceiling).
THEOREM CeilingAlwaysHonoured == Spec => CeilingHonoured
<1>1. BooksInv /\ [Next]_vars =>
        [(last' # last /\ \A s \in DOMAIN inForce : inForce[s] # NoCeiling)
           => index' <= WadMul(index,
                Compound([s \in DOMAIN inForce |-> Wad + PerSecond(inForce[s])]))]_vars
  BY CeilingStep
<1> QED BY <1>1, BooksHold, PTL DEF Spec, CeilingHonoured

\* No figure of the books goes out of range: the index never falls below 1.0
\* and every second since the last charge is accounted for.
THEOREM BooksTyped == Spec => []TypeOK
<1>1. BooksInv => TypeOK BY DEF BooksInv
<1> QED BY <1>1, BooksHold, PTL

-----------------------------------------------------------------------------
(* What the loans owe *)

\* Order of integers under a factor.
LEMMA TimesKeeps ==
  ASSUME NEW c \in Nat, NEW a \in Int, NEW b \in Int, a <= b
  PROVE  c * a <= c * b
OBVIOUS

LEMMA TimesCancels ==
  ASSUME NEW c \in Nat \ {0}, NEW a \in Int, NEW b \in Int, c * a <= c * b
  PROVE  a <= b
<1> SUFFICES ASSUME b < a PROVE FALSE OBVIOUS
<1>1. c * (b + 1) <= c * a BY TimesKeeps
<1>2. c * (b + 1) = c * b + c OBVIOUS
<1> QED BY <1>1, <1>2

\* One charge of one unit more of what is counted in wholes: t / d of an index i
\* against a debt b, with e charges behind them and one unit of rounding in each.
LEMMA ChargeKeepsSlack ==
  ASSUME NEW w \in Nat \ {0}, NEW t \in Nat, NEW d \in Nat \ {0}, NEW e \in Nat,
         NEW i \in Nat, NEW b \in Nat, NEW f \in Nat, NEW j \in Nat, NEW c \in Nat,
         w * j <= i * f, i * f <= w * j + w, b * f <= w * c + w,
         (w + 1) * (t * i - d * b) <= e * (i * d), w + e + 1 <= j
  PROVE  (w + 1) * (t * j - d * c) <= (e + 1) * (j * d)
<1> DEFINE x == t * i - d * b
           y == t * j - d * c
           g == e * d
           v == w + 1
<1>1. x \in Int /\ y \in Int /\ g \in Nat /\ v \in Nat OBVIOUS
<1>2. w * y <= f * x + d * w
  <2>1. t * (w * j) <= t * (i * f)
    <3>1. w * j \in Int /\ i * f \in Int OBVIOUS
    <3> QED BY <3>1, TimesKeeps
  <2>2. d * (b * f) <= d * (w * c + w)
    <3>1. b * f \in Int /\ w * c + w \in Int OBVIOUS
    <3> QED BY <3>1, TimesKeeps
  <2>3. w * y = t * (w * j) - d * (w * c) OBVIOUS
  <2>4. f * x = t * (i * f) - d * (b * f) OBVIOUS
  <2>5. d * (w * c + w) = d * (w * c) + d * w OBVIOUS
  <2> DEFINE p == t * (w * j)
             q == t * (i * f)
             r == d * (b * f)
             s == d * (w * c)
             u == d * w
  <2>6. p \in Int /\ q \in Int /\ r \in Int /\ s \in Int /\ u \in Int OBVIOUS
  <2>7. w * y = p - s /\ f * x = q - r /\ p <= q /\ r <= s + u
    BY <2>1, <2>2, <2>3, <2>4, <2>5
  <2> HIDE DEF p, q, r, s
  <2> QED BY <2>6, <2>7
<1>3. v * (w * y) <= f * (v * x) + v * (d * w)
  <2>1. w * y \in Int /\ f * x + d * w \in Int BY <1>1
  <2>2. v * (w * y) <= v * (f * x + d * w) BY <1>1, <1>2, <2>1, TimesKeeps
  <2>3. v * (f * x + d * w) = f * (v * x) + v * (d * w)
    <3> HIDE DEF x, v, y
    <3> QED BY <1>1
  <2> QED BY <2>2, <2>3
<1>4. f * (v * x) <= g * (w * j + w)
  <2>1. v * x \in Int /\ e * (i * d) \in Int /\ v * x <= e * (i * d) BY <1>1
  <2>2. f * (v * x) <= f * (e * (i * d)) BY <2>1, TimesKeeps
  <2>3. f * (e * (i * d)) = g * (i * f) OBVIOUS
  <2>4. i * f \in Int /\ w * j + w \in Int OBVIOUS
  <2>5. g * (i * f) <= g * (w * j + w) BY <1>1, <2>4, TimesKeeps
  <2>6. f * (v * x) \in Int /\ g * (i * f) \in Int /\ g * (w * j + w) \in Int BY <1>1, <2>1, <2>4
  <2> QED BY <2>2, <2>3, <2>5, <2>6
<1>5. g * (w * j + w) + v * (d * w) = w * (d * (e * j + (w + e + 1))) OBVIOUS
<1>6. w * (v * y) <= w * (d * (e * j + (w + e + 1)))
  <2>1. w * (v * y) = v * (w * y)
    <3> HIDE DEF y, v
    <3> QED BY <1>1
  <2>2. v * (w * y) \in Int /\ f * (v * x) \in Int /\ v * (d * w) \in Int /\ g * (w * j + w) \in Int
    BY <1>1
  <2> QED BY <1>3, <1>4, <1>5, <2>1, <2>2
<1>7. d * (e * j + (w + e + 1)) <= (e + 1) * (j * d)
  <2>1. e * j + (w + e + 1) \in Int /\ e * j + j \in Int /\ e * j + (w + e + 1) <= e * j + j OBVIOUS
  <2>2. d * (e * j + (w + e + 1)) <= d * (e * j + j) BY <2>1, TimesKeeps
  <2>3. d * (e * j + j) = (e + 1) * (j * d) OBVIOUS
  <2> QED BY <2>2, <2>3
<1>8. v * y <= d * (e * j + (w + e + 1))
  <2>1. v * y \in Int /\ d * (e * j + (w + e + 1)) \in Int BY <1>1
  <2> QED BY <1>6, <2>1, TimesCancels
<1>9. v * y \in Int /\ d * (e * j + (w + e + 1)) \in Int /\ (e + 1) * (j * d) \in Int BY <1>1
<1> QED BY <1>7, <1>8, <1>9

\* A loan lent at the index i adds the same to what is owed and to the debt.
LEMMA LoanKeepsSlack ==
  ASSUME NEW v \in Nat, NEW t \in Nat, NEW d \in Nat \ {0}, NEW e \in Nat,
         NEW i \in Nat \ {0}, NEW b \in Nat, NEW a \in Nat,
         v * (t * i - d * b) <= e * (i * d)
  PROVE  v * ((t * i + a * d) * i - (d * i) * (b + a)) <= e * (i * (d * i))
<1> DEFINE x == v * (t * i - d * b)
           y == e * (i * d)
<1>1. x \in Int /\ y \in Int /\ x <= y OBVIOUS
<1>2. v * ((t * i + a * d) * i - (d * i) * (b + a)) = i * x OBVIOUS
<1>3. e * (i * (d * i)) = i * y OBVIOUS
<1> HIDE DEF x, y
<1>4. i * x <= i * y BY <1>1, TimesKeeps
<1> QED BY <1>2, <1>3, <1>4

\* A payoff p rounded down takes no more from the debt than from what is owed.
LEMMA PayoffKeepsSlack ==
  ASSUME NEW v \in Nat, NEW t \in Nat, NEW d \in Nat \ {0}, NEW e \in Nat,
         NEW i \in Nat, NEW b \in Nat, NEW x \in Nat, NEW p \in Nat, d * p <= x * i,
         v * (t * i - d * b) <= e * (i * d)
  PROVE  v * ((t - x) * i - d * (b - p)) <= e * (i * d)
<1>1. (t - x) * i - d * (b - p) = (t * i - d * b) + (d * p - x * i) OBVIOUS
<1> DEFINE g == t * i - d * b
           h == (t - x) * i - d * (b - p)
<1>2. g \in Int /\ h \in Int
  <2>1. t * i \in Int /\ d * b \in Int /\ (t - x) * i \in Int /\ d * (b - p) \in Int OBVIOUS
  <2> QED BY <2>1
<1>3. h <= g
  <2>1. d * p \in Int /\ x * i \in Int OBVIOUS
  <2> HIDE DEF g
  <2> QED BY <1>1, <1>2, <2>1 DEF g, h
<1>4. e * (i * d) \in Int OBVIOUS
<1>5. v * g <= e * (i * d) OBVIOUS
<1> HIDE DEF g, h
<1>6. v * h <= v * g BY <1>2, <1>3, TimesKeeps
<1>7. v * h \in Int /\ v * g \in Int BY <1>2
<1>8. v * h <= e * (i * d) BY <1>4, <1>5, <1>6, <1>7
<1> QED BY <1>8 DEF h

\* s[k] / d is what the first k loans of ls owe for each unit of the index.
Owing(ls, d, s) ==
  /\ d \in Nat \ {0} /\ s \in [0..Len(ls) -> Nat] /\ s[0] = 0
  /\ \A j, k \in 0..Len(ls) : j <= k => s[j] <= s[k]
  /\ \A k \in 1..Len(ls) : (s[k] - s[k - 1]) * ls[k].at = ls[k].amount * d

\* What is owed exceeds the debt by at most e units in Wad + 1 of the index.
Within(t, d, i, b, e) == (Wad + 1) * (t * i - d * b) <= e * (i * d)

\* Each charge that raised the index may have rounded the debt down by a unit.
RoundingCounted ==
  /\ charges \in Nat
  /\ \E d, s : \E e \in 0..charges :
       Owing(loans, d, s) /\ Wad + e <= index /\ Within(s[Len(loans)], d, index, debt, e)

\* A payoff, in the units of Owing (repay_for rounds it down).
LEMMA PayoffInUnits ==
  ASSUME NEW a \in Nat, NEW at \in Nat \ {0}, NEW i \in Nat, NEW x \in Nat, NEW d \in Nat \ {0},
         x * at = a * d
  PROVE  /\ FloorDiv(a * i, at) \in Nat
         /\ d * FloorDiv(a * i, at) <= x * i
<1> DEFINE p == FloorDiv(a * i, at)
<1>1. a * i \in Nat OBVIOUS
<1>2. p \in Nat /\ p * at <= a * i BY <1>1, FloorDivBounds
<1> HIDE DEF p
<1>3. d * (p * at) <= d * (a * i)
  <2>1. p * at \in Int BY <1>2
  <2> QED BY <1>1, <1>2, <2>1, TimesKeeps
<1>4. d * (p * at) = at * (d * p) BY <1>2
<1>5. d * (a * i) = at * (x * i)
  <2>1. d * (a * i) = (a * d) * i OBVIOUS
  <2>2. (x * at) * i = at * (x * i) OBVIOUS
  <2> QED BY <2>1, <2>2
<1>6. at * (d * p) <= at * (x * i) BY <1>3, <1>4, <1>5
<1>7. d * p \in Int /\ x * i \in Int BY <1>2
<1>8. d * p <= x * i BY <1>6, <1>7, TimesCancels
<1> QED BY <1>2, <1>8 DEF p

\* Where no second has passed, or none costs anything, a charge changes nothing.
LEMMA NothingDue ==
  ASSUME NEW x \in Nat
  PROVE  WadMul(x, Wad) = x
<1>1. Wad \in Nat \ {0} BY InterestAssumption
<1>2. x * Wad \in Nat BY <1>1
<1> DEFINE q == FloorDiv(x * Wad, Wad)
<1>3. q \in Nat /\ q * Wad <= x * Wad /\ x * Wad < (q + 1) * Wad BY <1>1, <1>2, FloorDivBounds
<1>4. q = WadMul(x, Wad) BY DEF WadMul
<1> HIDE DEF q
<1>5. x < q + 1 BY <1>1, <1>3, MulCancel
<1>6. q <= x
  <2>1. Wad * q <= Wad * x BY <1>1, <1>3
  <2> QED BY <1>1, <1>3, <2>1, TimesCancels
<1> QED BY <1>3, <1>4, <1>5, <1>6

LEMMA NoTimeNoFactor ==
  ASSUME BooksInv, now = last
  PROVE  Factor = Wad
<1> DEFINE r == Wad + PerSecond(BorrowRate(Utilization(debt, debt + idle)))
           w == [s \in 1..Elapsed |-> r]
<1>1. Elapsed = 0 BY DEF BooksInv, TypeOK, Elapsed
<1>2. Len(w) = 0
  <2> HIDE DEF r
  <2>1. \A n \in Nat : Len([s \in 1..n |-> r]) = n OBVIOUS
  <2> QED BY <1>1, <2>1
<1>3. Factor = Compound(w) BY DEF Factor
<1> HIDE DEF w
<1>4. PICK p : Products(p, w, Len(w)) /\ Compound(w) = p[Len(w)] BY <1>2, CompoundIsLast
<1>5. p[0] = Wad BY <1>2, <1>4 DEF Products
<1> QED BY <1>2, <1>3, <1>4, <1>5

\* A charge rounds the debt down by less than a unit, and a charge that costs
\* anything raises the index by one at least (accrue_interest).
LEMMA ChargeCounts ==
  ASSUME BooksInv, charges \in Nat, ChargeInterest, NEW t \in Nat, NEW d \in Nat \ {0},
         NEW e \in 0..charges, Wad + e <= index, Within(t, d, index, debt, e)
  PROVE  /\ charges' \in Nat
         /\ \E n \in 0..charges' : Wad + n <= Indexed /\ Within(t, d, Indexed, Charged, n)
<1>1. /\ Wad \in Nat \ {0} /\ debt \in Nat /\ index \in Nat /\ index >= Wad
      /\ now \in Nat /\ last \in 0..now
  BY InterestAssumption DEF BooksInv, TypeOK
<1>2. Factor \in Nat /\ Factor >= Wad BY FactorNat
<1>3. charges' = IF debt > 0 /\ now > last THEN charges + 1 ELSE charges
  BY DEF ChargeInterest
<1>4. charges' \in Nat /\ e \in 0..charges' /\ e \in Nat BY <1>1, <1>3
<1>5. CASE debt = 0
  BY <1>1, <1>4, <1>5 DEF Indexed, Charged
<1>6. CASE debt > 0 /\ Factor = Wad
  <2>1. Indexed = index /\ Charged = debt BY <1>1, <1>6, NothingDue DEF Indexed, Charged
  <2> QED BY <1>4, <2>1
<1>7. CASE debt > 0 /\ Factor > Wad
  <2>1. now > last BY <1>1, <1>7, NoTimeNoFactor
  <2>2. e + 1 \in 0..charges' BY <1>3, <1>4, <1>7, <2>1
  <2> DEFINE f == Factor
             j == Indexed
             c == Charged
  <2>3. j = FloorDiv(index * f, Wad) /\ c = FloorDiv(debt * f, Wad)
    BY <1>7 DEF Indexed, Charged, WadMul
  <2>4. f \in Nat /\ f >= Wad + 1 BY <1>1, <1>2, <1>7
  <2>5. j \in Nat /\ c \in Nat BY ChargedNat
  <2>6. Within(t, d, j, c, e + 1) /\ Wad + (e + 1) <= j
    <3> HIDE DEF f, j, c
    <3>1. index * f \in Nat /\ debt * f \in Nat BY <1>1, <2>4
    <3>2. /\ j * Wad <= index * f /\ index * f < (j + 1) * Wad
          /\ debt * f < (c + 1) * Wad
      BY <1>1, <2>3, <3>1, FloorDivBounds
    <3>3. j * Wad = Wad * j /\ (j + 1) * Wad = Wad * j + Wad /\ (c + 1) * Wad = Wad * c + Wad
      BY <1>1, <2>5
    <3>4. /\ Wad * j \in Int /\ Wad * c \in Int
          /\ Wad * j <= index * f /\ index * f <= Wad * j + Wad /\ debt * f <= Wad * c + Wad
      <4>1. Wad * j \in Int /\ Wad * c \in Int BY <1>1, <2>5
      <4> QED BY <1>1, <3>1, <3>2, <3>3, <4>1
    <3>5. index + 1 <= j
      <4>1. index * (Wad + 1) <= index * f BY <1>1, <2>4, TimesKeeps
      <4>2. index * (Wad + 1) = index * Wad + index /\ (index + 1) * Wad = index * Wad + Wad
        BY <1>1
      <4>3. index * Wad \in Int BY <1>1
      <4>4. (index + 1) * Wad <= index * f BY <1>1, <3>1, <4>1, <4>2, <4>3
      <4> QED BY <1>1, <2>3, <3>1, <4>4, FloorAtLeast
    <3>6. Wad + e + 1 <= j /\ Wad + (e + 1) <= j BY <1>1, <1>4, <2>5, <3>5
    <3>7. (Wad + 1) * (t * index - d * debt) <= e * (index * d) BY DEF Within
    <3>8. (Wad + 1) * (t * j - d * c) <= (e + 1) * (j * d)
      BY <1>1, <1>4, <2>4, <2>5, <3>4, <3>6, <3>7, ChargeKeepsSlack
    <3> QED BY <3>6, <3>8 DEF Within
  <2> QED BY <1>4, <2>2, <2>6
<1> QED BY <1>1, <1>2, <1>5, <1>6, <1>7, <1>4

\* The shares of one loan (borrow appends it, repay_for takes it away).
LEMMA OwingOfOne ==
  ASSUME NEW ls \in Seq(Loan), NEW d, NEW s, Owing(ls, d, s), NEW k \in 1..Len(ls)
  PROVE  /\ k \in 0..Len(ls) /\ k - 1 \in 0..Len(ls) /\ s[k] \in Nat /\ s[k - 1] \in Nat
         /\ s[k - 1] <= s[k] /\ s[k] - s[k - 1] \in Nat
         /\ ls[k].amount \in Nat /\ ls[k].at \in Nat \ {0} /\ d \in Nat \ {0}
         /\ (s[k] - s[k - 1]) * ls[k].at = ls[k].amount * d
<1>1. k \in 0..Len(ls) /\ k - 1 \in 0..Len(ls) /\ k - 1 <= k OBVIOUS
<1>2. s[k] \in Nat /\ s[k - 1] \in Nat /\ s[k - 1] <= s[k] BY <1>1 DEF Owing
<1>3. ls[k] \in Loan OBVIOUS
<1>4. ls[k].amount \in Nat /\ ls[k].at \in Nat \ {0} BY <1>3 DEF Loan
<1> QED BY <1>1, <1>2, <1>4 DEF Owing

LEMMA OwingAfterLoan ==
  ASSUME NEW ls \in Seq(Loan), NEW d, NEW s, Owing(ls, d, s),
         NEW i \in Nat \ {0}, NEW a \in Nat
  PROVE  \E u : /\ Owing(Append(ls, [amount |-> a, at |-> i]), d * i, u)
                /\ u[Len(Append(ls, [amount |-> a, at |-> i]))] = s[Len(ls)] * i + a * d
<1> DEFINE n == Len(ls)
           new == [amount |-> a, at |-> i]
           more == Append(ls, new)
           top == s[n] * i + a * d
           u == [k \in 0..(n + 1) |-> IF k <= n THEN s[k] * i ELSE top]
<1>1. /\ n \in Nat /\ d \in Nat \ {0} /\ s[0] = 0
      /\ \A k \in 0..n : s[k] \in Nat
      /\ \A j, k \in 0..n : j <= k => s[j] <= s[k]
  BY DEF Owing
<1>2. new \in Loan /\ new.amount = a /\ new.at = i BY DEF Loan
<1> HIDE DEF new
<1>3. /\ Len(more) = n + 1 /\ more[n + 1] = new
      /\ \A k \in 1..n : more[k] = ls[k]
  BY <1>2
<1>4. n \in 0..n /\ s[n] \in Nat BY <1>1
<1>5. a * d \in Nat /\ \A k \in 0..n : s[k] * i \in Nat BY <1>1
<1>6. top \in Nat /\ top = s[n] * i + a * d BY <1>4, <1>5
<1>7. \A k \in 0..n : s[k] * i <= top
  <2> TAKE k \in 0..n
  <2>1. s[k] <= s[n] /\ s[k] \in Nat BY <1>1, <1>4
  <2>2. i * s[k] <= i * s[n] BY <1>4, <2>1, TimesKeeps
  <2>3. s[k] * i = i * s[k] /\ s[n] * i = i * s[n] BY <1>4, <2>1
  <2>4. s[k] * i \in Nat /\ s[n] * i \in Nat BY <1>4, <1>5
  <2> HIDE DEF top
  <2> QED BY <1>5, <1>6, <2>2, <2>3, <2>4
<1>8. \A j, k \in 0..n : j <= k => s[j] * i <= s[k] * i
  <2> TAKE j, k \in 0..n
  <2>1. HAVE j <= k
  <2>2. s[j] <= s[k] /\ s[j] \in Nat /\ s[k] \in Nat BY <1>1, <2>1
  <2>3. i * s[j] <= i * s[k] BY <2>2, TimesKeeps
  <2> QED BY <2>2, <2>3
<1> HIDE DEF top
<1>9. u \in [0..(n + 1) -> Nat] BY <1>1, <1>5, <1>6
<1>10. (\A k \in 0..n : u[k] = s[k] * i) /\ u[n + 1] = top BY <1>1
<1>11. u[0] = 0 BY <1>1, <1>10
<1> HIDE DEF u, more
<1>12. \A j, k \in 0..(n + 1) : j <= k => u[j] <= u[k]
  <2> TAKE j, k \in 0..(n + 1)
  <2>1. HAVE j <= k
  <2>2. CASE k = n + 1 /\ j = n + 1 BY <1>6, <1>10, <2>2
  <2>3. CASE k = n + 1 /\ j # n + 1
    <3>1. j \in 0..n BY <1>1, <2>3
    <3> QED BY <1>7, <1>10, <2>3, <3>1
  <2>4. CASE k # n + 1
    <3>1. j \in 0..n /\ k \in 0..n BY <1>1, <2>1, <2>4
    <3> QED BY <1>8, <1>10, <2>1, <3>1
  <2> QED BY <2>2, <2>3, <2>4
<1>13. \A k \in 1..(n + 1) : (u[k] - u[k - 1]) * more[k].at = more[k].amount * (d * i)
  <2> TAKE k \in 1..(n + 1)
  <2>1. CASE k = n + 1
    <3>1. u[k] - u[k - 1] = a * d
      <4>1. u[k] = top /\ u[k - 1] = s[n] * i BY <1>1, <1>4, <1>10, <2>1
      <4>2. s[n] * i \in Nat BY <1>4, <1>5
      <4> QED BY <1>5, <1>6, <4>1, <4>2
    <3>2. more[k].at = i /\ more[k].amount = a BY <1>2, <1>3, <2>1
    <3>3. (a * d) * i = a * (d * i) BY <1>1
    <3> QED BY <3>1, <3>2, <3>3
  <2>2. CASE k # n + 1
    <3>1. k \in 1..n /\ k \in 0..n /\ k - 1 \in 0..n BY <1>1, <2>2
    <3>2. more[k] = ls[k] BY <1>3, <3>1
    <3>3. u[k] = s[k] * i /\ u[k - 1] = s[k - 1] * i BY <1>10, <3>1
    <3> DEFINE at == ls[k].at
               am == ls[k].amount
               x == s[k]
               y == s[k - 1]
    <3>4. /\ x \in Nat /\ y \in Nat /\ am \in Nat /\ at \in Nat /\ d \in Nat
          /\ (x - y) * at = am * d
      BY <3>1, OwingOfOne
    <3> HIDE DEF at, am, x, y
    <3>5. (x * i - y * i) * at = ((x - y) * at) * i BY <3>4
    <3>6. (am * d) * i = am * (d * i) BY <3>4
    <3>7. (x * i - y * i) * at = am * (d * i) BY <3>4, <3>5, <3>6
    <3> QED BY <3>2, <3>3, <3>7 DEF at, am, x, y
  <2> QED BY <2>1, <2>2
<1>14. d * i \in Nat \ {0}
  <2>1. d * i \in Nat BY <1>1
  <2>2. 1 * i <= d * i
    <3>1. i * 1 <= i * d BY <1>1, TimesKeeps
    <3> QED BY <1>1, <3>1
  <2> QED BY <2>1, <2>2
<1>15. Owing(more, d * i, u) /\ u[Len(more)] = top
  BY <1>3, <1>9, <1>10, <1>11, <1>12, <1>13, <1>14 DEF Owing
<1> QED BY <1>15, <1>6 DEF more, new

LEMMA OwingAfterPayoff ==
  ASSUME NEW ls \in Seq(Loan), NEW d, NEW s, Owing(ls, d, s), NEW k \in 1..Len(ls)
  PROVE  LET rest == SubSeq(ls, 1, k - 1) \o SubSeq(ls, k + 1, Len(ls))
         IN  \E u : Owing(rest, d, u) /\ u[Len(rest)] = s[Len(ls)] - (s[k] - s[k - 1])
<1> DEFINE n == Len(ls)
           rest == SubSeq(ls, 1, k - 1) \o SubSeq(ls, k + 1, n)
           x == s[k] - s[k - 1]
           u == [j \in 0..(n - 1) |-> IF j < k THEN s[j] ELSE s[j + 1] - x]
<1>1. /\ n \in Nat /\ d \in Nat \ {0} /\ s[0] = 0 /\ k \in 1..n
      /\ \A j \in 0..n : s[j] \in Nat
      /\ \A i, j \in 0..n : i <= j => s[i] <= s[j]
  <2>1. n \in Nat OBVIOUS
  <2>2. d \in Nat \ {0} /\ s \in [0..n -> Nat] /\ s[0] = 0 BY DEF Owing
  <2>3. \A i, j \in 0..n : i <= j => s[i] <= s[j] BY DEF Owing
  <2> QED BY <2>1, <2>2, <2>3
<1>2. /\ Len(rest) = n - 1
      /\ \A j \in 1..(n - 1) : rest[j] = IF j < k THEN ls[j] ELSE ls[j + 1]
  <2> DEFINE front == SubSeq(ls, 1, k - 1)
             back == SubSeq(ls, k + 1, n)
  <2>1. front \in Seq(Loan) /\ Len(front) = k - 1 BY <1>1
  <2>2. back \in Seq(Loan) /\ Len(back) = n - k BY <1>1
  <2>3. \A j \in 1..(k - 1) : front[j] = ls[j] BY <1>1
  <2>4. \A j \in 1..(n - k) : back[j] = ls[j + k]
    <3> TAKE j \in 1..(n - k)
    <3>1. j + k \in 1..n /\ k + 1 + j - 1 = j + k BY <1>1
    <3> QED BY <1>1, <3>1
  <2> HIDE DEF front, back
  <2>5. rest = front \o back BY DEF front, back
  <2> HIDE DEF rest
  <2>6. Len(rest) = n - 1
    <3>1. Len(front \o back) = Len(front) + Len(back) BY <2>1, <2>2
    <3> QED BY <1>1, <2>1, <2>2, <2>5, <3>1
  <2>7. ASSUME NEW j \in 1..(n - 1), j < k PROVE rest[j] = ls[j]
    <3>1. j \in 1..(k - 1) BY <1>1, <2>7
    <3>2. rest[j] = front[j] BY <1>1, <2>1, <2>2, <2>5, <3>1
    <3> QED BY <2>3, <3>1, <3>2
  <2>8. ASSUME NEW j \in 1..(n - 1), ~(j < k) PROVE rest[j] = ls[j + 1]
    <3>1. j - (k - 1) \in 1..(n - k) /\ j - (k - 1) + k = j + 1 BY <1>1, <2>8
    <3>2. rest[j] = back[j - (k - 1)] BY <1>1, <2>1, <2>2, <2>5, <2>8
    <3> QED BY <2>4, <3>1, <3>2
  <2> QED BY <2>6, <2>7, <2>8
<1>3. x \in Nat /\ k - 1 \in 0..n /\ k \in 0..n /\ s[k] = s[k - 1] + x
  BY <1>1, OwingOfOne
<1>4. \A j \in k..n : j \in 0..n /\ s[j] - x \in Nat /\ s[k - 1] <= s[j] - x
  <2> TAKE j \in k..n
  <2>1. j \in 0..n /\ k <= j BY <1>1
  <2>2. s[k] <= s[j] /\ s[j] \in Nat /\ s[k - 1] \in Nat BY <1>1, <1>3, <2>1
  <2> HIDE DEF x
  <2> QED BY <1>3, <2>1, <2>2
<1>5. /\ \A j \in 0..(n - 1) : j < k => u[j] = s[j]
      /\ \A j \in 0..(n - 1) : ~(j < k) => j + 1 \in k..n /\ u[j] = s[j + 1] - x
  BY <1>1
<1>6. u \in [0..(n - 1) -> Nat]
  <2> HIDE DEF x
  <2>1. \A j \in 0..(n - 1) : (IF j < k THEN s[j] ELSE s[j + 1] - x) \in Nat
    <3> TAKE j \in 0..(n - 1)
    <3>1. CASE j < k
      <4>1. j \in 0..n BY <1>1
      <4> QED BY <1>1, <3>1, <4>1
    <3>2. CASE ~(j < k)
      <4>1. j + 1 \in k..n BY <1>1, <3>2
      <4> QED BY <1>4, <3>2, <4>1
    <3> QED BY <3>1, <3>2
  <2> QED BY <2>1
<1> HIDE DEF rest, x, u
<1>7. u[0] = 0
  <2>1. 0 \in 0..(n - 1) /\ 0 < k BY <1>1
  <2> QED BY <1>1, <1>5, <2>1
<1>8. \A i, j \in 0..(n - 1) : i <= j => u[i] <= u[j]
  <2> TAKE i, j \in 0..(n - 1)
  <2>1. HAVE i <= j
  <2>2. i \in 0..n /\ j \in 0..n /\ i + 1 \in 0..n /\ j + 1 \in 0..n BY <1>1
  <2>3. CASE j < k
    <3>1. u[i] = s[i] /\ u[j] = s[j] BY <1>1, <1>5, <2>1, <2>3
    <3> QED BY <1>1, <2>1, <2>2, <3>1
  <2>4. CASE i < k /\ ~(j < k)
    <3>1. u[i] = s[i] /\ j + 1 \in k..n /\ u[j] = s[j + 1] - x BY <1>5, <2>4
    <3>2. s[k - 1] <= s[j + 1] - x /\ s[j + 1] - x \in Nat BY <1>4, <3>1
    <3>3. i <= k - 1 BY <1>1, <2>4
    <3>4. s[i] <= s[k - 1] /\ s[i] \in Nat /\ s[k - 1] \in Nat BY <1>1, <1>3, <2>2, <3>3
    <3> QED BY <3>1, <3>2, <3>4
  <2>5. CASE ~(i < k)
    <3>1. ~(j < k) BY <1>1, <2>1, <2>5
    <3>2. u[i] = s[i + 1] - x /\ u[j] = s[j + 1] - x BY <1>5, <2>5, <3>1
    <3>3. s[i + 1] <= s[j + 1] /\ s[i + 1] \in Nat /\ s[j + 1] \in Nat BY <1>1, <2>1, <2>2
    <3> QED BY <1>3, <3>2, <3>3
  <2> QED BY <2>3, <2>4, <2>5
<1>9. \A j \in 1..(n - 1) : (u[j] - u[j - 1]) * rest[j].at = rest[j].amount * d
  <2> TAKE j \in 1..(n - 1)
  <2>1. j \in 1..n /\ j + 1 \in 1..n /\ j \in 0..(n - 1) /\ j - 1 \in 0..(n - 1) /\ j + 1 - 1 = j
    BY <1>1
  <2>2. CASE j < k
    <3>1. j - 1 < k BY <1>1, <2>1, <2>2
    <3>2. u[j] = s[j] /\ u[j - 1] = s[j - 1] BY <1>5, <2>1, <2>2, <3>1
    <3>3. rest[j] = ls[j] BY <1>2, <2>2
    <3>4. (s[j] - s[j - 1]) * ls[j].at = ls[j].amount * d BY <2>1, OwingOfOne
    <3> QED BY <3>2, <3>3, <3>4
  <2>3. CASE ~(j < k)
    <3>1. rest[j] = ls[j + 1] /\ u[j] = s[j + 1] - x BY <1>2, <1>5, <2>1, <2>3
    <3>2. u[j - 1] = s[j] - x
      <4>1. CASE j = k
        <5>1. u[j - 1] = s[k - 1] BY <1>1, <1>5, <2>1, <4>1
        <5>2. s[k - 1] \in Nat BY <1>1, <1>3
        <5> QED BY <1>3, <4>1, <5>1, <5>2
      <4>2. CASE j # k
        <5>1. ~(j - 1 < k) /\ j - 1 + 1 = j BY <1>1, <2>3, <4>2
        <5> QED BY <1>5, <2>1, <5>1
      <4> QED BY <4>1, <4>2
    <3>3. s[j + 1] \in Nat /\ s[j] \in Nat BY <1>1, <2>1
    <3>4. u[j] - u[j - 1] = s[j + 1] - s[j] BY <1>3, <3>1, <3>2, <3>3
    <3>5. (s[j + 1] - s[j]) * ls[j + 1].at = ls[j + 1].amount * d BY <2>1, OwingOfOne
    <3> QED BY <3>1, <3>4, <3>5
  <2> QED BY <2>2, <2>3
<1>10. Owing(rest, d, u) BY <1>1, <1>2, <1>6, <1>7, <1>8, <1>9 DEF Owing
<1>11. u[Len(rest)] = s[n] - x
  <2>1. n - 1 \in 0..(n - 1) BY <1>1
  <2>2. CASE n - 1 < k
    <3>1. n = k /\ n - 1 = k - 1 BY <1>1, <2>2
    <3>2. u[n - 1] = s[n - 1] BY <1>5, <2>1, <2>2
    <3>3. s[k - 1] \in Nat BY <1>1, <1>3
    <3> QED BY <1>2, <1>3, <3>1, <3>2, <3>3
  <2>3. CASE ~(n - 1 < k)
    <3>1. n - 1 + 1 = n BY <1>1
    <3> QED BY <1>2, <1>5, <2>1, <2>3, <3>1
  <2> QED BY <2>2, <2>3
<1> QED BY <1>10, <1>11 DEF rest, x

LEMMA CountedInit == Init => RoundingCounted
<1> SUFFICES ASSUME Init PROVE RoundingCounted OBVIOUS
<1>1. /\ charges = 0 /\ loans = <<>> /\ Len(loans) = 0 /\ index = Wad /\ debt = 0
      /\ Wad \in Nat
  BY InterestAssumption DEF Init
<1> DEFINE s == [k \in 0..0 |-> 0]
<1>2. /\ s \in [0..Len(loans) -> Nat] /\ s[0] = 0 /\ s[Len(loans)] = 0
      /\ \A j, k \in 0..Len(loans) : s[j] <= s[k]
  BY <1>1
<1> HIDE DEF s
<1>3. Owing(loans, 1, s)
  <2>1. 1..Len(loans) = {} BY <1>1
  <2> QED BY <1>2, <2>1 DEF Owing
<1>4. Within(s[Len(loans)], 1, index, debt, 0) BY <1>1, <1>2 DEF Within
<1>5. 0 \in 0..charges /\ Wad + 0 <= index BY <1>1
<1> QED BY <1>1, <1>3, <1>4, <1>5 DEF RoundingCounted

\* A charge alone (accrue_interest, and set_max_borrow_rate, which makes one).
LEMMA CountedCharge ==
  ASSUME BooksInv, RoundingCounted, ChargeInterest, debt' = Charged, loans' = loans
  PROVE  RoundingCounted'
<1> DEFINE Slack(d, s, e) == /\ Owing(loans, d, s) /\ Wad + e <= index
                             /\ Within(s[Len(loans)], d, index, debt, e)
<1>0. PICK d, s : \E e \in 0..charges : Slack(d, s, e)
  BY DEF RoundingCounted
<1>1. PICK e \in 0..charges : Slack(d, s, e)
  BY <1>0
<1>2. charges \in Nat BY DEF RoundingCounted
<1>3. d \in Nat \ {0} /\ s[Len(loans)] \in Nat
  <2>1. Len(loans) \in 0..Len(loans) BY DEF BooksInv
  <2> QED BY <1>1, <2>1 DEF Owing
<1>4. PICK n \in 0..charges' :
        Wad + n <= Indexed /\ Within(s[Len(loans)], d, Indexed, Charged, n)
  BY <1>1, <1>2, <1>3, ChargeCounts
<1>5. charges' \in Nat BY <1>1, <1>2, <1>3, ChargeCounts
<1>6. index' = Indexed BY DEF ChargeInterest
<1>7. /\ Owing(loans', d, s) /\ Wad + n <= index'
      /\ Within(s[Len(loans')], d, index', debt', n)
  BY <1>1, <1>4, <1>6
<1> QED BY <1>4, <1>5, <1>7 DEF RoundingCounted

LEMMA CountedBorrow ==
  ASSUME BooksInv, RoundingCounted, NEW amount \in Amounts, Borrow(amount)
  PROVE  RoundingCounted'
<1> DEFINE Slack(d, s, e) == /\ Owing(loans, d, s) /\ Wad + e <= index
                             /\ Within(s[Len(loans)], d, index, debt, e)
<1>0. PICK d, s : \E e \in 0..charges : Slack(d, s, e)
  BY DEF RoundingCounted
<1>1. PICK e \in 0..charges : Slack(d, s, e)
  BY <1>0
<1>2. charges \in Nat /\ ChargeInterest /\ loans \in Seq(Loan)
  BY DEF RoundingCounted, Borrow, BooksInv
<1>3. d \in Nat \ {0} /\ s[Len(loans)] \in Nat
  <2>1. Len(loans) \in 0..Len(loans) BY <1>2
  <2> QED BY <1>1, <2>1 DEF Owing
<1>4. PICK n \in 0..charges' :
        Wad + n <= Indexed /\ Within(s[Len(loans)], d, Indexed, Charged, n)
  BY <1>1, <1>2, <1>3, ChargeCounts
<1>5. charges' \in Nat BY <1>1, <1>2, <1>3, ChargeCounts
<1> DEFINE i == Indexed
           t == s[Len(loans)]
           more == Append(loans, [amount |-> amount, at |-> i])
<1>6. i \in Nat \ {0} /\ amount \in Nat /\ Charged \in Nat /\ t \in Nat /\ Wad + 1 \in Nat
  BY <1>3, ChargedNat, InterestAssumption
<1>7. index' = i /\ debt' = Charged + amount /\ loans' = more
  BY DEF Borrow, ChargeInterest
<1> HIDE DEF i, t
<1>8. PICK u : Owing(more, d * i, u) /\ u[Len(more)] = s[Len(loans)] * i + amount * d
  BY <1>1, <1>2, <1>6, OwingAfterLoan
<1> HIDE DEF more
<1>9. Wad + n <= i /\ (Wad + 1) * (t * i - d * Charged) <= n * (i * d)
  BY <1>4 DEF Within, i, t
<1>10. n \in Nat BY <1>4, <1>5
<1>11. (Wad + 1) * ((t * i + amount * d) * i - (d * i) * (Charged + amount)) <= n * (i * (d * i))
  BY <1>3, <1>6, <1>9, <1>10, LoanKeepsSlack
<1>12. Within(u[Len(loans')], d * i, index', debt', n)
  BY <1>7, <1>8, <1>11 DEF Within, t
<1>13. Owing(loans', d * i, u) /\ Wad + n <= index' BY <1>7, <1>8, <1>9
<1> QED BY <1>4, <1>5, <1>12, <1>13 DEF RoundingCounted

LEMMA CountedPayoff ==
  ASSUME BooksInv, RoundingCounted, NEW k \in DOMAIN loans, RepayLoan(k)
  PROVE  RoundingCounted'
<1> DEFINE Slack(d, s, e) == /\ Owing(loans, d, s) /\ Wad + e <= index
                             /\ Within(s[Len(loans)], d, index, debt, e)
<1>0. PICK d, s : \E e \in 0..charges : Slack(d, s, e)
  BY DEF RoundingCounted
<1>1. PICK e \in 0..charges : Slack(d, s, e)
  BY <1>0
<1>2. charges \in Nat /\ ChargeInterest /\ loans \in Seq(Loan) /\ k \in 1..Len(loans)
  BY DEF RoundingCounted, RepayLoan, BooksInv
<1>3. d \in Nat \ {0} /\ s[Len(loans)] \in Nat
  <2>1. Len(loans) \in 0..Len(loans) BY <1>2
  <2> QED BY <1>1, <2>1 DEF Owing
<1>4. PICK n \in 0..charges' :
        Wad + n <= Indexed /\ Within(s[Len(loans)], d, Indexed, Charged, n)
  BY <1>1, <1>2, <1>3, ChargeCounts
<1>5. charges' \in Nat BY <1>1, <1>2, <1>3, ChargeCounts
<1> DEFINE i == Indexed
           c == Charged
           t == s[Len(loans)]
           x == s[k] - s[k - 1]
           p == Payoff(loans[k], i)
           rest == SubSeq(loans, 1, k - 1) \o SubSeq(loans, k + 1, Len(loans))
<1>6. index' = i /\ debt' = c - p /\ loans' = rest BY DEF RepayLoan, ChargeInterest
<1>7. i \in Nat /\ c \in Nat /\ t \in Nat /\ Wad + 1 \in Nat
  BY <1>3, ChargedNat, InterestAssumption
<1>8. PICK u : Owing(rest, d, u) /\ u[Len(rest)] = t - x
  BY <1>1, <1>2, OwingAfterPayoff
<1>9. /\ x \in Nat /\ loans[k].amount \in Nat /\ loans[k].at \in Nat \ {0}
      /\ x * loans[k].at = loans[k].amount * d
  BY <1>1, <1>2, OwingOfOne
<1> HIDE DEF rest, x, t, i, c
<1>10. p \in Nat /\ d * p <= x * i BY <1>3, <1>7, <1>9, PayoffInUnits DEF Payoff
<1>11. Wad + n <= i /\ (Wad + 1) * (t * i - d * c) <= n * (i * d)
  BY <1>4 DEF Within, i, t, c
<1>12. n \in Nat BY <1>4, <1>5
<1> HIDE DEF p
<1>13. (Wad + 1) * ((t - x) * i - d * (c - p)) <= n * (i * d)
  BY <1>3, <1>7, <1>9, <1>10, <1>11, <1>12, PayoffKeepsSlack
<1>14. /\ Within(u[Len(loans')], d, index', debt', n)
       /\ Owing(loans', d, u) /\ Wad + n <= index'
  BY <1>6, <1>8, <1>11, <1>13 DEF Within
<1> QED BY <1>4, <1>5, <1>14 DEF RoundingCounted

LEMMA CountedStep == BooksInv /\ RoundingCounted /\ [Next]_vars => RoundingCounted'
<1> SUFFICES ASSUME BooksInv, RoundingCounted, [Next]_vars PROVE RoundingCounted' OBVIOUS
<1>1. CASE Accrue BY <1>1, CountedCharge DEF Accrue
<1>2. CASE Tick BY <1>2 DEF Tick, RoundingCounted
<1>3. ASSUME NEW amount \in Amounts, Borrow(amount) PROVE RoundingCounted'
  BY <1>3, CountedBorrow
<1>4. ASSUME NEW amount \in Amounts, Donate(amount) PROVE RoundingCounted'
  BY <1>4 DEF Donate, RoundingCounted
<1>5. ASSUME NEW k \in DOMAIN loans, RepayLoan(k) PROVE RoundingCounted'
  BY <1>5, CountedPayoff
<1>6. ASSUME NEW rate \in Ceilings, SetMaxBorrowRate(rate) PROVE RoundingCounted'
  BY <1>6, CountedCharge DEF SetMaxBorrowRate
<1>7. CASE UNCHANGED vars BY <1>7 DEF vars, RoundingCounted
<1> QED BY <1>1, <1>2, <1>3, <1>4, <1>5, <1>6, <1>7 DEF Next

\* p holds what the first n loans owe, up to the m-th.
Owed(p, m) ==
  p = [n \in 0..m |-> IF n = 0 THEN 0 ELSE p[n - 1] + Payoff(loans[n], index)]

LEMMA OwedExists == ASSUME NEW m \in Nat PROVE \E p : Owed(p, m)
<1> DEFINE T == {n \in 0..m : \E p : Owed(p, n)}
<1>1. 0 \in T
  <2> DEFINE p == [n \in 0..0 |-> 0]
  <2>1. Owed(p, 0) BY DEF Owed
  <2> QED BY <2>1
<1>2. ASSUME NEW n \in 0..m, n < m, n \in T PROVE n + 1 \in T
  <2>1. PICK p : Owed(p, n) BY <1>2
  <2> DEFINE q == [k \in 0..(n + 1) |->
                     IF k = n + 1 THEN p[n] + Payoff(loans[n + 1], index) ELSE p[k]]
  <2>2. ASSUME NEW k \in 0..(n + 1)
        PROVE  q[k] = IF k = 0 THEN 0 ELSE q[k - 1] + Payoff(loans[k], index)
    <3>1. CASE k = n + 1
      <4>1. q[k] = p[n] + Payoff(loans[n + 1], index) /\ q[k - 1] = p[n] BY <1>2, <3>1
      <4> QED BY <1>2, <3>1, <4>1
    <3>2. CASE k # n + 1
      <4>1. k \in 0..n BY <1>2, <3>2
      <4>2. q[k] = p[k] /\ (k # 0 => q[k - 1] = p[k - 1]) BY <1>2, <3>2, <4>1
      <4>3. p[k] = IF k = 0 THEN 0 ELSE p[k - 1] + Payoff(loans[k], index)
        BY <2>1, <4>1 DEF Owed
      <4> HIDE DEF q
      <4> QED BY <4>2, <4>3
    <3> QED BY <3>1, <3>2
  <2>3. Owed(q, n + 1)
    <3>1. q = [k \in 0..(n + 1) |-> q[k]] OBVIOUS
    <3> HIDE DEF q
    <3> QED BY <2>2, <3>1 DEF Owed
  <2>4. n + 1 \in 0..m BY <1>2
  <2> HIDE DEF q
  <2> QED BY <2>3, <2>4
<1>3. \A n \in 0..m : n \in T
  <2> HIDE DEF T
  <2> QED BY <1>1, <1>2, EverySecond
<1> QED BY <1>3

\* The payoffs, each rounded down, add up to no more than what is owed.
LEMMA OwedBelowUnits ==
  ASSUME BooksInv, NEW d, NEW s, Owing(loans, d, s)
  PROVE  OwedByIndex \in Nat /\ d * OwedByIndex <= s[Len(loans)] * index
<1> DEFINE m == Len(loans)
           p == CHOOSE p : p = [n \in 0..m |->
                  IF n = 0 THEN 0 ELSE p[n - 1] + Payoff(loans[n], index)]
<1>1. /\ m \in Nat /\ loans \in Seq(Loan) /\ index \in Nat /\ d \in Nat \ {0}
      /\ s[0] = 0 /\ \A k \in 0..m : s[k] \in Nat
  <2>1. loans \in Seq(Loan) /\ index \in Nat BY DEF BooksInv, TypeOK
  <2>2. d \in Nat \ {0} /\ s \in [0..m -> Nat] /\ s[0] = 0 BY DEF Owing
  <2> QED BY <2>1, <2>2
<1>2. Owed(p, m) BY <1>1, OwedExists DEF Owed
<1>3. OwedByIndex = p[m] BY DEF OwedByIndex
<1> HIDE DEF p
<1> DEFINE T == {n \in 0..m : p[n] \in Nat /\ d * p[n] <= s[n] * index}
<1>4. 0 \in T
  <2>1. p[0] = 0 BY <1>1, <1>2 DEF Owed
  <2> QED BY <1>1, <2>1
<1>5. ASSUME NEW n \in 0..m, n < m, n \in T PROVE n + 1 \in T
  <2>1. n + 1 \in 1..m /\ n + 1 \in 0..m /\ n + 1 - 1 = n /\ n + 1 # 0 BY <1>1, <1>5
  <2> DEFINE a == p[n]
             b == Payoff(loans[n + 1], index)
             x == s[n]
             y == s[n + 1]
  <2>2. p[n + 1] = a + b BY <1>2, <2>1 DEF Owed
  <2>3. a \in Nat /\ d * a <= x * index /\ x \in Nat /\ y \in Nat BY <1>1, <1>5, <2>1
  <2>4. b \in Nat /\ d * b <= (y - x) * index
    <3>1. /\ y - x \in Nat /\ loans[n + 1].amount \in Nat /\ loans[n + 1].at \in Nat \ {0}
          /\ (y - x) * loans[n + 1].at = loans[n + 1].amount * d
      BY <1>1, <2>1, OwingOfOne
    <3> DEFINE z == y - x
    <3>2. z \in Nat /\ z * loans[n + 1].at = loans[n + 1].amount * d BY <3>1
    <3> HIDE DEF z
    <3>3. b \in Nat /\ d * b <= z * index BY <1>1, <3>1, <3>2, PayoffInUnits DEF Payoff
    <3> QED BY <3>3 DEF z
  <2> HIDE DEF a, b, x, y
  <2>5. d * (a + b) <= y * index
    <3>1. d * (a + b) = d * a + d * b BY <1>1, <2>3, <2>4
    <3>2. (y - x) * index = y * index - x * index BY <1>1, <2>3
    <3>3. d * a \in Int /\ d * b \in Int /\ x * index \in Int /\ y * index \in Int
      BY <1>1, <2>3, <2>4
    <3> QED BY <2>3, <2>4, <3>1, <3>2, <3>3
  <2>6. p[n + 1] \in Nat BY <2>2, <2>3, <2>4
  <2> QED BY <2>1, <2>2, <2>5, <2>6 DEF y
<1>6. m \in T
  <2>1. m \in 0..m BY <1>1
  <2> HIDE DEF T
  <2> QED BY <1>1, <1>4, <1>5, <2>1, EverySecond
<1> QED BY <1>3, <1>6

\* e units in w + 1 of the index are no more than one e-th share of it each.
LEMMA UnitsAreSmall ==
  ASSUME NEW w \in Nat \ {0}, NEW e \in Nat, NEW n \in Nat, e <= n, NEW d \in Nat \ {0},
         NEW i \in Nat, NEW b \in Nat, NEW o \in Nat, NEW t \in Nat, NEW q \in Nat,
         d * o <= t * i, (w + 1) * (t * i - d * b) <= e * (i * d), i <= q * w
  PROVE  o <= b + n * q
<1>1. d * (o - b) <= t * i - d * b
  <2>1. d * (o - b) = d * o - d * b OBVIOUS
  <2>2. d * o \in Int /\ d * b \in Int /\ t * i \in Int OBVIOUS
  <2> QED BY <2>1, <2>2
<1> DEFINE x == o - b
           g == t * i - d * b
<1>2. x \in Int /\ g \in Int /\ d * x <= g BY <1>1
<1>3. (w + 1) * g <= e * (i * d) OBVIOUS
<1>4. SUFFICES ASSUME n * q < x PROVE FALSE
  <2>1. n * q \in Int BY <1>2
  <2> QED BY <1>2, <2>1
<1>5. x \in Nat /\ x > 0
  <2>1. n * q \in Nat OBVIOUS
  <2> QED BY <1>2, <1>4, <2>1
<1> HIDE DEF x, g
<1>6. (w + 1) * (d * x) <= (w + 1) * g
  <2>1. d * x \in Int BY <1>2
  <2> QED BY <1>2, <2>1, TimesKeeps
<1>7. e * (i * d) <= d * (n * (q * w))
  <2>1. i * d <= (q * w) * d
    <3>1. q * w \in Int OBVIOUS
    <3>2. d * i <= d * (q * w) BY <3>1, TimesKeeps
    <3> QED BY <3>2
  <2>2. i * d \in Nat /\ (q * w) * d \in Int OBVIOUS
  <2>3. (i * d) * e <= (i * d) * n BY <2>2, TimesKeeps
  <2>4. n * (i * d) <= n * ((q * w) * d) BY <2>1, <2>2, TimesKeeps
  <2>5. n * ((q * w) * d) = d * (n * (q * w)) OBVIOUS
  <2>6. (i * d) * e = e * (i * d) /\ (i * d) * n = n * (i * d) OBVIOUS
  <2>7. e * (i * d) \in Int /\ n * (i * d) \in Int /\ n * ((q * w) * d) \in Int OBVIOUS
  <2> QED BY <2>3, <2>4, <2>5, <2>6, <2>7
<1>8. d * ((w + 1) * x) <= d * (w * (n * q))
  <2>1. (w + 1) * (d * x) = d * ((w + 1) * x) BY <1>2
  <2>2. d * (n * (q * w)) = d * (w * (n * q)) OBVIOUS
  <2>3. /\ (w + 1) * (d * x) \in Int /\ (w + 1) * g \in Int /\ e * (i * d) \in Int
        /\ d * (n * (q * w)) \in Int
    BY <1>2
  <2> QED BY <1>3, <1>6, <1>7, <2>1, <2>2, <2>3
<1>9. (w + 1) * x <= w * (n * q)
  <2>1. (w + 1) * x \in Int /\ w * (n * q) \in Int BY <1>2
  <2> QED BY <1>8, <2>1, TimesCancels
<1>10. w * (n * q) <= w * x
  <2>1. n * q \in Int OBVIOUS
  <2> QED BY <1>2, <1>4, <2>1, TimesKeeps
<1>11. (w + 1) * x = w * x + x BY <1>2
<1>12. w * x \in Int /\ w * (n * q) \in Int BY <1>2
<1> QED BY <1>2, <1>5, <1>9, <1>10, <1>11, <1>12

\* However many charges, loans and payoffs there were, at whatever rates, what
\* the open loans owe by the index exceeds the total debt by no more than a unit
\* for each charge, compounded since (accrue_interest, borrow, repay_for).
THEOREM DebtStaysSound == Spec => []DebtSound
<1>1. Init => BooksInv
  BY InterestAssumption DEF Init, BooksInv, TypeOK, OneCeiling, NoCeiling
<1>2. BooksInv /\ [Next]_vars => BooksInv' BY BooksStep
<1>3. BooksInv /\ RoundingCounted => DebtSound
  <2> SUFFICES ASSUME BooksInv, RoundingCounted PROVE IndexNeverOutrunsDebt
    BY DEF BooksInv, DebtSound
  <2> DEFINE Slack(d, s, e) == /\ Owing(loans, d, s) /\ Wad + e <= index
                               /\ Within(s[Len(loans)], d, index, debt, e)
  <2>1. PICK d, s : \E e \in 0..charges : Slack(d, s, e) BY DEF RoundingCounted
  <2>2. PICK e \in 0..charges : Slack(d, s, e) BY <2>1
  <2>3. /\ charges \in Nat /\ index \in Nat /\ debt \in Nat /\ Wad \in Nat \ {0}
        /\ e \in Nat /\ e <= charges
    BY InterestAssumption DEF RoundingCounted, BooksInv, TypeOK
  <2>4. d \in Nat \ {0} /\ s[Len(loans)] \in Nat
    <3>1. Len(loans) \in 0..Len(loans) BY DEF BooksInv
    <3> QED BY <2>2, <3>1 DEF Owing
  <2>5. OwedByIndex \in Nat /\ d * OwedByIndex <= s[Len(loans)] * index
    BY <2>2, OwedBelowUnits
  <2> DEFINE q == CeilDiv(index, Wad)
             t == s[Len(loans)]
             o == OwedByIndex
  <2>6. q \in Nat /\ index <= q * Wad BY <2>3, CeilDivBounds
  <2>7. (Wad + 1) * (t * index - d * debt) <= e * (index * d) BY <2>2 DEF Within
  <2> HIDE DEF q, t, o
  <2>8. o \in Nat /\ t \in Nat /\ d * o <= t * index BY <2>4, <2>5 DEF o, t
  <2>9. o <= debt + charges * q BY <2>3, <2>4, <2>6, <2>7, <2>8, UnitsAreSmall
  <2> QED BY <2>9 DEF o, q, IndexNeverOutrunsDebt
<1> QED BY <1>1, <1>2, <1>3, CountedInit, CountedStep, PTL DEF Spec
=============================================================================
