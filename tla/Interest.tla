------------------------------- MODULE Interest -------------------------------
(***************************************************************************)
(* The interest of the vault contract, soroban/contracts/vault/src/lib.rs:  *)
(* the two-slope rate curve and its ceiling, compounding per second, and    *)
(* the two figures it moves, the total debt and the borrow index.  The      *)
(* treasury prices each loan by the index and repays it against the total.  *)
(*                                                                         *)
(* Vault leaves the compound factor open; here it is computed, and of the   *)
(* rest of the vault only the idle USDC matters.  Abstracted: authorisation *)
(* and the pause, i128 overflow, and the cap of the elapsed seconds at      *)
(* u32::MAX (136 years).                                                    *)
(***************************************************************************)
EXTENDS Rounding, Sequences

CONSTANTS
  Wad,                      \* WAD_SCALE, the number 1.0
  BaseRate, Slope1, Slope2, \* of a year
  Optimal, Cap,             \* OPTIMAL_UTILIZATION, UTILIZATION_CAP
  Year,                     \* SECONDS_PER_YEAR
  Ceilings,                 \* inputs of set_max_borrow_rate
  Amounts,                  \* USDC amounts of calls
  Idle,                     \* USDC in the vault at the start
  MaxTime, MaxLoans, MaxDonated \* bounds

NoCeiling == 0

ASSUME InterestAssumption ==
  /\ Wad \in Nat \ {0} /\ Year \in Nat \ {0}
  /\ BaseRate \in Nat /\ Slope1 \in Nat /\ Slope2 \in Nat
  /\ Optimal \in 0..Wad /\ Cap \in 0..Wad
  /\ Ceilings \subseteq Nat \ {NoCeiling} /\ Amounts \subseteq Nat \ {0}
  /\ Idle \in Nat /\ MaxTime \in Nat /\ MaxLoans \in Nat /\ MaxDonated \in Nat

VARIABLES
  idle, debt, index, last, \* USDC held, TotalBorrowed, BorrowIndex, LastAccrualTime
  ceiling,                 \* MaxBorrowRate
  now,                     \* ledger timestamp
  loans,                   \* open loans: amount, and index when lent
  inForce, charges         \* history: ceilings of the seconds not charged yet,
                           \* and how often interest was charged

vars == <<idle, debt, index, last, ceiling, now, loans, inForce, charges>>

-----------------------------------------------------------------------------
(* The curve *)

WadMul(x, y) == FloorDiv(x * y, Wad)

\* Fault: above the optimum the first slope's share is forgotten.
CurveRateKinked(u) ==
  IF u <= Optimal THEN BaseRate + WadMul(u, Slope1)
                  ELSE BaseRate + WadMul(u - Optimal, Slope2)

CurveRate(u) ==
  IF u <= Optimal THEN BaseRate + WadMul(u, Slope1)
  ELSE BaseRate + WadMul(Optimal, Slope1) + WadMul(u - Optimal, Slope2)

Clamped(rate, c) == IF c = NoCeiling THEN rate ELSE Lesser(rate, c)

BorrowRate(u) == Clamped(CurveRate(u), ceiling)

PerSecond(rate) == FloorDiv(rate, Year)

\* The product of one-second factors (Wad::powi squares, so that its last
\* digit may differ).
Compound(factors) ==
  LET product[n \in 0..Len(factors)] ==
        IF n = 0 THEN Wad ELSE WadMul(product[n - 1], factors[n])
  IN product[Len(factors)]

Utilization(d, managed) == IF managed > 0 THEN FloorDiv(d * Wad, managed) ELSE 0

-----------------------------------------------------------------------------
(* accrue_interest *)

Elapsed == now - last
Factor ==
  Compound([s \in 1..Elapsed |->
              Wad + PerSecond(BorrowRate(Utilization(debt, debt + idle)))])

\* Fault: the debt carries simple interest while the index compounds.
ChargedSimply ==
  debt + WadMul(debt, Elapsed * PerSecond(BorrowRate(Utilization(debt, debt + idle))))

Charged == IF debt > 0 THEN WadMul(debt, Factor) ELSE debt
Indexed == IF debt > 0 THEN WadMul(index, Factor) ELSE index

ChargeInterest ==
  /\ index' = Indexed /\ last' = now /\ inForce' = <<>>
  /\ charges' = IF debt > 0 /\ now > last THEN charges + 1 ELSE charges

-----------------------------------------------------------------------------

Init ==
  /\ idle = Idle /\ debt = 0 /\ index = Wad /\ last = 0 /\ now = 0
  /\ ceiling = NoCeiling /\ loans = <<>> /\ inForce = <<>> /\ charges = 0

Accrue ==
  /\ ChargeInterest /\ debt' = Charged
  /\ UNCHANGED <<idle, ceiling, now, loans>>

Borrow(amount) ==
  /\ Len(loans) < MaxLoans
  /\ Charged + idle > 0
  /\ Utilization(Charged + amount, Charged + idle) <= Cap /\ amount <= idle
  /\ ChargeInterest
  /\ debt' = Charged + amount /\ idle' = idle - amount
  /\ loans' = Append(loans, [amount |-> amount, at |-> Indexed])
  /\ UNCHANGED <<ceiling, now>>

\* What a loan owes when the index stands at i.
Payoff(loan, i) == FloorDiv(loan.amount * i, loan.at)

\* repay_for of a loan's debt at the current index.
RepayLoan(k) ==
  LET amount == Payoff(loans[k], Indexed) IN
  /\ amount <= Charged
  /\ ChargeInterest
  /\ debt' = Charged - amount /\ idle' = idle + amount
  /\ loans' = SubSeq(loans, 1, k - 1) \o SubSeq(loans, k + 1, Len(loans))
  /\ UNCHANGED <<ceiling, now>>

\* Fault: the new ceiling is stored before the interest due is charged.
SetMaxBorrowRateFirst(rate) ==
  /\ rate > 0 /\ ceiling' = rate
  /\ UNCHANGED <<idle, debt, index, last, now, loans, inForce, charges>>

SetMaxBorrowRate(rate) ==
  /\ rate > 0 /\ ceiling' = rate
  /\ ChargeInterest /\ debt' = Charged
  /\ UNCHANGED <<idle, now, loans>>

\* A plain transfer to the contract charges nothing.
Donate(amount) ==
  /\ idle + amount <= MaxDonated /\ idle' = idle + amount
  /\ UNCHANGED <<debt, index, last, ceiling, now, loans, inForce, charges>>

Tick ==
  /\ now < MaxTime /\ now' = now + 1
  /\ inForce' = Append(inForce, ceiling)
  /\ UNCHANGED <<idle, debt, index, last, ceiling, loans, charges>>

Next ==
  \/ Accrue \/ Tick
  \/ \E amount \in Amounts : Borrow(amount) \/ Donate(amount)
  \/ \E k \in DOMAIN loans : RepayLoan(k)
  \/ \E rate \in Ceilings : SetMaxBorrowRate(rate)

Spec == Init /\ [][Next]_vars

-----------------------------------------------------------------------------
(* Properties *)

\* Figures are naturals, the index never falls below 1.0 and every second since
\* the last charge is accounted for.
TypeOK ==
  /\ idle \in Nat /\ debt \in Nat /\ index \in Nat /\ index >= Wad
  /\ last \in 0..now /\ Len(inForce) = now - last
  /\ ceiling \in Ceilings \cup {NoCeiling}

\* The rate charged never falls as utilization rises, and has no jump: not at
\* the kink of the curve, and not where the ceiling cuts it off.
RateHasNoJump ==
  \A u \in 0..(Wad - 1) :
    BorrowRate(u + 1) - BorrowRate(u) \in 0..CeilDiv(Later(Slope1, Slope2), Wad)

\* As TLC checks it: the rate depends on the ceiling alone, and every ceiling
\* can be set in the first second.
RateShape == now = 0 => RateHasNoJump

\* No second is charged above the ceiling that was in force in it, whatever
\* ceiling is set afterwards (set_max_borrow_rate accrues first).
CeilingHonoured ==
  [][ (last' # last /\ \A s \in DOMAIN inForce : inForce[s] # NoCeiling)
      => index' <= WadMul(index,
                     Compound([s \in DOMAIN inForce |-> Wad + PerSecond(inForce[s])]))
    ]_vars

\* What the loans owe by the index exceeds the total debt by no more than the
\* rounding of the charges made: a unit each, compounded since.  Beyond that
\* repay would refuse the last loan's payoff as more than the debt.
OwedByIndex ==
  LET sum[n \in 0..Len(loans)] ==
        IF n = 0 THEN 0 ELSE sum[n - 1] + Payoff(loans[n], index)
  IN sum[Len(loans)]
IndexNeverOutrunsDebt == OwedByIndex <= debt + charges * CeilDiv(index, Wad)

\* The books of the debt: typed, and enough for every loan to be paid off.
DebtSound == TypeOK /\ IndexNeverOutrunsDebt
=============================================================================
