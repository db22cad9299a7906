------------------------------ MODULE Amortization ------------------------------
(***************************************************************************)
(* The four ways the core builds a repayment schedule: FLAT, DECLINING and *)
(* BALLOON of AmortizationEngine (core/financial-engine) and the annuity   *)
(* of buildAmortizationSchedule (core/Amortization.ts), called PMT here;   *)
(* and DebtRestructuringEngine, which builds one for what is left of an    *)
(* old debt. A step is one turn of a schedule loop. Of the rows pushed the *)
(* last is kept, and the sums totalCost makes of all of them.              *)
(***************************************************************************)
EXTENDS Integers

CONSTANTS
  Inputs,      \* schedules asked for: type, principal, annualRateBps, termMonths
  Originals,   \* debts in arrears with the waivers and terms they are given
  NoOriginal,  \* the schedule restructures nothing
  NoRow

Types == {"PMT", "FLAT", "DECLINING", "BALLOON"}
Input == [type : Types, principal : Nat, annualRateBps : Nat, termMonths : Nat]
Bps == 0 .. 10000   \* a share
Original == [principal : Nat, interest : Nat, penalties : Nat,
             interestWaiverBps : Bps, penaltyWaiverBps : Bps,
             newType : Types \ {"PMT"}, newRateBps : Nat, newTermMonths : Nat]
Row == [number : Nat, principal : Nat, interest : Nat, remaining : Nat]

ASSUME InputsAssumption ==
  /\ Inputs \subseteq Input /\ Originals \subseteq Original
  /\ NoOriginal \notin Original /\ NoRow \notin Row

VARIABLES
  original,        \* what restructure() was called with, if it was
  input,           \* what the generator was called with
  pmt,             \* monthlyPaymentMillimes (PMT only)
  phase,           \* "new", "building", "done" or "rejected"
  remaining,       \* remaining / remainingBalance
  row,             \* the row pushed last
  totalPrincipal, totalInterest

vars == <<original, input, pmt, phase, remaining, row, totalPrincipal, totalInterest>>

-----------------------------------------------------------------------------
\* waived = accrued * bps / 10000, in bigints
Waived(accrued, bps) == (accrued * bps) \div 10000
WaivedOf(o) ==
  Waived(o.interest, o.interestWaiverBps) + Waived(o.penalties, o.penaltyWaiverBps)
OriginalTotal(o) == o.principal + o.interest + o.penalties

\* The generator's input for a restructured debt: what was not waived becomes
\* the new principal.
Restructured(o) ==
  [type |-> o.newType, principal |-> OriginalTotal(o) - WaivedOf(o),
   annualRateBps |-> o.newRateBps, termMonths |-> o.newTermMonths]

\* The interest of a month on a balance: balance * bps / 120000, in bigints.
InterestOn(l, balance) == (balance * l.annualRateBps) \div 120000

\* calcPMT. Without interest it is floor(P / n) + 1. Otherwise it is the
\* ceiling, in doubles, of P*r*f / (f - 1) for f = (1 + r)^n, which lies above
\* P*r and P/n and at most at their sum: any whole number there.
MonthlyPayments(l) ==
  LET P == l.principal
      R == l.annualRateBps
      n == l.termMonths
  IN  IF R = 0 THEN {P \div n + 1}
      ELSE {x \in 0 .. (P * (R * n + 120000)) \div (120000 * n) + 1 :
              P * R <= x * 120000 /\ P <= x * n}

\* buildAmortizationSchedule throws on a bad principal or term; the engine
\* divides by the term in every generator but BALLOON's.
Rejected(l) ==
  CASE l.type = "PMT"     -> l.principal = 0 \/ l.termMonths = 0 \/ l.termMonths > 360
    [] l.type = "BALLOON" -> FALSE
    [] OTHER              -> l.termMonths = 0

\* The interest and, before the last month, the principal of a row.
InterestRoundedUp(l, balance) == InterestOn(l, balance) + 1      \* mutant
InterestDue(l, balance) ==
  IF l.type \in {"FLAT", "BALLOON"} THEN InterestOn(l, l.principal) ELSE InterestOn(l, balance)

PrincipalDue(l, balance, payment) ==
  CASE l.type = "BALLOON" -> 0
    [] l.type = "PMT"     -> IF payment - InterestOn(l, balance) > balance
                               THEN balance ELSE payment - InterestOn(l, balance)
    [] OTHER              -> l.principal \div l.termMonths

\* The last month takes the whole balance.
NoLastMonth(l, i, balance, payment) == PrincipalDue(l, balance, payment)   \* mutant
PrincipalOf(l, i, balance, payment) ==
  IF i = l.termMonths THEN balance ELSE PrincipalDue(l, balance, payment)

-----------------------------------------------------------------------------
Init ==
  /\ \/ original = NoOriginal /\ input \in Inputs
     \/ original \in Originals /\ input = Restructured(original)
  /\ pmt = 0
  /\ phase = "new"
  /\ remaining = input.principal
  /\ row = NoRow
  /\ totalPrincipal = 0
  /\ totalInterest = 0

\* The guards of the generator; a loop over no month is over at once.
Start ==
  /\ phase = "new"
  /\ phase' = IF Rejected(input) THEN "rejected"
              ELSE IF input.termMonths = 0 THEN "done" ELSE "building"
  /\ IF input.type = "PMT" /\ ~Rejected(input) THEN pmt' \in MonthlyPayments(input)
                                               ELSE pmt' = pmt
  /\ UNCHANGED <<original, input, remaining, row, totalPrincipal, totalInterest>>

\* One turn of the loop.
PushRow ==
  LET i == (IF row = NoRow THEN 0 ELSE row.number) + 1
      interest == InterestDue(input, remaining)
      principal == PrincipalOf(input, i, remaining, pmt)
  IN  /\ phase = "building"
      /\ remaining' = remaining - principal
      /\ row' = [number |-> i, principal |-> principal, interest |-> interest,
                 remaining |-> remaining - principal]
      /\ totalPrincipal' = totalPrincipal + principal
      /\ totalInterest' = totalInterest + interest
      /\ phase' = IF i = input.termMonths THEN "done" ELSE phase
      /\ UNCHANGED <<original, input, pmt>>

Next == Start \/ PushRow

Spec == Init /\ [][Next]_vars

\* savingsVsOriginal
Savings ==
  IF OriginalTotal(original) > totalPrincipal + totalInterest
    THEN OriginalTotal(original) - (totalPrincipal + totalInterest) ELSE 0

-----------------------------------------------------------------------------
\* Nothing is ever negative: no balance, no row of any schedule, no payment.
TypeOK ==
  /\ original \in Originals \cup {NoOriginal}
  /\ input \in Input
  /\ pmt \in Nat
  /\ phase \in {"new", "building", "done", "rejected"}
  /\ remaining \in Nat
  /\ row \in Row \cup {NoRow}
  /\ totalPrincipal \in Nat
  /\ totalInterest \in Nat

\* The rows of a schedule that was built repay the principal to the cent,
\* whatever was rounded on the way, and the last one says nothing is left.
RepaysPrincipalExactly ==
  (phase = "done" /\ input.termMonths > 0) =>
    totalPrincipal = input.principal /\ row.remaining = 0 /\ row.number = input.termMonths

\* No schedule charges more interest than FLAT would for the same months.
InterestAtMostFlat ==
  totalInterest <= (IF row = NoRow THEN 0 ELSE row.number) * InterestOn(input, input.principal)

\* What restructure reports as saved is what it waived less the interest of
\* the new schedule, and nothing when that interest eats the waiver up.
SavingsAreWaiverLessInterest ==
  (phase = "done" /\ original # NoOriginal /\ input.termMonths > 0) =>
    LET net == WaivedOf(original) - totalInterest
    IN  Savings = IF net > 0 THEN net ELSE 0
=============================================================================
