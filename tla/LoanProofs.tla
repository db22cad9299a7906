------------------------------ MODULE LoanProofs ------------------------------
(***************************************************************************)
(* The arithmetic of a loan, for all its numbers. The schedule generators, *)
(* for every principal, rate, term and waiver: no balance is negative or   *)
(* rises, and the rows repay the principal exactly; LoopInv is the loop    *)
(* invariant that carries all of it. The waterfall, for every payment and  *)
(* every debt: WaterfallInv says what holds between two stages, the        *)
(* buckets still to come have got nothing, and once a bucket was left      *)
(* short there is no money for a later one. The books of a loan, for any   *)
(* number of payments and reversals: LoanInv says which entries there are  *)
(* and what each of them did to every account. And the schedules on        *)
(* record, however often their saving broke: SavedInv says which rows the  *)
(* table can have.                                                         *)
(***************************************************************************)
EXTENDS SavedSchedules, LoanJournal, SumTheorems

Pushed == IF row = NoRow THEN 0 ELSE row.number

\* What is left after k rows, by the kind of schedule.
BalanceInv ==
  /\ input.type \in {"FLAT", "DECLINING"} =>
       remaining = input.principal - Pushed * (input.principal \div input.termMonths)
  /\ input.type = "BALLOON" => remaining = input.principal
  /\ input.type = "PMT" => input.principal * input.annualRateBps <= pmt * 120000

LoopInv ==
  /\ TypeOK
  /\ original # NoOriginal => input = Restructured(original)
  /\ totalPrincipal + remaining = input.principal
  /\ totalInterest <= Pushed * InterestOn(input, input.principal)
  /\ phase = "new" => row = NoRow /\ totalPrincipal = 0 /\ totalInterest = 0
  /\ phase = "building" => Pushed < input.termMonths /\ BalanceInv
  /\ (phase = "done" /\ input.termMonths > 0) =>
       remaining = 0 /\ row # NoRow /\ row.remaining = 0 /\ row.number = input.termMonths

-----------------------------------------------------------------------------
LEMMA Times ==
  ASSUME NEW a \in Nat, NEW b \in Nat, NEW c \in Nat, a <= b
  PROVE  a * c <= b * c /\ a * c \in Nat
OBVIOUS

\* Division by a positive number rounds down, and keeps the order.
LEMMA Quotient ==
  ASSUME NEW a \in Nat, NEW b \in Nat, b > 0
  PROVE  a \div b \in Nat /\ (a \div b) * b <= a
OBVIOUS

LEMMA QuotientMonotone ==
  ASSUME NEW a \in Nat, NEW b \in Nat, a <= b
  PROVE  a \div 120000 <= b \div 120000
OBVIOUS

\* k equal parts of P never exceed it while fewer than n are taken.
LEMMA PartsFit ==
  ASSUME NEW P \in Nat, NEW n \in Nat, NEW k \in Nat, k <= n, n > 0
  PROVE  k * (P \div n) <= P
<1>1. P \div n \in Nat /\ (P \div n) * n <= P
  BY Quotient
<1> DEFINE q == P \div n
<1>2. q \in Nat /\ q * n <= P
  BY <1>1
<1> HIDE DEF q
<1>3. k * q <= n * q
  BY <1>2, Times
<1>4. k * q <= P
  BY <1>2, <1>3
<1> QED BY <1>4 DEF q

LEMMA InterestType ==
  ASSUME NEW l \in Input, NEW b \in Nat, b <= l.principal
  PROVE  /\ InterestOn(l, b) \in Nat
         /\ InterestOn(l, b) <= InterestOn(l, l.principal)
         /\ InterestOn(l, l.principal) \in Nat
<1>1. l.principal \in Nat /\ l.annualRateBps \in Nat
  BY DEF Input
<1>2. b * l.annualRateBps <= l.principal * l.annualRateBps
      /\ b * l.annualRateBps \in Nat /\ l.principal * l.annualRateBps \in Nat
  BY <1>1, Times
<1> DEFINE x == b * l.annualRateBps
           y == l.principal * l.annualRateBps
<1>3. x \in Nat /\ y \in Nat /\ x <= y
  BY <1>2
<1>4. InterestOn(l, b) = x \div 120000 /\ InterestOn(l, l.principal) = y \div 120000
  BY DEF InterestOn
<1> HIDE DEF x, y
<1>5. x \div 120000 \in Nat /\ y \div 120000 \in Nat /\ x \div 120000 <= y \div 120000
  BY <1>3
<1> QED BY <1>4, <1>5

\* At most the whole of what accrued is waived.
LEMMA WaivedWithin ==
  ASSUME NEW a \in Nat, NEW bps \in Bps
  PROVE  Waived(a, bps) \in Nat /\ Waived(a, bps) <= a
<1>0. bps \in 0 .. 10000
  BY DEF Bps
<1>1. bps * a <= 10000 * a /\ bps * a \in Nat
  BY <1>0, Times
<1> DEFINE x == a * bps
<1>2. x \in Nat /\ x <= 10000 * a
  <2>1. bps \in Nat
    BY <1>0
  <2>2. \A m, n \in Nat : m * n = n * m
    OBVIOUS
  <2> HIDE DEF x
  <2>3. x = bps * a
    BY <2>1, <2>2 DEF x
  <2> QED BY <1>1, <2>3
<1>3. Waived(a, bps) = x \div 10000
  BY DEF Waived
<1> HIDE DEF x
<1>4. x \div 10000 \in Nat /\ x \div 10000 <= a
  BY <1>2
<1> QED BY SMTT(30), <1>3, <1>4

LEMMA RestructuredType ==
  ASSUME NEW o \in Original
  PROVE  /\ Restructured(o) \in Input
         /\ WaivedOf(o) \in Nat /\ WaivedOf(o) <= o.interest + o.penalties
<1>1. /\ o.principal \in Nat /\ o.interest \in Nat /\ o.penalties \in Nat
      /\ o.interestWaiverBps \in Bps /\ o.penaltyWaiverBps \in Bps
      /\ o.newType \in Types /\ o.newRateBps \in Nat /\ o.newTermMonths \in Nat
  BY DEF Original
<1>2. WaivedOf(o) \in Nat /\ WaivedOf(o) <= o.interest + o.penalties
  <2>1. /\ Waived(o.interest, o.interestWaiverBps) \in Nat
        /\ Waived(o.interest, o.interestWaiverBps) <= o.interest
    BY <1>1, WaivedWithin
  <2>2. /\ Waived(o.penalties, o.penaltyWaiverBps) \in Nat
        /\ Waived(o.penalties, o.penaltyWaiverBps) <= o.penalties
    BY <1>1, WaivedWithin
  <2> QED BY SMTT(30), <1>1, <2>1, <2>2 DEF WaivedOf
<1>3. OriginalTotal(o) - WaivedOf(o) \in Nat
  BY <1>1, <1>2 DEF OriginalTotal
<1> QED BY <1>1, <1>2, <1>3 DEF Restructured, Input

\* What a turn of the loop takes off the balance is between nothing and all.
LEMMA PartWithinBalance ==
  ASSUME LoopInv, phase = "building", NEW i, i = Pushed + 1
  PROVE  /\ PrincipalOf(input, i, remaining, pmt) \in 0 .. remaining
         /\ i # input.termMonths /\ input.type \in {"FLAT", "DECLINING"} =>
              PrincipalOf(input, i, remaining, pmt) = input.principal \div input.termMonths
         /\ i # input.termMonths /\ input.type = "BALLOON" =>
              PrincipalOf(input, i, remaining, pmt) = 0
<1>1. /\ input \in Input /\ remaining \in Nat /\ pmt \in Nat /\ remaining <= input.principal
      /\ input.principal \in Nat /\ input.termMonths \in Nat /\ input.type \in Types
      /\ Pushed \in Nat /\ Pushed < input.termMonths /\ BalanceInv
  BY InputsAssumption DEF LoopInv, TypeOK, Input, Row, Pushed
<1>2. CASE i = input.termMonths
  BY <1>1, <1>2 DEF PrincipalOf
<1>3. CASE i # input.termMonths /\ input.type \in {"FLAT", "DECLINING"}
  <2> DEFINE q == input.principal \div input.termMonths
  <2>1. q \in Nat
    BY <1>1, Quotient
  <2>2. (Pushed + 1) * q <= input.principal
    BY <1>1, PartsFit
  <2>3. remaining = input.principal - Pushed * q
    BY <1>1, <1>3 DEF BalanceInv
  <2>4. PrincipalOf(input, i, remaining, pmt) = q
    BY <1>3 DEF PrincipalOf, PrincipalDue
  <2> HIDE DEF q
  <2>5. (Pushed + 1) * q = Pushed * q + q
    BY <1>1, <2>1
  <2>6. Pushed * q \in Nat
    BY <1>1, <2>1
  <2>7. q <= remaining
    BY <1>1, <2>1, <2>2, <2>3, <2>5, <2>6
  <2>8. PrincipalOf(input, i, remaining, pmt) \in 0 .. remaining
    BY <1>1, <2>1, <2>4, <2>7
  <2> QED BY <1>3, <2>4, <2>8 DEF q
<1>4. CASE i # input.termMonths /\ input.type = "BALLOON"
  BY <1>1, <1>4 DEF PrincipalOf, PrincipalDue
<1>5. CASE i # input.termMonths /\ input.type = "PMT"
  <2>1. input.annualRateBps \in Nat
    BY <1>1 DEF Input
  <2>2. InterestOn(input, remaining) \in Nat
        /\ InterestOn(input, remaining) <= InterestOn(input, input.principal)
    BY <1>1, InterestType
  <2>3. InterestOn(input, input.principal) <= pmt
    <3>1. input.principal * input.annualRateBps <= pmt * 120000
      BY <1>1, <1>5 DEF BalanceInv
    <3>2. input.principal * input.annualRateBps \in Nat
      BY <1>1, <2>1
    <3> QED BY <1>1, <3>1, <3>2 DEF InterestOn
  <2>4. InterestOn(input, remaining) <= pmt
    BY <1>1, <2>2, <2>3, InterestType
  <2> HIDE DEF InterestOn
  <2> QED BY <1>1, <1>5, <2>2, <2>4 DEF PrincipalOf, PrincipalDue
<1> QED BY <1>1, <1>2, <1>3, <1>4, <1>5 DEF Types

-----------------------------------------------------------------------------
LEMMA InitLoopInv == Init => LoopInv
<1> SUFFICES ASSUME Init PROVE LoopInv
  OBVIOUS
<1>1. input \in Input /\ (original # NoOriginal => input = Restructured(original))
      /\ original \in Originals \cup {NoOriginal}
  BY InputsAssumption, RestructuredType DEF Init
<1>2. InterestOn(input, input.principal) \in Nat /\ input.principal \in Nat
  BY <1>1, InterestType DEF Input
<1> QED BY <1>1, <1>2 DEF Init, LoopInv, TypeOK, Pushed

LEMMA StartLoopInv == LoopInv /\ Start => LoopInv'
<1> SUFFICES ASSUME LoopInv, Start PROVE LoopInv'
  OBVIOUS
<1>1. /\ TypeOK /\ row = NoRow /\ Pushed = 0 /\ input.principal \in Nat
      /\ totalPrincipal = 0 /\ totalInterest = 0 /\ remaining = input.principal
      /\ input.annualRateBps \in Nat /\ input.termMonths \in Nat /\ input.type \in Types
  BY DEF LoopInv, Start, Pushed, TypeOK, Input
<1>2. Pushed' = 0 /\ UNCHANGED <<original, input, remaining, row, totalPrincipal, totalInterest>>
  BY <1>1 DEF Start, Pushed
<1>3. pmt' \in Nat /\ phase' \in {"building", "done", "rejected"}
  <2>1. phase' \in {"building", "done", "rejected"}
    BY DEF Start
  <2>2. CASE input.type = "PMT" /\ ~Rejected(input)
    <3>1. input.termMonths > 0 /\ pmt' \in MonthlyPayments(input)
      BY <1>1, <2>2 DEF Start, Rejected
    <3>2. input.principal \div input.termMonths \in Nat
      BY <1>1, <3>1, Quotient
    <3>3. CASE input.annualRateBps = 0
      BY <2>1, <3>1, <3>2, <3>3 DEF MonthlyPayments
    <3>4. CASE input.annualRateBps # 0
      BY <2>1, <3>1, <3>4 DEF MonthlyPayments
    <3> QED BY <3>3, <3>4
  <2>3. CASE ~(input.type = "PMT" /\ ~Rejected(input))
    BY <1>1, <2>3 DEF Start, TypeOK
  <2> QED BY <2>1, <2>2, <2>3
<1>4. TypeOK'
  BY <1>1, <1>2, <1>3 DEF TypeOK
<1>5. ASSUME phase' = "building" PROVE Pushed' < input'.termMonths /\ BalanceInv'
  <2>1. ~Rejected(input) /\ input.termMonths > 0
    BY <1>1, <1>5 DEF Start
  <2>2. ASSUME input.type = "PMT" PROVE input.principal * input.annualRateBps <= pmt' * 120000
    <3>1. pmt' \in MonthlyPayments(input)
      BY <2>1, <2>2 DEF Start
    <3>2. CASE input.annualRateBps = 0
      BY <1>1, <1>3, <3>2
    <3>3. CASE input.annualRateBps # 0
      BY <3>1, <3>3 DEF MonthlyPayments
    <3> QED BY <3>2, <3>3
  <2>3. ASSUME input.type \in {"FLAT", "DECLINING"}
        PROVE  remaining' = input.principal - 0 * (input.principal \div input.termMonths)
    <3>1. input.principal \div input.termMonths \in Nat
      BY <1>1, <2>1, Quotient
    <3> QED BY <1>1, <1>2, <3>1
  <2> QED BY <1>1, <1>2, <2>1, <2>2, <2>3 DEF BalanceInv
<1>6. phase' = "done" => input'.termMonths = 0
  BY <1>1, <1>2 DEF Start
<1>7. /\ (original # NoOriginal => input = Restructured(original))'
      /\ (totalPrincipal + remaining = input.principal)'
      /\ (totalInterest <= Pushed * InterestOn(input, input.principal))'
  BY <1>1, <1>2 DEF LoopInv
<1> QED BY <1>2, <1>3, <1>4, <1>5, <1>6, <1>7 DEF LoopInv

LEMMA PushRowLoopInv == LoopInv /\ PushRow => LoopInv' /\ remaining' <= remaining
<1> SUFFICES ASSUME LoopInv, PushRow PROVE LoopInv' /\ remaining' <= remaining
  OBVIOUS
<1> DEFINE i == Pushed + 1
           part == PrincipalOf(input, i, remaining, pmt)
           charge == InterestDue(input, remaining)
           cap == InterestOn(input, input.principal)
<1>1. /\ TypeOK /\ phase = "building" /\ BalanceInv
      /\ input \in Input /\ input.principal \in Nat /\ input.termMonths \in Nat
      /\ Pushed \in Nat /\ Pushed < input.termMonths
      /\ remaining \in Nat /\ totalPrincipal \in Nat /\ totalInterest \in Nat
      /\ totalPrincipal + remaining = input.principal
      /\ totalInterest <= Pushed * cap
  BY InputsAssumption DEF LoopInv, PushRow, TypeOK, Input, Row, Pushed
<1>2. /\ part \in 0 .. remaining
      /\ (i # input.termMonths /\ input.type \in {"FLAT", "DECLINING"}) =>
           part = input.principal \div input.termMonths
      /\ (i # input.termMonths /\ input.type = "BALLOON") => part = 0
      /\ i = input.termMonths => part = remaining
  BY <1>1, PartWithinBalance DEF PrincipalOf
<1>3. charge \in Nat /\ charge <= cap /\ cap \in Nat
  <2>1. remaining <= input.principal /\ input.principal <= input.principal
    BY <1>1
  <2>2. InterestOn(input, remaining) \in Nat /\ InterestOn(input, remaining) <= cap /\ cap \in Nat
    BY <1>1, <2>1, InterestType
  <2>3. charge = InterestOn(input, remaining) \/ charge = cap
    BY DEF InterestDue
  <2> QED BY <2>2, <2>3
<1>4. /\ remaining' = remaining - part
      /\ row' = [number |-> i, principal |-> part, interest |-> charge,
                 remaining |-> remaining - part]
      /\ totalPrincipal' = totalPrincipal + part
      /\ totalInterest' = totalInterest + charge
      /\ phase' = IF i = input.termMonths THEN "done" ELSE phase
      /\ UNCHANGED <<original, input, pmt>>
  BY DEF PushRow, Pushed
<1> HIDE DEF part, charge, cap
<1>5. row' \in Row /\ row' # NoRow /\ Pushed' = i /\ row'.number = i
      /\ row'.remaining = remaining - part
  <2>1. row' \in Row /\ row'.number = i /\ row'.remaining = remaining - part
    BY <1>1, <1>2, <1>3, <1>4 DEF Row
  <2>2. row' # NoRow
    BY <2>1, InputsAssumption
  <2> QED BY <2>1, <2>2 DEF Pushed
<1>6. TypeOK'
  BY <1>1, <1>2, <1>3, <1>4, <1>5 DEF TypeOK
<1>7. (totalInterest <= Pushed * InterestOn(input, input.principal))'
  <2>1. (Pushed + 1) * cap = Pushed * cap + cap /\ Pushed * cap \in Nat
    BY <1>1, <1>3
  <2>2. totalInterest + charge <= (Pushed + 1) * cap
    BY <1>1, <1>3, <2>1
  <2> QED BY <1>4, <1>5, <2>2 DEF cap
<1>8. ASSUME phase' = "building" PROVE Pushed' < input'.termMonths /\ BalanceInv'
  <2>1. i # input.termMonths
    BY <1>4, <1>8
  <2>2. Pushed' < input'.termMonths
    BY <1>1, <1>4, <1>5, <2>1
  <2>3. ASSUME input.type \in {"FLAT", "DECLINING"}
        PROVE  remaining' = input.principal - i * (input.principal \div input.termMonths)
    <3> DEFINE q == input.principal \div input.termMonths
    <3>1. q \in Nat
      BY <1>1, Quotient
    <3>2. remaining = input.principal - Pushed * q /\ part = q
      BY <1>1, <1>2, <2>1, <2>3 DEF BalanceInv
    <3> HIDE DEF q
    <3>3. i * q = Pushed * q + q /\ Pushed * q \in Nat
      BY <1>1, <3>1
    <3>4. remaining' = input.principal - i * q
      BY <1>1, <1>4, <3>1, <3>2, <3>3
    <3> QED BY <3>4 DEF q
  <2>4. input.type = "BALLOON" => remaining' = input.principal
    BY <1>1, <1>2, <1>4, <2>1 DEF BalanceInv
  <2>5. input.type = "PMT" => input.principal * input.annualRateBps <= pmt * 120000
    BY <1>1 DEF BalanceInv
  <2> HIDE DEF i
  <2>6. BalanceInv'
    BY <1>4, <1>5, <2>3, <2>4, <2>5 DEF BalanceInv
  <2> QED BY <2>2, <2>6
<1>9. ASSUME phase' = "done"
      PROVE  remaining' = 0 /\ row'.remaining = 0 /\ row'.number = input'.termMonths
  <2>1. i = input.termMonths
    BY <1>1, <1>4, <1>9
  <2> QED BY <1>1, <1>2, <1>4, <1>5, <2>1
<1>10. phase' # "new"
  BY <1>1, <1>4
<1>11. totalPrincipal' + remaining' = input'.principal /\ remaining' <= remaining
  BY <1>1, <1>2, <1>4
<1>12. original' # NoOriginal => input' = Restructured(original')
  BY <1>4 DEF LoopInv
<1> QED BY <1>5, <1>6, <1>7, <1>8, <1>9, <1>10, <1>11, <1>12 DEF LoopInv

LEMMA NextLoopInv == LoopInv /\ [Next]_vars => LoopInv'
<1>1. LoopInv /\ UNCHANGED vars => LoopInv'
  BY DEF vars, LoopInv, TypeOK, Pushed, BalanceInv
<1> QED BY <1>1, StartLoopInv, PushRowLoopInv DEF Next

\* The loop invariant holds throughout.
THEOREM LoopInvariant == Spec => []LoopInv
BY InitLoopInv, NextLoopInv, PTL DEF Spec

-----------------------------------------------------------------------------
\* For every input the generators compute with naturals: no balance, row or
\* payment is negative, a restructured debt's new principal included.
THEOREM NothingNegative == Spec => []TypeOK
<1>1. LoopInv => TypeOK
  BY DEF LoopInv
<1> QED BY <1>1, LoopInvariant, PTL

\* Every schedule that was built repays its principal exactly.
THEOREM ScheduleRepaysPrincipal == Spec => []RepaysPrincipalExactly
<1>1. LoopInv => RepaysPrincipalExactly
  BY DEF LoopInv, TypeOK, Input, RepaysPrincipalExactly
<1> QED BY <1>1, LoopInvariant, PTL

\* No schedule charges more than flat interest.
THEOREM FlatIsTheCeiling == Spec => []InterestAtMostFlat
<1>1. LoopInv => InterestAtMostFlat
  BY DEF LoopInv, Pushed, InterestAtMostFlat
<1> QED BY <1>1, LoopInvariant, PTL

\* A restructuring saves what was waived less the interest it adds, never a
\* negative amount.
THEOREM RestructuringSavings == Spec => []SavingsAreWaiverLessInterest
<1>1. LoopInv => SavingsAreWaiverLessInterest
  <2> SUFFICES ASSUME LoopInv, phase = "done", original # NoOriginal, input.termMonths > 0
               PROVE  LET net == WaivedOf(original) - totalInterest
                      IN  Savings = IF net > 0 THEN net ELSE 0
    BY DEF SavingsAreWaiverLessInterest
  <2>1. original \in Original /\ input = Restructured(original)
    BY InputsAssumption DEF LoopInv, TypeOK
  <2>2. WaivedOf(original) \in Nat
    BY <2>1, RestructuredType
  <2>3. OriginalTotal(original) \in Nat
    BY SMTT(30), <2>1 DEF OriginalTotal, Original
  <2>4. totalPrincipal = OriginalTotal(original) - WaivedOf(original)
    <3>1. totalPrincipal = input.principal
      BY DEF LoopInv, TypeOK, Input
    <3> QED BY <2>1, <3>1 DEF Restructured
  <2>5. totalInterest \in Nat
    BY DEF LoopInv, TypeOK
  <2> QED BY <2>2, <2>3, <2>4, <2>5 DEF Savings
<1> QED BY <1>1, LoopInvariant, PTL
-----------------------------------------------------------------------------
WaterfallInv ==
  /\ WaterfallTypeOK
  /\ Conserves
  /\ stage < 4 => paid["principal"] = 0
  /\ stage < 3 => paid["interest"] = 0
  /\ stage < 2 => paid["penalty"] = 0
  /\ (stage > 1 /\ left > 0) => paid["penalty"] = demand.owed["penalty"]
  /\ (stage > 2 /\ left > 0) => paid["interest"] = demand.owed["interest"]
  /\ (stage > 3 /\ left > 0) => paid["principal"] = demand.owed["principal"]
  /\ SeniorFirst

\* takeUpTo gives the smaller of what there is and what is owed.
LEMMA TakesWithinBoth ==
  ASSUME NEW available \in Nat, NEW claim \in Nat
  PROVE  LET take == takeUpTo(available, claim)
         IN  /\ take \in Nat /\ take <= claim /\ take <= available
             /\ take = claim \/ take = available
BY DEF takeUpTo

LEMMA OrderIs ==
  /\ Len(Order) = 3
  /\ Order[1] = "penalty" /\ Order[2] = "interest" /\ Order[3] = "principal"
BY DEF Order

LEMMA InitWaterfall == WaterfallInit => WaterfallInv
BY DemandsAssumption, OrderIs
DEF WaterfallInit, WaterfallInv, WaterfallTypeOK, Conserves, SeniorFirst, SumOf, WaterfallInput, Buckets

LEMMA AllocateWaterfall == WaterfallInv /\ Allocate => WaterfallInv'
<1> SUFFICES ASSUME WaterfallInv, Allocate PROVE WaterfallInv'
  OBVIOUS
<1> DEFINE b == Order[stage]
           claim == demand.owed[b]
           take == takeUpTo(left, claim)
<1>1. /\ demand \in WaterfallInput /\ left \in Nat /\ paid \in [Buckets -> Nat]
      /\ demand.owed \in [Buckets -> Nat] /\ demand.payment \in Nat
      /\ stage \in 1 .. 3
  BY OrderIs DEF WaterfallInv, WaterfallTypeOK, Allocate, WaterfallInput
<1>2. b \in Buckets /\ claim \in Nat
  BY <1>1, OrderIs DEF Buckets
<1>3. take \in Nat /\ take <= claim /\ take <= left /\ (take = claim \/ take = left)
  BY <1>1, <1>2, TakesWithinBoth
<1>4. /\ paid' = [paid EXCEPT ![b] = take]
      /\ left' = left - take /\ stage' = stage + 1 /\ demand' = demand
  BY DEF Allocate
<1> HIDE DEF take
<1>5. WaterfallTypeOK'
  BY <1>1, <1>2, <1>3, <1>4, OrderIs DEF WaterfallTypeOK
<1>6. CASE stage = 1
  <2>1. b = "penalty" /\ paid'["penalty"] = take /\ paid["penalty"] = 0
        /\ paid'["interest"] = 0 /\ paid'["principal"] = 0
    BY <1>1, <1>4, <1>6, OrderIs DEF WaterfallInv, Buckets
  <2> QED BY <1>1, <1>3, <1>4, <1>5, <1>6, <2>1
       DEF WaterfallInv, Conserves, SeniorFirst, SumOf, Buckets
<1>7. CASE stage = 2
  <2>1. b = "interest" /\ paid'["interest"] = take /\ paid["interest"] = 0
        /\ paid'["penalty"] = paid["penalty"] /\ paid'["principal"] = 0
    BY <1>1, <1>4, <1>7, OrderIs DEF WaterfallInv, Buckets
  <2> QED BY <1>1, <1>3, <1>4, <1>5, <1>7, <2>1
       DEF WaterfallInv, Conserves, SeniorFirst, SumOf, Buckets
<1>8. CASE stage = 3
  <2>1. b = "principal" /\ paid'["principal"] = take /\ paid["principal"] = 0
        /\ paid'["penalty"] = paid["penalty"] /\ paid'["interest"] = paid["interest"]
    BY <1>1, <1>4, <1>8, OrderIs DEF WaterfallInv, Buckets
  <2> QED BY <1>1, <1>3, <1>4, <1>5, <1>8, <2>1
       DEF WaterfallInv, Conserves, SeniorFirst, SumOf, Buckets
<1> QED BY <1>1, <1>6, <1>7, <1>8

LEMMA NextWaterfall == WaterfallInv /\ [WaterfallNext]_waterfallVars => WaterfallInv'
<1>1. WaterfallInv /\ UNCHANGED waterfallVars => WaterfallInv'
  BY DEF waterfallVars, WaterfallInv, WaterfallTypeOK, Conserves, SeniorFirst, SumOf
<1> QED BY <1>1, AllocateWaterfall DEF WaterfallNext

\* The waterfall invariant holds throughout.
THEOREM WaterfallInvariant == WaterfallSpec => []WaterfallInv
BY InitWaterfall, NextWaterfall, PTL DEF WaterfallSpec

-----------------------------------------------------------------------------
\* No part of a payment and no change is ever negative.
THEOREM PartsAreNatural == WaterfallSpec => []WaterfallTypeOK
<1>1. WaterfallInv => WaterfallTypeOK
  BY DEF WaterfallInv
<1> QED BY <1>1, WaterfallInvariant, PTL

\* The parts and the change add up to the payment; nothing is overpaid.
THEOREM PaymentConserved == WaterfallSpec => []Conserves
<1>1. WaterfallInv => Conserves
  BY DEF WaterfallInv
<1> QED BY <1>1, WaterfallInvariant, PTL

\* Penalties come before interest, and interest before principal.
THEOREM SeniorityKept == WaterfallSpec => []SeniorFirst
<1>1. WaterfallInv => SeniorFirst
  BY DEF WaterfallInv
<1> QED BY <1>1, WaterfallInvariant, PTL

LEMMA SettledWhenCovered == WaterfallInv => SettledExactlyWhenCovered
<1> SUFFICES ASSUME WaterfallInv, Done
             PROVE  /\ isFullySettled <=> demand.payment >= SumOf(demand.owed)
                    /\ left > 0 => isFullySettled
                    /\ left = IF isFullySettled THEN demand.payment - SumOf(demand.owed) ELSE 0
  BY DEF SettledExactlyWhenCovered
<1>1. stage = 4 /\ left \in Nat /\ demand.payment \in Nat
  BY OrderIs DEF WaterfallInv, WaterfallTypeOK, Done, WaterfallInput
<1>2. \A b \in Buckets : demand.owed[b] \in Nat /\ paid[b] \in Nat /\ paid[b] <= demand.owed[b]
  BY DEF WaterfallInv, WaterfallTypeOK, Conserves, WaterfallInput
<1>3. /\ demand.owed["penalty"] \in Nat /\ paid["penalty"] \in Nat
      /\ paid["penalty"] <= demand.owed["penalty"]
      /\ demand.owed["interest"] \in Nat /\ paid["interest"] \in Nat
      /\ paid["interest"] <= demand.owed["interest"]
      /\ demand.owed["principal"] \in Nat /\ paid["principal"] \in Nat
      /\ paid["principal"] <= demand.owed["principal"]
  BY <1>2 DEF Buckets
<1>4. /\ SumOf(paid) + left = demand.payment
      /\ left > 0 => /\ paid["penalty"] = demand.owed["penalty"]
                     /\ paid["interest"] = demand.owed["interest"]
                     /\ paid["principal"] = demand.owed["principal"]
  BY <1>1 DEF WaterfallInv, Conserves
<1> DEFINE owes == SumOf(demand.owed)
           gets == SumOf(paid)
<1>5. owes \in Nat /\ gets \in Nat /\ gets <= owes
  BY <1>3 DEF SumOf
<1>6. left > 0 => gets = owes
  BY <1>3, <1>4 DEF SumOf
<1>7. isFullySettled <=> owes - gets = 0
  BY DEF isFullySettled, remainingDebt
<1>8. gets + left = demand.payment
  BY <1>4
<1> HIDE DEF owes, gets
<1>9. isFullySettled <=> gets = owes
  BY <1>5, <1>7
<1>10. CASE gets = owes
  BY <1>1, <1>5, <1>8, <1>9, <1>10 DEF owes
<1>11. CASE gets # owes
  BY <1>1, <1>5, <1>6, <1>8, <1>9, <1>11 DEF owes
<1> QED BY <1>10, <1>11

\* A debt is reported settled exactly when the payment covers it, and only
\* then is there change.
THEOREM SettledMeansCovered == WaterfallSpec => []SettledExactlyWhenCovered
BY SettledWhenCovered, WaterfallInvariant, PTL
-----------------------------------------------------------------------------
\* Sums over a sequence, and over the five accounts of the library.
LEMMA SumAppended ==
  ASSUME NEW s \in Seq(Int), NEW x \in Int
  PROVE  /\ Append(s, x) \in Seq(Int) /\ SumFunction(Append(s, x)) = SumFunction(s) + x
         /\ SumFunction(s) \in Int
<1> DEFINE n == Len(s)
           t == Append(s, x)
<1>1. /\ n \in Nat /\ t \in Seq(Int) /\ DOMAIN s = 1 .. n /\ DOMAIN t = 1 .. n + 1
      /\ t[n + 1] = x /\ (\A k \in 1 .. n : t[k] = s[k] /\ s[k] \in Int)
  OBVIOUS
<1>2. 1 .. n + 1 = (1 .. n) \cup {n + 1} /\ n + 1 \notin 1 .. n
  BY <1>1
<1>3. IsFiniteSet(1 .. n)
  BY <1>1, FS_Interval
<1> HIDE DEF n, t
<1>4. SumFunctionOnSet(t, (1 .. n) \cup {n + 1}) = SumFunctionOnSet(t, 1 .. n) + t[n + 1]
  BY <1>1, <1>2, <1>3, SumAdd
<1>5. SumFunctionOnSet(t, 1 .. n) = SumFunctionOnSet(s, 1 .. n)
  BY <1>1, <1>3, SumAgrees
<1>6. SumFunctionOnSet(s, 1 .. n) \in Int
  BY <1>1, <1>3, SumIsInt
<1> QED BY <1>1, <1>2, <1>4, <1>5, <1>6 DEF SumFunction, t

Five == {"CASH_ASSET", "LOAN_RECEIVABLE", "INTEREST_INCOME", "PENALTY_INCOME", "UNEARNED_INCOME"}

LEMMA SumOverFive ==
  ASSUME NEW f, \A x \in Five : f[x] \in Int
  PROVE  /\ IsFiniteSet(Five)
         /\ SumFunctionOnSet(f, Five) = f["CASH_ASSET"] + f["LOAN_RECEIVABLE"] + f["INTEREST_INCOME"]
                                          + f["PENALTY_INCOME"] + f["UNEARNED_INCOME"]
<1> DEFINE a == "CASH_ASSET"
           b == "LOAN_RECEIVABLE"
           c == "INTEREST_INCOME"
           d == "PENALTY_INCOME"
           e == "UNEARNED_INCOME"
<1>0. /\ a \notin {b, c, d, e} /\ b \notin {c, d, e} /\ c \notin {d, e} /\ d # e
      /\ Five = {a, b, c, d, e} /\ \A x \in {a, b, c, d, e} : f[x] \in Int
  BY DEF Five
<1> HIDE DEF a, b, c, d, e
<1>1. /\ IsFiniteSet({}) /\ IsFiniteSet({e}) /\ IsFiniteSet({d, e}) /\ IsFiniteSet({c, d, e})
      /\ IsFiniteSet({b, c, d, e}) /\ IsFiniteSet({a, b, c, d, e})
  <2>1. IsFiniteSet({}) /\ IsFiniteSet({} \cup {e})
    BY FS_EmptySet, FS_AddElement
  <2>2. IsFiniteSet({e} \cup {d})
    BY <2>1, FS_AddElement
  <2>3. IsFiniteSet({d, e} \cup {c})
    BY <2>2, FS_AddElement
  <2>4. IsFiniteSet({c, d, e} \cup {b})
    BY <2>3, FS_AddElement
  <2>5. IsFiniteSet({b, c, d, e} \cup {a})
    BY <2>4, FS_AddElement
  <2> QED BY <2>1, <2>2, <2>3, <2>4, <2>5
<1>2. SumFunctionOnSet(f, {} \cup {e}) = SumFunctionOnSet(f, {}) + f[e]
  BY <1>0, <1>1, SumAdd
<1>3. SumFunctionOnSet(f, {e} \cup {d}) = SumFunctionOnSet(f, {e}) + f[d]
  BY <1>0, <1>1, SumAdd
<1>4. SumFunctionOnSet(f, {d, e} \cup {c}) = SumFunctionOnSet(f, {d, e}) + f[c]
  BY <1>0, <1>1, SumAdd
<1>5. SumFunctionOnSet(f, {c, d, e} \cup {b}) = SumFunctionOnSet(f, {c, d, e}) + f[b]
  BY <1>0, <1>1, SumAdd
<1>6. SumFunctionOnSet(f, {b, c, d, e} \cup {a}) = SumFunctionOnSet(f, {b, c, d, e}) + f[a]
  BY <1>0, <1>1, SumAdd
<1>7. /\ {} \cup {e} = {e} /\ {e} \cup {d} = {d, e} /\ {d, e} \cup {c} = {c, d, e}
      /\ {c, d, e} \cup {b} = {b, c, d, e} /\ {b, c, d, e} \cup {a} = {a, b, c, d, e}
  OBVIOUS
<1>8. SumFunctionOnSet(f, {}) = 0
  BY SumOfNone
<1> DEFINE s1 == SumFunctionOnSet(f, {e})
           s2 == SumFunctionOnSet(f, {d, e})
           s3 == SumFunctionOnSet(f, {c, d, e})
           s4 == SumFunctionOnSet(f, {b, c, d, e})
           s5 == SumFunctionOnSet(f, {a, b, c, d, e})
<1>9. /\ s1 = 0 + f[e] /\ s2 = s1 + f[d] /\ s3 = s2 + f[c] /\ s4 = s3 + f[b] /\ s5 = s4 + f[a]
  BY <1>2, <1>3, <1>4, <1>5, <1>6, <1>7, <1>8
<1> HIDE DEF s1, s2, s3, s4, s5
<1>10. f[a] \in Int /\ f[b] \in Int /\ f[c] \in Int /\ f[d] \in Int /\ f[e] \in Int
  BY <1>0
<1>11. s5 = f[a] + f[b] + f[c] + f[d] + f[e]
  BY <1>9, <1>10
<1> QED BY <1>0, <1>1, <1>11 DEF s5, a, b, c, d, e

-----------------------------------------------------------------------------
\* The lines of an entry: what they add to an account, and what to all of them.
IsEntry(e) == IsFiniteSet(e) /\ \A l \in e : l.amount \in Int /\ l.type \in {"DEBIT", "CREDIT"}
Signed(l) == IF l.type = "DEBIT" THEN l.amount ELSE -l.amount
Net(e, a) == Imbalance({l \in e : l.account = a})

LEMMA ImbalanceIsSum ==
  ASSUME NEW e, IsEntry(e)
  PROVE  /\ Imbalance(e) = SumFunctionOnSet([l \in e |-> Signed(l)], e)
         /\ Imbalance(e) \in Int
         /\ TotalOf(e, "DEBIT") \in Int /\ TotalOf(e, "CREDIT") \in Int
<1> DEFINE D == {l \in e : l.type = "DEBIT"}
           C == {l \in e : l.type = "CREDIT"}
           f == [l \in e |-> l.amount]
           g == [l \in e |-> Signed(l)]
<1>1. D \cup C = e /\ D \cap C = {} /\ D \subseteq e /\ C \subseteq e
  BY DEF IsEntry
<1>2. IsFiniteSet(e) /\ IsFiniteSet(D) /\ IsFiniteSet(C)
  BY <1>1, FS_Subset DEF IsEntry
<1>3. \A l \in e : f[l] \in Int /\ g[l] \in Int
  BY DEF IsEntry, Signed
<1>4. \A l \in D : g[l] = f[l]
  BY DEF Signed
<1>5. \A l \in C : g[l] = -f[l]
  BY DEF Signed
<1>6. TotalOf(e, "DEBIT") = SumFunctionOnSet(f, D) /\ TotalOf(e, "CREDIT") = SumFunctionOnSet(f, C)
  BY DEF TotalOf
<1> HIDE DEF D, C, f, g
<1>7. SumFunctionOnSet(g, D \cup C) = SumFunctionOnSet(g, D) + SumFunctionOnSet(g, C)
  BY <1>1, <1>2, <1>3, SumOfUnion
<1>8. SumFunctionOnSet(g, D) = SumFunctionOnSet(f, D)
  BY <1>2, <1>4, SumAgrees
<1>9. SumFunctionOnSet(g, C) = -SumFunctionOnSet(f, C)
  BY <1>1, <1>2, <1>3, <1>5, SumNegated
<1>10. SumFunctionOnSet(f, D) \in Int /\ SumFunctionOnSet(f, C) \in Int
  BY <1>1, <1>2, <1>3, SumIsInt
<1>11. Imbalance(e) = SumFunctionOnSet(g, e)
  BY <1>1, <1>6, <1>7, <1>8, <1>9, <1>10 DEF Imbalance
<1> QED BY <1>6, <1>10, <1>11 DEF g, Imbalance

LEMMA PartIsEntry ==
  ASSUME NEW e, IsEntry(e), NEW p \in SUBSET e
  PROVE  IsEntry(p)
BY FS_Subset DEF IsEntry

\* What an account without lines, or with one, is changed by.
LEMMA NetOfNone ==
  ASSUME NEW e, NEW a, \A l \in e : l.account # a
  PROVE  Net(e, a) = 0
<1>1. {l \in e : l.account = a} = {} /\ IsEntry({})
  BY FS_EmptySet DEF IsEntry
<1>2. Imbalance({}) = SumFunctionOnSet([l \in {} |-> Signed(l)], {})
  BY <1>1, ImbalanceIsSum
<1> QED BY <1>1, <1>2, SumOfNone DEF Net

LEMMA NetOfOne ==
  ASSUME NEW e, IsEntry(e), NEW a, NEW m \in e, m.account = a, \A l \in e : l.account = a => l = m
  PROVE  Net(e, a) = Signed(m)
<1>1. {l \in e : l.account = a} = {m} /\ IsEntry({m}) /\ IsFiniteSet({}) /\ Signed(m) \in Int
  <2>1. {l \in e : l.account = a} = {m} /\ {m} \in SUBSET e
    OBVIOUS
  <2>2. Signed(m) \in Int
    BY DEF Signed, IsEntry
  <2> QED BY <2>1, <2>2, PartIsEntry, FS_EmptySet
<1> DEFINE f == [l \in {m} |-> Signed(l)]
<1>2. Imbalance({m}) = SumFunctionOnSet(f, {m})
  BY <1>1, ImbalanceIsSum
<1>3. f[m] = Signed(m) /\ \A x \in {} \cup {m} : f[x] \in Int
  BY <1>1
<1> HIDE DEF f
<1>4. SumFunctionOnSet(f, {} \cup {m}) = SumFunctionOnSet(f, {}) + f[m]
  BY <1>1, <1>3, SumAdd
<1>5. SumFunctionOnSet(f, {}) = 0 /\ {} \cup {m} = {m}
  BY SumOfNone
<1>6. Net(e, a) = Imbalance({m})
  BY <1>1 DEF Net
<1>7. SumFunctionOnSet(f, {m}) = 0 + Signed(m)
  BY <1>3, <1>4, <1>5
<1> QED BY <1>1, <1>2, <1>6, <1>7

\* All that an entry adds is what it adds to the accounts.
LEMMA NetsAddUp ==
  ASSUME NEW e, IsEntry(e), NEW A, IsFiniteSet(A), \A l \in e : l.account \in A
  PROVE  SumFunctionOnSet([a \in A |-> Net(e, a)], A) = Imbalance(e)
<1> DEFINE f == [l \in e |-> Signed(l)]
           key == [l \in e |-> l.account]
           parts == [a \in A |-> SumFunctionOnSet(f, {l \in e : key[l] = a})]
<1>1. IsFiniteSet(e) /\ (\A l \in e : f[l] \in Int) /\ \A l \in e : key[l] \in A
  BY DEF IsEntry, Signed
<1>2. ASSUME NEW a \in A PROVE parts[a] = Net(e, a)
  <2> DEFINE p == {l \in e : l.account = a}
             g == [l \in p |-> Signed(l)]
  <2>1. IsEntry(p) /\ IsFiniteSet(p) /\ {l \in e : key[l] = a} = p
    BY PartIsEntry DEF IsEntry
  <2>2. \A l \in p : f[l] = g[l]
    OBVIOUS
  <2>3. Net(e, a) = SumFunctionOnSet(g, p)
    BY <2>1, ImbalanceIsSum DEF Net
  <2>4. parts[a] = SumFunctionOnSet(f, p)
    BY <2>1
  <2> HIDE DEF p, f, g, parts
  <2> QED BY <2>1, <2>2, <2>3, <2>4, SumAgrees
<1>3. Imbalance(e) = SumFunctionOnSet(f, e)
  BY ImbalanceIsSum
<1>4. [a \in A |-> Net(e, a)] = parts
  BY <1>2
<1> HIDE DEF f, key
<1>5. SumFunctionOnSet(parts, A) = SumFunctionOnSet(f, e)
  BY <1>1, SumByKey DEF parts
<1> QED BY <1>3, <1>4, <1>5

LEMMA FiveNets ==
  ASSUME NEW e, IsEntry(e), \A l \in e : l.account \in Five
  PROVE  Imbalance(e) = Net(e, "CASH_ASSET") + Net(e, "LOAN_RECEIVABLE") + Net(e, "INTEREST_INCOME")
                          + Net(e, "PENALTY_INCOME") + Net(e, "UNEARNED_INCOME")
<1> DEFINE f == [a \in Five |-> Net(e, a)]
<1>1. \A a \in Five : f[a] = Net(e, a) /\ f[a] \in Int
  BY PartIsEntry, ImbalanceIsSum DEF Net
<1>2. IsFiniteSet(Five)
  BY <1>1, SumOverFive
<1>3. SumFunctionOnSet(f, Five) = Imbalance(e)
  BY <1>2, NetsAddUp
<1> HIDE DEF f
<1>4. SumFunctionOnSet(f, Five) = f["CASH_ASSET"] + f["LOAN_RECEIVABLE"] + f["INTEREST_INCOME"]
                                    + f["PENALTY_INCOME"] + f["UNEARNED_INCOME"]
  BY <1>1, SumOverFive
<1> QED BY <1>1, <1>3, <1>4 DEF Five

-----------------------------------------------------------------------------
\* The entries the library builds.
LineRow == [account : Five, type : {"DEBIT", "CREDIT"}, amount : Nat]
Entry == {e \in SUBSET LineRow : IsFiniteSet(e)}

LEMMA EntriesAre ==
  ASSUME NEW e \in Entry
  PROVE  IsEntry(e) /\ (\A l \in e : l.account \in Five) /\ Imbalance(e) \in Int
         /\ \A a : Net(e, a) \in Int
<1>1. IsEntry(e) /\ \A l \in e : l.account \in Five
  BY DEF Entry, IsEntry, LineRow
<1>2. Imbalance(e) \in Int
  BY <1>1, ImbalanceIsSum
<1>3. ASSUME NEW a PROVE Net(e, a) \in Int
  <2>1. IsEntry({l \in e : l.account = a})
    BY <1>1, PartIsEntry
  <2> QED BY <2>1, ImbalanceIsSum DEF Net
<1> QED BY <1>1, <1>2, <1>3

LEMMA FewLines ==
  ASSUME NEW a, NEW b, NEW c, NEW d, NEW S \in SUBSET {a, b, c, d}
  PROVE  IsFiniteSet(S)
<1>1. IsFiniteSet({}) /\ IsFiniteSet({} \cup {d})
  BY FS_EmptySet, FS_AddElement
<1>2. IsFiniteSet({d} \cup {c})
  BY <1>1, FS_AddElement
<1>3. IsFiniteSet({d, c} \cup {b})
  BY <1>2, FS_AddElement
<1>4. IsFiniteSet({d, c, b} \cup {a})
  BY <1>3, FS_AddElement
<1>5. {d, c, b} \cup {a} = {a, b, c, d}
  OBVIOUS
<1> QED BY <1>4, <1>5, FS_Subset

LEMMA LineIs ==
  ASSUME NEW account \in Five, NEW type \in {"DEBIT", "CREDIT"}, NEW x \in Nat
  PROVE  /\ Line(account, type, x) \in LineRow
         /\ Line(account, type, x).account = account
         /\ Line(account, type, x).type = type /\ Line(account, type, x).amount = x
BY DEF Line, LineRow

LEMMA DebtNets ==
  ASSUME NEW p \in Nat
  PROVE  /\ createDebtEntry(p) \in Entry /\ createDebtEntry(p) # {}
         /\ Net(createDebtEntry(p), "LOAN_RECEIVABLE") = p
         /\ Net(createDebtEntry(p), "CASH_ASSET") = 0
         /\ Net(createDebtEntry(p), "INTEREST_INCOME") = 0
         /\ Net(createDebtEntry(p), "PENALTY_INCOME") = 0
         /\ Imbalance(createDebtEntry(p)) = 0
<1> DEFINE r == Line("LOAN_RECEIVABLE", "DEBIT", p)
           u == Line("UNEARNED_INCOME", "CREDIT", p)
           e == createDebtEntry(p)
<1>1. /\ r \in LineRow /\ r.account = "LOAN_RECEIVABLE" /\ r.type = "DEBIT" /\ r.amount = p
      /\ u \in LineRow /\ u.account = "UNEARNED_INCOME" /\ u.type = "CREDIT" /\ u.amount = p
  BY LineIs DEF Five
<1>2. e = {r, u}
  BY DEF createDebtEntry
<1> HIDE DEF r, u, e
<1>3. e \in Entry
  BY <1>1, <1>2, FewLines DEF Entry
<1>4. IsEntry(e) /\ \A l \in e : l.account \in Five
  BY <1>3, EntriesAre
<1>5. Net(e, "LOAN_RECEIVABLE") = p
  <2>1. Net(e, "LOAN_RECEIVABLE") = Signed(r)
    BY <1>1, <1>2, <1>4, NetOfOne
  <2> QED BY <1>1, <2>1 DEF Signed
<1>6. Net(e, "UNEARNED_INCOME") = -p
  <2>1. Net(e, "UNEARNED_INCOME") = Signed(u)
    BY <1>1, <1>2, <1>4, NetOfOne
  <2> QED BY <1>1, <2>1 DEF Signed
<1>7. \A a \in {"CASH_ASSET", "INTEREST_INCOME", "PENALTY_INCOME"} : Net(e, a) = 0
  BY <1>1, <1>2, NetOfNone
<1>8. Imbalance(e) = Net(e, "CASH_ASSET") + Net(e, "LOAN_RECEIVABLE") + Net(e, "INTEREST_INCOME")
                       + Net(e, "PENALTY_INCOME") + Net(e, "UNEARNED_INCOME")
  BY <1>4, FiveNets
<1>9. Imbalance(e) = 0
  BY <1>5, <1>6, <1>7, <1>8
<1> QED BY <1>2, <1>3, <1>5, <1>7, <1>9 DEF e

\* A credit line is left out when its amount is zero; it then adds nothing, too.
LEMMA CreditNet ==
  ASSUME NEW e, IsEntry(e), NEW m, m.type = "CREDIT", m.amount \in Nat,
         m \in e <=> m.amount > 0, \A l \in e : l.account = m.account => l = m
  PROVE  Net(e, m.account) = -m.amount
<1>1. CASE m.amount > 0
  <2>1. Net(e, m.account) = Signed(m)
    BY <1>1, NetOfOne
  <2> QED BY <2>1 DEF Signed
<1>2. CASE m.amount = 0
  <2>1. \A l \in e : l.account # m.account
    BY <1>2
  <2> QED BY <1>2, <2>1, NetOfNone
<1> QED BY <1>1, <1>2

LEMMA PaymentNets ==
  ASSUME NEW t \in Nat, NEW p \in Nat, NEW i \in Nat, NEW n \in Nat
  PROVE  LET e == createPaymentEntry(t, p, i, n) IN
         /\ e \in Entry /\ e # {}
         /\ Net(e, "CASH_ASSET") = t /\ Net(e, "LOAN_RECEIVABLE") = -p
         /\ Net(e, "INTEREST_INCOME") = -i /\ Net(e, "PENALTY_INCOME") = -n
         /\ Imbalance(e) = t - p - i - n
<1> DEFINE c == Line("CASH_ASSET", "DEBIT", t)
           r == Line("LOAN_RECEIVABLE", "CREDIT", p)
           j == Line("INTEREST_INCOME", "CREDIT", i)
           k == Line("PENALTY_INCOME", "CREDIT", n)
           e == createPaymentEntry(t, p, i, n)
<1>1. /\ c \in LineRow /\ c.account = "CASH_ASSET" /\ c.type = "DEBIT" /\ c.amount = t
      /\ r \in LineRow /\ r.account = "LOAN_RECEIVABLE" /\ r.type = "CREDIT" /\ r.amount = p
      /\ j \in LineRow /\ j.account = "INTEREST_INCOME" /\ j.type = "CREDIT" /\ j.amount = i
      /\ k \in LineRow /\ k.account = "PENALTY_INCOME" /\ k.type = "CREDIT" /\ k.amount = n
  BY LineIs DEF Five
<1>2. e = {c} \cup {l \in {r, j, k} : l.amount > 0}
  BY DEF createPaymentEntry, Positive
<1> HIDE DEF c, r, j, k, e
<1>3. e \in Entry
  <2>1. e \in SUBSET {c, r, j, k}
    BY <1>2
  <2>2. IsFiniteSet(e)
    BY <2>1, FewLines
  <2> QED BY <1>1, <2>1, <2>2 DEF Entry
<1>4. IsEntry(e) /\ \A l \in e : l.account \in Five
  BY <1>3, EntriesAre
<1>5. Net(e, "CASH_ASSET") = t
  <2>1. Net(e, "CASH_ASSET") = Signed(c)
    BY <1>1, <1>2, <1>4, NetOfOne
  <2> QED BY <1>1, <2>1 DEF Signed
<1>6. /\ r \in e <=> r.amount > 0
      /\ j \in e <=> j.amount > 0
      /\ k \in e <=> k.amount > 0
      /\ \A l \in e : /\ l.account = r.account => l = r
                      /\ l.account = j.account => l = j
                      /\ l.account = k.account => l = k
  BY <1>1, <1>2
<1>7. Net(e, "LOAN_RECEIVABLE") = -p
  BY <1>1, <1>4, <1>6, CreditNet
<1>8. Net(e, "INTEREST_INCOME") = -i
  BY <1>1, <1>4, <1>6, CreditNet
<1>9. Net(e, "PENALTY_INCOME") = -n
  BY <1>1, <1>4, <1>6, CreditNet
<1>10. Net(e, "UNEARNED_INCOME") = 0
  BY <1>1, <1>2, NetOfNone
<1>11. Imbalance(e) = Net(e, "CASH_ASSET") + Net(e, "LOAN_RECEIVABLE") + Net(e, "INTEREST_INCOME")
                        + Net(e, "PENALTY_INCOME") + Net(e, "UNEARNED_INCOME")
  BY <1>4, FiveNets
<1>12. Imbalance(e) = t - p - i - n
  BY <1>5, <1>7, <1>8, <1>9, <1>10, <1>11
<1> QED BY <1>2, <1>3, <1>5, <1>7, <1>8, <1>9, <1>12 DEF e

\* core/Journal.ts: what it would make of a payment is out by the interest.
LEMMA MadePaymentNets ==
  ASSUME NEW t \in Nat, NEW p \in Nat, NEW i \in Nat, NEW n \in Nat
  PROVE  LET e == makePaymentLines(t, p, i, n) IN
         /\ e \in Entry /\ e # {}
         /\ Net(e, "LOAN_RECEIVABLE") = -p
         /\ Imbalance(e) = t - p - n
         /\ (\A l \in e : l.amount > 0) <=> t > 0
<1> DEFINE c == Line("CASH_ASSET", "DEBIT", t)
           r == Line("LOAN_RECEIVABLE", "CREDIT", p)
           j == Line("INTEREST_INCOME", "CREDIT", i)
           u == Line("UNEARNED_INCOME", "DEBIT", i)
           k == Line("PENALTY_INCOME", "CREDIT", n)
           e == makePaymentLines(t, p, i, n)
<1>1. /\ c \in LineRow /\ c.account = "CASH_ASSET" /\ c.type = "DEBIT" /\ c.amount = t
      /\ r \in LineRow /\ r.account = "LOAN_RECEIVABLE" /\ r.type = "CREDIT" /\ r.amount = p
      /\ j \in LineRow /\ j.account = "INTEREST_INCOME" /\ j.type = "CREDIT" /\ j.amount = i
      /\ u \in LineRow /\ u.account = "UNEARNED_INCOME" /\ u.type = "DEBIT" /\ u.amount = i
      /\ k \in LineRow /\ k.account = "PENALTY_INCOME" /\ k.type = "CREDIT" /\ k.amount = n
  BY LineIs DEF Five
<1>2. e = {c} \cup {l \in {k, u, j, r} : l.amount > 0}
  BY DEF makePaymentLines, Positive
<1> HIDE DEF c, r, j, k, u, e
<1>3. e \in Entry
  <2>1. e \ {c} \in SUBSET {k, u, j, r}
    BY <1>2
  <2>2. IsFiniteSet(e \ {c})
    BY <2>1, FewLines
  <2>3. IsFiniteSet((e \ {c}) \cup {c}) /\ (e \ {c}) \cup {c} = e
    BY <1>2, <2>2, FS_AddElement
  <2> QED BY <1>1, <1>2, <2>3 DEF Entry
<1>4. IsEntry(e) /\ \A l \in e : l.account \in Five
  BY <1>3, EntriesAre
<1>5. Net(e, "CASH_ASSET") = t
  <2>1. Net(e, "CASH_ASSET") = Signed(c)
    BY <1>1, <1>2, <1>4, NetOfOne
  <2> QED BY <1>1, <2>1 DEF Signed
<1>6. /\ r \in e <=> r.amount > 0
      /\ j \in e <=> j.amount > 0
      /\ k \in e <=> k.amount > 0
      /\ u \in e <=> u.amount > 0
  BY <1>1, <1>2
<1>7. /\ \A l \in e : l.account = r.account => l = r
      /\ \A l \in e : l.account = j.account => l = j
      /\ \A l \in e : l.account = k.account => l = k
      /\ \A l \in e : l.account = u.account => l = u
  BY <1>1, <1>2
<1>8. Net(e, "LOAN_RECEIVABLE") = -p
  BY <1>1, <1>4, <1>6, <1>7, CreditNet
<1>9. Net(e, "INTEREST_INCOME") = -i
  BY <1>1, <1>4, <1>6, <1>7, CreditNet
<1>10. Net(e, "PENALTY_INCOME") = -n
  BY <1>1, <1>4, <1>6, <1>7, CreditNet
<1>11. Net(e, "UNEARNED_INCOME") = i
  <2>1. CASE i > 0
    <3>1. Net(e, "UNEARNED_INCOME") = Signed(u)
      BY <1>1, <1>4, <1>6, <1>7, <2>1, NetOfOne
    <3> QED BY <1>1, <3>1 DEF Signed
  <2>2. CASE i = 0
    <3>1. \A l \in e : l.account # "UNEARNED_INCOME"
      BY <1>1, <1>6, <1>7, <2>2
    <3> QED BY <2>2, <3>1, NetOfNone
  <2> QED BY <2>1, <2>2
<1>12. Imbalance(e) = Net(e, "CASH_ASSET") + Net(e, "LOAN_RECEIVABLE") + Net(e, "INTEREST_INCOME")
                        + Net(e, "PENALTY_INCOME") + Net(e, "UNEARNED_INCOME")
  BY <1>4, FiveNets
<1>13. Imbalance(e) = t - p - n
  BY <1>5, <1>8, <1>9, <1>10, <1>11, <1>12
<1>14. (\A l \in e : l.amount > 0) <=> t > 0
  BY <1>1, <1>2
<1> QED BY <1>2, <1>3, <1>8, <1>13, <1>14 DEF e

\* One line alone is never balanced, so a balanced entry has two.
LEMMA BalancedHasTwo ==
  ASSUME NEW e \in Entry, e # {}, \A l \in e : l.amount > 0, Imbalance(e) = 0
  PROVE  Cardinality(e) >= 2
<1>1. IsEntry(e) /\ IsFiniteSet(e)
  BY EntriesAre DEF IsEntry
<1>2. Cardinality(e) \in Nat /\ Cardinality(e) # 0
  BY <1>1, FS_CardinalityType, FS_EmptySet
<1>3. ASSUME Cardinality(e) = 1 PROVE FALSE
  <2>1. PICK m : e = {m}
    BY <1>1, <1>3, FS_Singleton
  <2>2. Net(e, m.account) = Signed(m)
    BY <1>1, <2>1, NetOfOne
  <2>3. {l \in e : l.account = m.account} = e
    BY <2>1
  <2>4. Imbalance(e) = Signed(m)
    BY <2>2, <2>3 DEF Net
  <2>5. m.amount \in Int /\ m.amount > 0
    BY <1>1, <2>1 DEF IsEntry
  <2> QED BY <2>4, <2>5 DEF Signed
<1> QED BY <1>2, <1>3

LEMMA ImbalanceZero ==
  ASSUME NEW e \in Entry
  PROVE  Imbalance(e) = 0 <=> TotalOf(e, "DEBIT") = TotalOf(e, "CREDIT")
<1>1. TotalOf(e, "DEBIT") \in Int /\ TotalOf(e, "CREDIT") \in Int
  BY EntriesAre, ImbalanceIsSum
<1> QED BY <1>1 DEF Imbalance


-----------------------------------------------------------------------------
\* Balances over a sequence of entries.
Nets(s, a) == [k \in DOMAIN s |-> Net(s[k], a)]
Imbalances(s) == [k \in DOMAIN s |-> Imbalance(s[k])]

LEMMA EntryAt ==
  ASSUME NEW s \in Seq(Entry)
  PROVE  /\ Len(s) \in Nat /\ DOMAIN s = 1 .. Len(s) /\ IsFiniteSet(DOMAIN s)
         /\ \A k \in DOMAIN s : s[k] \in Entry
BY FS_Interval

LEMMA BalanceIsTotal ==
  ASSUME NEW s \in Seq(Entry), NEW a
  PROVE  /\ BalanceOf(s, a) = SumFunctionOnSet(Nets(s, a), DOMAIN s)
         /\ BalanceOf(s, a) \in Int
<1> DEFINE D == DOMAIN s
           part(k) == {l \in s[k] : l.account = a}
           f == [k \in D |-> TotalOf(part(k), "DEBIT")]
           g == [k \in D |-> TotalOf(part(k), "CREDIT")]
           h == Nets(s, a)
<1>1. IsFiniteSet(D) /\ \A k \in D : s[k] \in Entry
  BY EntryAt
<1>2. ASSUME NEW k \in D PROVE h[k] \in Int /\ g[k] \in Int /\ f[k] = h[k] + g[k]
  <2>1. IsEntry(part(k))
    BY <1>1, EntriesAre, PartIsEntry
  <2>2. TotalOf(part(k), "DEBIT") \in Int /\ TotalOf(part(k), "CREDIT") \in Int
    BY <2>1, ImbalanceIsSum
  <2>3. h[k] = TotalOf(part(k), "DEBIT") - TotalOf(part(k), "CREDIT")
    BY DEF Nets, Net, Imbalance
  <2>4. f[k] = TotalOf(part(k), "DEBIT") /\ g[k] = TotalOf(part(k), "CREDIT")
    OBVIOUS
  <2> HIDE DEF part, f, g, h
  <2> QED BY <2>2, <2>3, <2>4
<1>3. AccountLines(s, a) = [totalDebits |-> SumFunctionOnSet(f, D), totalCredits |-> SumFunctionOnSet(g, D)]
  BY DEF AccountLines, SumFunction
<1>4. DOMAIN h = D
  BY DEF Nets
<1> HIDE DEF D, f, g, h
<1>5. SumFunctionOnSet(f, D) = SumFunctionOnSet(h, D) + SumFunctionOnSet(g, D)
  BY <1>1, <1>2, SumPlus
<1>6. SumFunctionOnSet(h, D) \in Int /\ SumFunctionOnSet(g, D) \in Int
  BY <1>1, <1>2, SumIsInt
<1>7. CASE a \in Accounts(s)
  <2>1. BalanceOf(s, a) = SumFunctionOnSet(f, D) - SumFunctionOnSet(g, D)
    BY <1>3, <1>7 DEF BalanceOf, getTrialBalance
  <2> QED BY <1>5, <1>6, <2>1 DEF D, h
<1>8. CASE a \notin Accounts(s)
  <2>1. \A k \in D : \A l \in s[k] : l.account # a
    BY <1>8 DEF Accounts, D
  <2>2. \A k \in D : h[k] = 0
    BY <2>1, NetOfNone DEF Nets, D, h
  <2>3. SumFunctionOnSet(h, D) = 0
    BY <1>1, <2>2, SumOfZeros
  <2> QED BY <1>8, <2>3 DEF BalanceOf, D, h
<1> QED BY <1>7, <1>8

LEMMA BalanceAppended ==
  ASSUME NEW s \in Seq(Entry), NEW e \in Entry, NEW a
  PROVE  /\ Append(s, e) \in Seq(Entry)
         /\ BalanceOf(Append(s, e), a) = BalanceOf(s, a) + Net(e, a)
<1> DEFINE t == Append(s, e)
           n == Len(s)
<1>1. /\ n \in Nat /\ t \in Seq(Entry) /\ DOMAIN s = 1 .. n /\ DOMAIN t = 1 .. n + 1
      /\ t[n + 1] = e /\ \A k \in 1 .. n : t[k] = s[k]
  BY EntryAt
<1> HIDE DEF t, n
<1>2. IsFiniteSet(1 .. n) /\ 1 .. n + 1 = (1 .. n) \cup {n + 1} /\ n + 1 \notin 1 .. n
  <2>1. IsFiniteSet(1 .. n)
    BY <1>1, FS_Interval
  <2> QED BY <1>1, <2>1
<1>3. \A k \in (1 .. n) \cup {n + 1} : Nets(t, a)[k] \in Int
  BY <1>1, <1>2, EntryAt, EntriesAre DEF Nets
<1>4. SumFunctionOnSet(Nets(t, a), (1 .. n) \cup {n + 1})
        = SumFunctionOnSet(Nets(t, a), 1 .. n) + Nets(t, a)[n + 1]
  <2> DEFINE D == 1 .. n
             y == n + 1
             f == Nets(t, a)
  <2>1. IsFiniteSet(D) /\ y \notin D /\ \A k \in D \cup {y} : f[k] \in Int
    BY <1>2, <1>3
  <2> HIDE DEF D, y, f
  <2>2. SumFunctionOnSet(f, D \cup {y}) = SumFunctionOnSet(f, D) + f[y]
    BY <2>1, SumAdd
  <2> QED BY <2>2 DEF D, y, f
<1>5. \A k \in 1 .. n : Nets(t, a)[k] = Nets(s, a)[k]
  BY <1>1, <1>2 DEF Nets
<1>6. SumFunctionOnSet(Nets(t, a), 1 .. n) = SumFunctionOnSet(Nets(s, a), 1 .. n)
  BY <1>2, <1>5, SumAgrees
<1>7. Nets(t, a)[n + 1] = Net(e, a)
  BY <1>1, <1>2 DEF Nets
<1>8. /\ BalanceOf(t, a) = SumFunctionOnSet(Nets(t, a), 1 .. n + 1)
      /\ BalanceOf(s, a) = SumFunctionOnSet(Nets(s, a), 1 .. n)
  BY <1>1, BalanceIsTotal
<1>9. BalanceOf(t, a) = BalanceOf(s, a) + Net(e, a)
  BY <1>2, <1>4, <1>6, <1>7, <1>8
<1> QED BY <1>1, <1>9 DEF t

LEMMA BalanceOfNothing == ASSUME NEW a PROVE BalanceOf(<<>>, a) = 0
BY DEF BalanceOf, Accounts

LEMMA BalanceOfOneEntry ==
  ASSUME NEW e \in Entry, NEW a
  PROVE  BalanceOf(<<e>>, a) = Net(e, a)
<1>1. <<>> \in Seq(Entry) /\ Append(<<>>, e) = <<e>>
  OBVIOUS
<1>2. BalanceOf(Append(<<>>, e), a) = BalanceOf(<<>>, a) + Net(e, a)
  BY <1>1, BalanceAppended
<1>3. Net(e, a) \in Int
  BY EntriesAre
<1> QED BY <1>1, <1>2, <1>3, BalanceOfNothing

\* The whole trial balance is what the entries add, each to all accounts.
LEMMA TrialTotals ==
  ASSUME NEW s \in Seq(Entry)
  PROVE  SumFunction(getTrialBalance(s)) = SumFunctionOnSet(Imbalances(s), DOMAIN s)
<1> DEFINE D == DOMAIN s
           A == Accounts(s)
           f == [k \in D |-> [a \in A |-> Net(s[k], a)]]
           sums == [k \in D |-> SumFunctionOnSet(f[k], A)]
           col == [a \in A |-> SumFunctionOnSet([k \in D |-> f[k][a]], D)]
<1>1. IsFiniteSet(D) /\ \A k \in D : s[k] \in Entry
  BY EntryAt
<1>2. \A k \in D : IsEntry(s[k]) /\ (\A l \in s[k] : l.account \in Five) /\ \A a : Net(s[k], a) \in Int
  BY <1>1, EntriesAre
<1>3. IsFiniteSet(A)
  <2>1. A \in SUBSET Five
    BY <1>2 DEF Accounts
  <2>2. IsFiniteSet(Five)
    <3>1. \A x \in Five : [y \in Five |-> 0][x] \in Int
      OBVIOUS
    <3> QED BY <3>1, SumOverFive
  <2> QED BY <2>1, <2>2, FS_Subset
<1>4. \A k \in D : \A l \in s[k] : l.account \in A
  BY DEF Accounts
<1>5. \A k \in D, a \in A : f[k][a] \in Int /\ f[k][a] = Net(s[k], a)
  BY <1>2
<1>6. \A k \in D : f[k] = [a \in A |-> Net(s[k], a)]
  OBVIOUS
<1> HIDE DEF A, f
<1>7. SumFunctionOnSet(sums, D) = SumFunctionOnSet(col, A)
  <2>1. IsFiniteSet(D) /\ IsFiniteSet(A)
    BY <1>1, <1>3
  <2>2. \A k \in D, a \in A : f[k][a] \in Int
    BY <1>5
  <2> HIDE DEF D
  <2> QED BY ONLY <2>1, <2>2, SumSwap
<1>8. \A k \in D : sums[k] = Imbalances(s)[k]
  <2> TAKE k \in D
  <2>1. SumFunctionOnSet([a \in A |-> Net(s[k], a)], A) = Imbalance(s[k])
    BY <1>2, <1>3, <1>4, NetsAddUp
  <2>2. sums[k] = SumFunctionOnSet(f[k], A)
    OBVIOUS
  <2> QED BY <1>6, <2>1, <2>2 DEF Imbalances
<1>9. \A a \in A : col[a] = getTrialBalance(s)[a]
  <2> TAKE a \in A
  <2> DEFINE g == [k \in D |-> f[k][a]]
  <2>1. \A k \in D : g[k] = Nets(s, a)[k]
    BY <1>5 DEF Nets
  <2>2. col[a] = SumFunctionOnSet(g, D)
    OBVIOUS
  <2> HIDE DEF g
  <2>3. SumFunctionOnSet(g, D) = SumFunctionOnSet(Nets(s, a), D)
    BY <1>1, <2>1, SumAgrees
  <2>4. BalanceOf(s, a) = getTrialBalance(s)[a]
    BY DEF BalanceOf, A
  <2> QED BY <2>2, <2>3, <2>4, BalanceIsTotal
<1>10. DOMAIN getTrialBalance(s) = A
  BY DEF getTrialBalance, A
<1> HIDE DEF D, sums, col
<1>11. SumFunctionOnSet(sums, D) = SumFunctionOnSet(Imbalances(s), D)
  BY <1>1, <1>8, SumAgrees
<1>12. SumFunctionOnSet(col, A) = SumFunctionOnSet(getTrialBalance(s), A)
  BY <1>3, <1>9, SumAgrees
<1> QED BY <1>7, <1>10, <1>11, <1>12 DEF SumFunction, D

\* The library's three checks of one entry.
LEMMA ValidWhenNothingAdded ==
  ASSUME NEW e \in Entry, e # {}, \A l \in e : l.amount > 0
  PROVE  /\ validateJournal(e) <=> Imbalance(e) = 0
         /\ assertBalanced(e) <=> Imbalance(e) = 0
<1>1. Imbalance(e) = 0 <=> TotalOf(e, "DEBIT") = TotalOf(e, "CREDIT")
  BY ImbalanceZero
<1>2. Imbalance(e) = 0 => Cardinality(e) >= 2
  BY BalancedHasTwo
<1> QED BY <1>1, <1>2 DEF validateJournal, assertBalanced, IsBalanced

LEMMA AcceptedWhen ==
  ASSUME NEW t \in Nat, NEW p \in Nat, NEW i \in Nat, NEW n \in Nat, NEW c \in Nat, p + i + n + c = t
  PROVE  makePaymentEntryAccepts(fromCents(t), fromCents(p), fromCents(i), fromCents(n))
           <=> t > 0 /\ c = 0 /\ i = 0
<1> DEFINE T == fromCents(t)
           P == fromCents(p)
           I == fromCents(i)
           N == fromCents(n)
           e == makePaymentLines(T, P, I, N)
<1>1. T = 10 * t /\ P = 10 * p /\ I = 10 * i /\ N = 10 * n
  BY DEF fromCents
<1>2. T \in Nat /\ P \in Nat /\ I \in Nat /\ N \in Nat
  BY <1>1
<1> HIDE DEF T, P, I, N
<1>3. /\ e \in Entry /\ e # {} /\ Imbalance(e) = T - P - N
      /\ (\A l \in e : l.amount > 0) <=> T > 0
  <2>1. LET x == makePaymentLines(T, P, I, N) IN
        /\ x \in Entry /\ x # {} /\ Imbalance(x) = T - P - N
        /\ (\A l \in x : l.amount > 0) <=> T > 0
    <3> HIDE DEF e
    <3> QED BY <1>2, MadePaymentNets
  <2> QED BY <2>1
<1>4. makePaymentEntryAccepts(T, P, I, N) <=> P + I + N = T /\ assertBalanced(e)
  BY DEF makePaymentEntryAccepts
<1> HIDE DEF e
<1>5. assertBalanced(e) <=> T > 0 /\ T - P - N = 0
  BY <1>3, ValidWhenNothingAdded DEF assertBalanced
<1>6. makePaymentEntryAccepts(T, P, I, N) <=> t > 0 /\ c = 0 /\ i = 0
  BY <1>1, <1>4, <1>5
<1> QED BY <1>6 DEF T, P, I, N

-----------------------------------------------------------------------------
\* The loan and its books.
MapLine == [account : {"1010", "1100", "1200", "1300", "4200", "4300"}, type : {"DEBIT", "CREDIT"}, amount : Nat]
MappingRow == [debit : MapLine, credit : MapLine]
JournalRow == [lines : Entry, reverses : Nat]
PaymentRow == [amountCents : Nat, penaltiesPaid : Nat, interestPaid : Nat, principalPaid : Nat]

LoanTypes ==
  /\ owed \in [Buckets -> Nat] /\ paying \in BOOLEAN /\ recorded \in BOOLEAN
  /\ book \in Seq(Entry) /\ reference \in Seq(Nat) /\ unbooked \in SUBSET Nat
  /\ payments \in Seq(PaymentRow) /\ journal \in Seq(JournalRow)
  /\ mappings \in Seq(MappingRow) /\ posted \in Seq(Nat)
  /\ calls \in Nat /\ due \in Nat /\ change \in Nat /\ refused \in Nat

\* Every row but the debt's is the entry of the payment it refers to, and a
\* payment has one row, or waits for it.
EntryOf(p) == createPaymentEntry(p.amountCents, p.principalPaid, p.interestPaid, p.penaltiesPaid)
Waiting == IF recorded THEN unbooked \cup {Len(payments)} ELSE unbooked
Pairs(rows, refs, paymentRows, waiting) ==
  /\ Len(refs) = Len(rows)
  /\ waiting \subseteq 1 .. Len(paymentRows)
  /\ \A j \in 1 .. Len(refs) :
       /\ refs[j] \in 0 .. Len(paymentRows)
       /\ refs[j] # 0 => refs[j] \notin waiting /\ rows[j] = EntryOf(paymentRows[refs[j]])
  /\ \A i, j \in 1 .. Len(refs) : refs[i] = refs[j] => i = j
  /\ \A k \in 1 .. Len(paymentRows) : k \in waiting \/ \E j \in 1 .. Len(refs) : refs[j] = k
BookInv ==
  /\ book = <<>> => payments = <<>> /\ ~paying
  /\ \A k \in DOMAIN book : book[k] # {}
  /\ recorded => /\ paying /\ Done /\ payments # <<>> /\ Len(payments) \notin unbooked
                 /\ payments[Len(payments)] = PaymentRecord
  /\ Pairs(book, reference, payments, Waiting)

\* What the books say of the loan.
AccountsInv ==
  /\ BalanceOf(book, "LOAN_RECEIVABLE") = owed["principal"]
  /\ BalanceOf(book, "CASH_ASSET") = SumFunction(posted)
  /\ owed["interest"] = Mapped("1200") + BalanceOf(book, "INTEREST_INCOME")
  /\ owed["penalty"] = Mapped("1300") + BalanceOf(book, "PENALTY_INCOME")
  /\ SumFunctionOnSet(Imbalances(book), DOMAIN book) = change
  /\ due - calls * Denominator <= Mapped("1200") * Denominator
  /\ Mapped("1200") * Denominator <= due

\* A reversal comes after what it reverses, and has its lines the other way
\* round. The other entries have what is owed and what was refused.
Own(r) == IF r.reverses = 0 THEN Net(r.lines, "LOAN_RECEIVABLE") ELSE 0
OwnNets(s) == [k \in DOMAIN s |-> Own(s[k])]
Linked(s) ==
  \A k \in DOMAIN s :
    /\ s[k].lines # {} /\ s[k].reverses \in 0 .. k - 1
    /\ s[k].reverses # 0 => s[k].lines = Reversed(s[s[k].reverses].lines)
JournalInv ==
  /\ Linked(journal)
  /\ SumFunctionOnSet(OwnNets(journal), DOMAIN journal) = fromCents(owed["principal"] + refused)

LoanInv ==
  /\ WaterfallInv
  /\ LoanTypes
  /\ paying => demand.owed = owed
  /\ BookInv
  /\ AccountsInv
  /\ JournalInv

-----------------------------------------------------------------------------
LEMMA SumOfLonger ==
  ASSUME NEW n \in Nat, NEW f, NEW g, g[n + 1] \in Int, \A k \in 1 .. n : f[k] \in Int /\ g[k] = f[k]
  PROVE  SumFunctionOnSet(g, 1 .. n + 1) = SumFunctionOnSet(f, 1 .. n) + g[n + 1]
<1>1. IsFiniteSet(1 .. n)
  BY FS_Interval
<1>2. 1 .. n + 1 = (1 .. n) \cup {n + 1} /\ n + 1 \notin 1 .. n
  OBVIOUS
<1>3. SumFunctionOnSet(g, (1 .. n) \cup {n + 1}) = SumFunctionOnSet(g, 1 .. n) + g[n + 1]
  <2> DEFINE D == 1 .. n
             y == n + 1
  <2>1. IsFiniteSet(D) /\ y \notin D /\ \A k \in D \cup {y} : g[k] \in Int
    BY <1>1, <1>2
  <2> HIDE DEF D, y
  <2>2. SumFunctionOnSet(g, D \cup {y}) = SumFunctionOnSet(g, D) + g[y]
    BY <2>1, SumAdd
  <2> QED BY <2>2 DEF D, y
<1>4. SumFunctionOnSet(g, 1 .. n) = SumFunctionOnSet(f, 1 .. n)
  BY <1>1, SumAgrees
<1> QED BY <1>2, <1>3, <1>4

LEMMA SumOfOne ==
  ASSUME NEW x, NEW f, f[x] \in Int
  PROVE  SumFunctionOnSet(f, {x}) = f[x]
<1>1. IsFiniteSet({}) /\ {} \cup {x} = {x}
  BY FS_EmptySet
<1>2. SumFunctionOnSet(f, {} \cup {x}) = SumFunctionOnSet(f, {}) + f[x]
  BY <1>1, SumAdd
<1> QED BY <1>1, <1>2, SumOfNone

\* Interest rounds down, by less than a cent.
LEMMA InterestRounds ==
  ASSUME NEW x \in Nat
  PROVE  /\ x \div Denominator \in Nat
         /\ (x \div Denominator) * Denominator <= x
         /\ x <= (x \div Denominator) * Denominator + Denominator
BY DEF Denominator

\* What a reversal adds is what its entry added, the other way round.
Flip(l) == [l EXCEPT !.type = IF @ = "DEBIT" THEN "CREDIT" ELSE "DEBIT"]

LEMMA FlipIs ==
  ASSUME NEW l \in LineRow
  PROVE  /\ Flip(l) \in LineRow /\ Flip(l).account = l.account /\ Signed(Flip(l)) = -Signed(l)
         /\ \A m \in LineRow : Flip(m) = Flip(l) => m = l
<1>1. /\ l = [account |-> l.account, type |-> l.type, amount |-> l.amount]
      /\ l.type \in {"DEBIT", "CREDIT"} /\ l.amount \in Nat
  BY DEF LineRow
<1>2. /\ Flip(l) \in LineRow /\ Flip(l).account = l.account /\ Flip(l).amount = l.amount
      /\ Flip(l).type = IF l.type = "DEBIT" THEN "CREDIT" ELSE "DEBIT"
  BY DEF Flip, LineRow
<1>3. Signed(Flip(l)) = -Signed(l)
  BY <1>1, <1>2 DEF Signed
<1>4. ASSUME NEW m \in LineRow, Flip(m) = Flip(l) PROVE m = l
  <2>1. /\ m = [account |-> m.account, type |-> m.type, amount |-> m.amount]
        /\ m.type \in {"DEBIT", "CREDIT"}
        /\ Flip(m).account = m.account /\ Flip(m).amount = m.amount
        /\ Flip(m).type = IF m.type = "DEBIT" THEN "CREDIT" ELSE "DEBIT"
    BY DEF Flip, LineRow
  <2>2. m.account = l.account /\ m.type = l.type /\ m.amount = l.amount
    BY <1>1, <1>2, <1>4, <2>1
  <2> QED BY <1>1, <2>1, <2>2
<1> QED BY <1>2, <1>3, <1>4

LEMMA ReversedImbalance ==
  ASSUME NEW e \in Entry
  PROVE  Reversed(e) \in Entry /\ Imbalance(Reversed(e)) = -Imbalance(e)
<1> DEFINE R == Reversed(e)
           key == [l \in e |-> Flip(l)]
           f == [l \in e |-> Signed(l)]
           g == [r \in R |-> Signed(r)]
           parts == [r \in R |-> SumFunctionOnSet(f, {l \in e : key[l] = r})]
<1>1. R = {Flip(l) : l \in e}
  BY DEF Reversed, Flip
<1>2. IsFiniteSet(e) /\ IsEntry(e) /\ e \subseteq LineRow
  BY EntriesAre DEF Entry
<1>3. R \in Entry
  <2>1. IsFiniteSet(R)
    <3>1. key \in Surjection(e, R)
      BY <1>1 DEF Surjection
    <3> QED BY <1>2, <3>1, FS_Surjection
  <2>2. R \subseteq LineRow
    BY <1>1, <1>2, FlipIs
  <2> QED BY <2>1, <2>2 DEF Entry
<1>4. \A l \in e : f[l] = Signed(l) /\ f[l] \in Int /\ key[l] = Flip(l) /\ key[l] \in R
  BY <1>1, <1>2 DEF Signed, IsEntry
<1>5. \A r \in R : g[r] = Signed(r) /\ g[r] \in Int
  BY <1>3, EntriesAre DEF Signed, IsEntry
<1>6. IsFiniteSet(R) /\ IsEntry(R)
  BY <1>3, EntriesAre DEF Entry
<1>7. Imbalance(e) = SumFunctionOnSet(f, e) /\ Imbalance(R) = SumFunctionOnSet(g, R)
  BY <1>2, <1>6, ImbalanceIsSum
<1>8. \A r \in R : parts[r] = SumFunctionOnSet(f, {l \in e : key[l] = r})
  OBVIOUS
<1> HIDE DEF R, key, f, g
<1>9. SumFunctionOnSet(parts, R) = SumFunctionOnSet(f, e)
  BY <1>2, <1>4, <1>6, SumByKey
<1>10. ASSUME NEW r \in R PROVE parts[r] = -g[r]
  <2>1. PICK l \in e : r = Flip(l)
    BY <1>1
  <2>2. {x \in e : key[x] = r} = {l}
    BY <1>2, <1>4, <2>1, FlipIs
  <2>3. parts[r] = f[l]
    BY <1>4, <1>8, <2>2, SumOfOne
  <2>4. Signed(r) = -Signed(l)
    BY <1>2, <2>1, FlipIs
  <2>5. Signed(l) \in Int
    BY <1>4
  <2> QED BY <1>4, <1>5, <2>3, <2>4, <2>5
<1> HIDE DEF parts
<1>11. SumFunctionOnSet(parts, R) = -SumFunctionOnSet(g, R)
  BY <1>5, <1>6, <1>10, SumNegated
<1>12. SumFunctionOnSet(g, R) \in Int
  BY <1>5, <1>6, SumIsInt
<1>13. Imbalance(R) = -Imbalance(e)
  BY <1>7, <1>9, <1>11, <1>12
<1> QED BY <1>3, <1>13 DEF R

LEMMA ReversedNets ==
  ASSUME NEW e \in Entry
  PROVE  /\ Reversed(e) \in Entry /\ (e # {} => Reversed(e) # {})
         /\ \A a : Net(Reversed(e), a) = -Net(e, a)
<1>1. Reversed(e) = {Flip(l) : l \in e} /\ e \subseteq LineRow /\ Reversed(e) \in Entry
  BY ReversedImbalance DEF Reversed, Flip, Entry
<1>2. e # {} => Reversed(e) # {}
  BY <1>1
<1>3. ASSUME NEW a PROVE Net(Reversed(e), a) = -Net(e, a)
  <2> DEFINE p == {l \in e : l.account = a}
  <2>1. p \in Entry
    BY FS_Subset DEF Entry
  <2>2. {l \in Reversed(e) : l.account = a} = {Flip(l) : l \in p}
    BY <1>1, FlipIs
  <2>3. {Flip(l) : l \in p} = Reversed(p)
    BY DEF Reversed, Flip
  <2>4. Net(Reversed(e), a) = Imbalance(Reversed(p)) /\ Net(e, a) = Imbalance(p)
    BY <2>2, <2>3 DEF Net
  <2> HIDE DEF p
  <2> QED BY <2>1, <2>4, ReversedImbalance
<1> QED BY <1>1, <1>2, <1>3

LEMMA SumOfEmpty == ASSUME NEW f PROVE SumFunctionOnSet(f, DOMAIN <<>>) = 0
BY SumOfNone

LEMMA InitLoan == LoanInit => LoanInv
<1> SUFFICES ASSUME LoanInit PROVE LoanInv
  OBVIOUS
<1>1. WaterfallInv
  BY OrderIs DEF LoanInit, WaterfallInv, WaterfallTypeOK, Conserves, SeniorFirst, SumOf, WaterfallInput, Buckets
<1>2. LoanTypes
  <2>1. \A S : <<>> \in Seq(S)
    OBVIOUS
  <2>2. owed \in [Buckets -> Nat]
    BY DEF LoanInit
  <2> QED BY <2>1, <2>2 DEF LoanInit, LoanTypes
<1>3. BookInv
  <2>1. Pairs(<<>>, <<>>, <<>>, {})
    BY DEF Pairs
  <2> QED BY <2>1 DEF LoanInit, BookInv, Waiting
<1>4. AccountsInv
  <2>1. /\ \A a : BalanceOf(book, a) = 0
        /\ SumFunction(posted) = 0 /\ Mapped("1200") = 0 /\ Mapped("1300") = 0
        /\ SumFunctionOnSet(Imbalances(book), DOMAIN book) = 0
    BY SumOfEmpty, BalanceOfNothing DEF LoanInit, Mapped, SumFunction
  <2>2. owed["principal"] = 0 /\ owed["interest"] = 0 /\ owed["penalty"] = 0
    BY DEF LoanInit, Buckets
  <2> QED BY <2>1, <2>2 DEF LoanInit, AccountsInv, Denominator
<1>5. JournalInv
  <2>1. SumFunctionOnSet(OwnNets(journal), DOMAIN journal) = 0
    BY SumOfEmpty DEF LoanInit
  <2>2. owed["principal"] = 0 /\ refused = 0 /\ journal = <<>>
    BY DEF LoanInit, Buckets
  <2> QED BY <2>1, <2>2 DEF JournalInv, Linked, fromCents
<1> QED BY <1>1, <1>2, <1>3, <1>4, <1>5 DEF LoanInit, LoanInv

-----------------------------------------------------------------------------
\* A row more in a set of books.
LEMMA AppendedIs ==
  ASSUME NEW S, NEW s \in Seq(S), NEW e \in S
  PROVE  LET t == Append(s, e) IN
         /\ t \in Seq(S) /\ Len(s) \in Nat /\ Len(t) = Len(s) + 1
         /\ DOMAIN s = 1 .. Len(s) /\ DOMAIN t = 1 .. Len(s) + 1
         /\ t[Len(s) + 1] = e /\ \A k \in 1 .. Len(s) : t[k] = s[k] /\ s[k] \in S
OBVIOUS

LEMMA ImbalancesAppended ==
  ASSUME NEW s \in Seq(Entry), NEW e \in Entry
  PROVE  /\ SumFunctionOnSet(Imbalances(Append(s, e)), DOMAIN Append(s, e))
              = SumFunctionOnSet(Imbalances(s), DOMAIN s) + Imbalance(e)
<1> DEFINE t == Append(s, e)
           n == Len(s)
           f == Imbalances(s)
           g == Imbalances(t)
<1>1. /\ n \in Nat /\ DOMAIN s = 1 .. n /\ DOMAIN t = 1 .. n + 1
      /\ t[n + 1] = e /\ \A k \in 1 .. n : t[k] = s[k] /\ s[k] \in Entry
  BY AppendedIs
<1> HIDE DEF t, n
<1>2. g[n + 1] = Imbalance(e) /\ \A k \in 1 .. n : f[k] = Imbalance(s[k]) /\ g[k] = f[k]
  BY <1>1 DEF Imbalances
<1>3. g[n + 1] \in Int /\ \A k \in 1 .. n : f[k] \in Int
  BY <1>1, <1>2, EntriesAre
<1> HIDE DEF f, g
<1>4. SumFunctionOnSet(g, 1 .. n + 1) = SumFunctionOnSet(f, 1 .. n) + g[n + 1]
  BY <1>1, <1>2, <1>3, SumOfLonger
<1> QED BY <1>1, <1>2, <1>4 DEF f, g, t

LEMMA OwnAppended ==
  ASSUME NEW s \in Seq(JournalRow), NEW r \in JournalRow
  PROVE  SumFunctionOnSet(OwnNets(Append(s, r)), DOMAIN Append(s, r))
           = SumFunctionOnSet(OwnNets(s), DOMAIN s) + Own(r)
<1> DEFINE t == Append(s, r)
           n == Len(s)
           f == OwnNets(s)
           g == OwnNets(t)
<1>1. /\ n \in Nat /\ DOMAIN s = 1 .. n /\ DOMAIN t = 1 .. n + 1
      /\ t[n + 1] = r /\ \A k \in 1 .. n : t[k] = s[k] /\ s[k] \in JournalRow
  BY AppendedIs
<1> HIDE DEF t, n
<1>2. g[n + 1] = Own(r) /\ \A k \in 1 .. n : f[k] = Own(s[k]) /\ g[k] = f[k]
  BY <1>1 DEF OwnNets
<1>3. \A x \in JournalRow : Own(x) \in Int
  BY EntriesAre DEF Own, JournalRow
<1>4. g[n + 1] \in Int /\ \A k \in 1 .. n : f[k] \in Int
  BY <1>1, <1>2, <1>3
<1> HIDE DEF f, g
<1>5. SumFunctionOnSet(g, 1 .. n + 1) = SumFunctionOnSet(f, 1 .. n) + g[n + 1]
  BY <1>1, <1>2, <1>4, SumOfLonger
<1> QED BY <1>1, <1>2, <1>5 DEF f, g, t

LEMMA LinkedAppended ==
  ASSUME NEW s \in Seq(JournalRow), Linked(s), NEW r \in JournalRow,
         r.lines # {}, r.reverses \in 0 .. Len(s), r.reverses # 0 => r.lines = Reversed(s[r.reverses].lines)
  PROVE  Linked(Append(s, r))
<1> DEFINE t == Append(s, r)
           n == Len(s)
<1>1. /\ n \in Nat /\ DOMAIN s = 1 .. n /\ DOMAIN t = 1 .. n + 1
      /\ t[n + 1] = r /\ \A k \in 1 .. n : t[k] = s[k]
  BY AppendedIs
<1>2. r.reverses \in 0 .. n /\ (r.reverses # 0 => r.lines = Reversed(s[r.reverses].lines))
  OBVIOUS
<1> HIDE DEF t, n
<1>3. ASSUME NEW k \in 1 .. n
      PROVE  /\ t[k].lines # {} /\ t[k].reverses \in 0 .. k - 1
             /\ t[k].reverses # 0 => t[k].lines = Reversed(t[t[k].reverses].lines)
  <2>1. /\ s[k].lines # {} /\ s[k].reverses \in 0 .. k - 1
        /\ s[k].reverses # 0 => s[k].lines = Reversed(s[s[k].reverses].lines)
    BY <1>1 DEF Linked
  <2>2. s[k].reverses # 0 => s[k].reverses \in 1 .. n
    BY <1>1, <2>1
  <2> QED BY <1>1, <2>1, <2>2
<1>4. /\ t[n + 1].lines # {} /\ t[n + 1].reverses \in 0 .. (n + 1) - 1
      /\ t[n + 1].reverses # 0 => t[n + 1].lines = Reversed(t[t[n + 1].reverses].lines)
  BY <1>1, <1>2
<1>5. \A k \in 1 .. n + 1 : k \in 1 .. n \/ k = n + 1
  BY <1>1
<1>6. Linked(t)
  BY <1>1, <1>3, <1>4, <1>5 DEF Linked
<1> QED BY <1>6 DEF t

Debited(m, a) == IF m.debit.account = a THEN m.debit.amount ELSE 0

LEMMA DebitedTypes ==
  ASSUME NEW m \in MappingRow, NEW a
  PROVE  Debited(m, a) \in Nat
BY DEF Debited, MappingRow, MapLine

LEMMA MappedIsNat ==
  ASSUME mappings \in Seq(MappingRow), NEW a
  PROVE  Mapped(a) \in Nat
<1> DEFINE f == [k \in DOMAIN mappings |-> Debited(mappings[k], a)]
<1>1. IsFiniteSet(DOMAIN mappings) /\ \A k \in DOMAIN mappings : mappings[k] \in MappingRow
  BY FS_Interval
<1>2. \A k \in DOMAIN mappings : f[k] \in Nat
  BY <1>1, DebitedTypes
<1>3. Mapped(a) = SumFunctionOnSet(f, DOMAIN mappings)
  BY DEF Mapped, SumFunction, Debited
<1> HIDE DEF f
<1> QED BY <1>1, <1>2, <1>3, SumIsNat

LEMMA MappedAppended ==
  ASSUME mappings \in Seq(MappingRow), NEW m \in MappingRow, mappings' = Append(mappings, m), NEW a
  PROVE  Mapped(a)' = Mapped(a) + Debited(m, a)
<1> DEFINE s == mappings
           t == Append(s, m)
           n == Len(s)
           f == [k \in DOMAIN s |-> Debited(s[k], a)]
           g == [k \in DOMAIN t |-> Debited(t[k], a)]
<1>1. /\ n \in Nat /\ DOMAIN s = 1 .. n /\ DOMAIN t = 1 .. n + 1
      /\ t[n + 1] = m /\ \A k \in 1 .. n : t[k] = s[k] /\ s[k] \in MappingRow
  BY AppendedIs
<1>2. Mapped(a) = SumFunctionOnSet(f, DOMAIN s) /\ Mapped(a)' = SumFunctionOnSet(g, DOMAIN t)
  BY DEF Mapped, SumFunction, Debited
<1> HIDE DEF s, t, n
<1>3. g[n + 1] = Debited(m, a) /\ \A k \in 1 .. n : f[k] = Debited(s[k], a) /\ g[k] = f[k]
  BY <1>1
<1>4. g[n + 1] \in Int /\ \A k \in 1 .. n : f[k] \in Int
  BY <1>1, <1>3, DebitedTypes
<1> HIDE DEF f, g
<1>5. SumFunctionOnSet(g, 1 .. n + 1) = SumFunctionOnSet(f, 1 .. n) + g[n + 1]
  BY <1>1, <1>3, <1>4, SumOfLonger
<1> QED BY <1>1, <1>2, <1>3, <1>5

LEMMA WaterfallStays == WaterfallInv /\ UNCHANGED waterfallVars => WaterfallInv'
BY NextWaterfall DEF WaterfallNext

-----------------------------------------------------------------------------
\* makeDebtEntry is refused for a debt of nothing, and books any other.
LEMMA DebtIsMade ==
  ASSUME NEW p \in Nat
  PROVE  assertBalanced(makeDebtLines(fromCents(p))) <=> p > 0
<1> DEFINE x == fromCents(p)
           e == makeDebtLines(x)
           a == Line("LOAN_RECEIVABLE", "DEBIT", x)
           b == Line("UNEARNED_INCOME", "CREDIT", x)
<1>1. x \in Nat /\ (x > 0 <=> p > 0)
  BY DEF fromCents
<1> HIDE DEF x
<1>2. e = createDebtEntry(x) /\ e = {a, b}
  BY DEF makeDebtLines, createDebtEntry
<1>3. a.amount = x /\ b.amount = x
  BY DEF Line
<1> HIDE DEF e, a, b
<1>4. e \in Entry /\ e # {} /\ Imbalance(e) = 0
  BY <1>1, <1>2, DebtNets
<1>5. (\A l \in e : l.amount > 0) <=> p > 0
  BY <1>1, <1>2, <1>3
<1>6. assertBalanced(e) => \A l \in e : l.amount > 0
  BY DEF assertBalanced
<1>7. (\A l \in e : l.amount > 0) => assertBalanced(e)
  BY <1>4, ValidWhenNothingAdded
<1>8. assertBalanced(e) <=> p > 0
  BY <1>5, <1>6, <1>7
<1> QED BY <1>8 DEF e, x

\* Principal, interest and penalties owed are natural numbers.
LEMMA OwedAre ==
  ASSUME LoanInv
  PROVE  /\ owed["principal"] \in Nat /\ owed["interest"] \in Nat /\ owed["penalty"] \in Nat
         /\ calls \in Nat /\ due \in Nat /\ change \in Nat /\ refused \in Nat
BY DEF LoanInv, LoanTypes, Buckets

\* One call more leaves room for a cent more of rounding.
LEMMA MoreRoom ==
  ASSUME NEW d \in Nat, NEW c \in Nat, NEW m \in Nat,
         d - c * Denominator <= m * Denominator, m * Denominator <= d
  PROVE  d - (c + 1) * Denominator <= m * Denominator
<1> DEFINE N == Denominator
           x == c * N
           y == m * N
<1>1. N \in Nat
  BY DEF Denominator
<1> HIDE DEF N
<1>2. x \in Nat /\ y \in Nat /\ (c + 1) * N = x + N
  BY <1>1
<1>3. d - x <= y
  BY DEF N
<1> HIDE DEF x, y
<1>4. d - (x + N) <= y
  BY <1>1, <1>2, <1>3
<1> QED BY <1>2, <1>4 DEF N, y

LEMMA IssueLoan == LoanInv /\ (\E p \in Principals : Issue(p)) => LoanInv'
<1> SUFFICES ASSUME LoanInv, NEW p \in Principals, Issue(p) PROVE LoanInv'
  OBVIOUS
<1> DEFINE e == createDebtEntry(p)
           x == fromCents(p)
           r == [lines |-> makeDebtLines(x), reverses |-> 0]
<1>1. p \in Nat /\ x \in Nat /\ x = 10 * p
  BY LoanAssumption DEF fromCents
<1>2. /\ book = <<>> /\ calls' = calls + 1 /\ owed' = [owed EXCEPT !["principal"] = p]
      /\ book' = Append(book, e) /\ journal' = Made(makeDebtLines(x), 0)
      /\ UNCHANGED waterfallVars /\ paying' = paying /\ payments' = payments /\ mappings' = mappings
      /\ posted' = posted /\ due' = due /\ change' = change /\ refused' = refused
      /\ reference' = Append(reference, 0) /\ recorded' = recorded /\ unbooked' = unbooked
  BY DEF Issue, Called
<1>3. /\ e \in Entry /\ e # {}
      /\ Net(e, "LOAN_RECEIVABLE") = p /\ Net(e, "CASH_ASSET") = 0
      /\ Net(e, "INTEREST_INCOME") = 0 /\ Net(e, "PENALTY_INCOME") = 0 /\ Imbalance(e) = 0
  BY <1>1, DebtNets
<1>4. r \in JournalRow /\ r.lines # {} /\ r.reverses = 0 /\ Own(r) = x
  <2>1. /\ createDebtEntry(x) \in Entry /\ createDebtEntry(x) # {}
        /\ Net(createDebtEntry(x), "LOAN_RECEIVABLE") = x
    BY <1>1, DebtNets
  <2>2. makeDebtLines(x) = createDebtEntry(x)
    BY DEF makeDebtLines, createDebtEntry
  <2> QED BY <2>1, <2>2 DEF JournalRow, Own
<1>5. /\ journal' = IF p > 0 THEN Append(journal, r) ELSE journal
  BY <1>1, <1>2, DebtIsMade DEF Made
<1> HIDE DEF e, x, r
<1>6. /\ LoanTypes /\ BookInv /\ AccountsInv /\ JournalInv /\ WaterfallInv
      /\ owed \in [Buckets -> Nat] /\ book \in Seq(Entry) /\ journal \in Seq(JournalRow)
  BY DEF LoanInv, LoanTypes
<1>7. /\ owed' \in [Buckets -> Nat] /\ owed'["principal"] = p
      /\ owed'["interest"] = owed["interest"] /\ owed'["penalty"] = owed["penalty"]
  BY <1>1, <1>2, <1>6 DEF Buckets
<1>8. owed["principal"] = 0
  BY <1>2, <1>6, BalanceOfNothing DEF AccountsInv
<1>9. book' \in Seq(Entry) /\ \A a : BalanceOf(book', a) = BalanceOf(book, a) + Net(e, a)
  BY <1>2, <1>3, <1>6, BalanceAppended
<1>10. WaterfallInv'
  BY <1>2, <1>6, WaterfallStays
<1>11. LoanTypes'
  <2>1. journal' \in Seq(JournalRow)
    BY <1>4, <1>5, <1>6
  <2>2. reference' \in Seq(Nat)
    BY <1>2, <1>6 DEF LoanTypes
  <2> QED BY <1>2, <1>6, <1>7, <1>9, <2>1, <2>2 DEF LoanTypes
<1>12. BookInv'
  <2>1. ~paying /\ payments = <<>> /\ ~recorded /\ Pairs(<<>>, reference, <<>>, unbooked)
    BY <1>2, <1>6 DEF BookInv, Waiting
  <2>2. reference = <<>> /\ unbooked = {}
    BY <1>6, <2>1 DEF Pairs, LoanTypes
  <2>3. book' = <<e>> /\ reference' = <<0>>
    BY <1>2, <2>2
  <2>4. Pairs(<<e>>, <<0>>, <<>>, {})
    BY DEF Pairs
  <2> QED BY <1>2, <1>3, <2>1, <2>2, <2>3, <2>4 DEF BookInv, Waiting
<1>13. AccountsInv'
  <2>1. Mapped("1200")' = Mapped("1200") /\ Mapped("1300")' = Mapped("1300")
    BY <1>2 DEF Mapped
  <2>2. Mapped("1200") \in Nat
    BY MappedIsNat DEF LoanInv, LoanTypes
  <2>3. SumFunctionOnSet(Imbalances(book'), DOMAIN book') = SumFunctionOnSet(Imbalances(book), DOMAIN book) + 0
    BY <1>2, <1>3, <1>6, ImbalancesAppended
  <2>4. \A a : BalanceOf(book, a) \in Int
    BY <1>6, BalanceIsTotal
  <2>5. /\ BalanceOf(book', "LOAN_RECEIVABLE") = owed'["principal"]
        /\ BalanceOf(book', "CASH_ASSET") = SumFunction(posted')
    <3>1. /\ BalanceOf(book', "LOAN_RECEIVABLE") = BalanceOf(book, "LOAN_RECEIVABLE") + p
          /\ BalanceOf(book', "CASH_ASSET") = BalanceOf(book, "CASH_ASSET") + 0
      BY <1>3, <1>9
    <3>2. BalanceOf(book, "LOAN_RECEIVABLE") = 0 /\ BalanceOf(book, "CASH_ASSET") = SumFunction(posted)
      BY <1>6, <1>8 DEF AccountsInv
    <3>3. BalanceOf(book, "CASH_ASSET") \in Int
      BY <2>4
    <3> QED BY <1>1, <1>2, <1>7, <3>1, <3>2, <3>3
  <2>6. owed'["interest"] = Mapped("1200")' + BalanceOf(book', "INTEREST_INCOME")
    BY <1>3, <1>6, <1>7, <1>9, <2>1, <2>4 DEF AccountsInv
  <2>7. owed'["penalty"] = Mapped("1300")' + BalanceOf(book', "PENALTY_INCOME")
    BY <1>3, <1>6, <1>7, <1>9, <2>1, <2>4 DEF AccountsInv
  <2>8. SumFunctionOnSet(Imbalances(book'), DOMAIN book') = change'
    BY <1>2, <1>6, <2>3, OwedAre DEF AccountsInv
  <2>9. /\ due' - calls' * Denominator <= Mapped("1200")' * Denominator
        /\ Mapped("1200")' * Denominator <= due'
    <3>1. /\ due \in Nat /\ calls \in Nat
          /\ due - calls * Denominator <= Mapped("1200") * Denominator
          /\ Mapped("1200") * Denominator <= due
      BY <1>6, OwedAre DEF AccountsInv
    <3>2. due - (calls + 1) * Denominator <= Mapped("1200") * Denominator
      BY <2>2, <3>1, MoreRoom
    <3> QED BY <1>2, <2>1, <3>1, <3>2
  <2> QED BY <2>5, <2>6, <2>7, <2>8, <2>9 DEF AccountsInv
<1>14. JournalInv'
  <2>1. Len(journal) \in Nat /\ Linked(journal)
    BY <1>6 DEF JournalInv
  <2>2. Linked(journal')
    BY <1>4, <1>5, <1>6, <2>1, LinkedAppended
  <2>3. SumFunctionOnSet(OwnNets(journal'), DOMAIN journal')
          = SumFunctionOnSet(OwnNets(journal), DOMAIN journal) + x
    <3>1. CASE p > 0
      BY <1>4, <1>5, <1>6, <3>1, OwnAppended
    <3>2. CASE p = 0
      BY <1>1, <1>5, <1>6, <3>2, OwedAre DEF JournalInv, fromCents
    <3> QED BY <1>1, <3>1, <3>2
  <2> QED BY <1>1, <1>2, <1>6, <1>7, <1>8, <2>2, <2>3, OwedAre DEF JournalInv, fromCents
<1>15. paying' => demand' = demand /\ paying
  BY <1>2 DEF waterfallVars
<1>16. ~paying'
  BY <1>2, <1>6 DEF BookInv
<1> QED BY <1>10, <1>11, <1>12, <1>13, <1>14, <1>16 DEF LoanInv

-----------------------------------------------------------------------------
LEMMA MappingIs ==
  ASSUME NEW x \in Nat, NEW y \in Nat
  PROVE  /\ mapInterestAccrual(x) \in MappingRow
         /\ Debited(mapInterestAccrual(x), "1200") = x /\ Debited(mapInterestAccrual(x), "1300") = 0
         /\ mapPenaltyCharge(x) \in MappingRow
         /\ Debited(mapPenaltyCharge(x), "1200") = 0 /\ Debited(mapPenaltyCharge(x), "1300") = x
         /\ mapPaymentAllocation(x, y) \in MappingRow
         /\ Debited(mapPaymentAllocation(x, y), "1200") = 0
         /\ Debited(mapPaymentAllocation(x, y), "1300") = 0
<1>1. \A a, b \in {"1010", "1100", "1200", "1300", "4200", "4300"} :
        /\ Mapping(a, x, b, y) \in MappingRow
        /\ Mapping(a, x, b, x) \in MappingRow
        /\ Mapping(a, x, b, y).debit.account = a /\ Mapping(a, x, b, y).debit.amount = x
        /\ Mapping(a, x, b, x).debit.account = a /\ Mapping(a, x, b, x).debit.amount = x
  BY DEF Mapping, Line, MappingRow, MapLine
<1>2. /\ mapInterestAccrual(x) \in MappingRow
      /\ Debited(mapInterestAccrual(x), "1200") = x /\ Debited(mapInterestAccrual(x), "1300") = 0
  BY <1>1 DEF mapInterestAccrual, Debited
<1>3. /\ mapPenaltyCharge(x) \in MappingRow
      /\ Debited(mapPenaltyCharge(x), "1200") = 0 /\ Debited(mapPenaltyCharge(x), "1300") = x
  BY <1>1 DEF mapPenaltyCharge, Debited
<1>4. /\ mapPaymentAllocation(x, y) \in MappingRow
      /\ Debited(mapPaymentAllocation(x, y), "1200") = 0
      /\ Debited(mapPaymentAllocation(x, y), "1300") = 0
  BY <1>1 DEF mapPaymentAllocation, Debited
<1> QED BY <1>2, <1>3, <1>4

\* An accrual or a penalty leaves payments, book and journal as they are.
ChargeKeeps ==
  /\ UNCHANGED <<waterfallVars, paying, recorded, book, reference, payments, journal, posted>>
  /\ UNCHANGED <<change, unbooked, refused>>
  /\ calls' = calls + 1 /\ ~paying /\ due' \in Nat

LEMMA ChargeKeepsBooks ==
  ASSUME LoanInv, ChargeKeeps, owed' \in [Buckets -> Nat], owed'["principal"] = owed["principal"],
         mappings' \in Seq(MappingRow)
  PROVE  WaterfallInv' /\ LoanTypes' /\ ~paying' /\ BookInv' /\ JournalInv'
         /\ BalanceOf(book', "LOAN_RECEIVABLE") = owed'["principal"]
         /\ BalanceOf(book', "CASH_ASSET") = SumFunction(posted')
         /\ SumFunctionOnSet(Imbalances(book'), DOMAIN book') = change'
<1>1. /\ UNCHANGED waterfallVars /\ paying' = paying /\ book' = book /\ payments' = payments
      /\ journal' = journal /\ posted' = posted /\ change' = change /\ refused' = refused
      /\ calls' = calls + 1 /\ ~paying /\ due' \in Nat
      /\ reference' = reference /\ recorded' = recorded /\ unbooked' = unbooked
  BY DEF ChargeKeeps
<1>2. LoanTypes /\ BookInv /\ AccountsInv /\ JournalInv /\ WaterfallInv
  BY DEF LoanInv
<1>3. WaterfallInv'
  BY <1>1, <1>2, WaterfallStays
<1>4. LoanTypes'
  BY <1>1, <1>2 DEF LoanTypes
<1>5. BookInv'
  <2>1. ~recorded
    BY <1>1, <1>2 DEF BookInv
  <2> QED BY <1>1, <1>2, <2>1 DEF BookInv, Waiting
<1>6. JournalInv'
  BY <1>1, <1>2 DEF JournalInv
<1> QED BY <1>1, <1>2, <1>3, <1>4, <1>5, <1>6 DEF AccountsInv

LEMMA RoundingAdds ==
  ASSUME NEW m \in Nat, NEW i \in Nat, NEW d \in Nat, NEW x \in Nat, NEW c \in Nat,
         d - c * Denominator <= m * Denominator, m * Denominator <= d,
         i * Denominator <= x, x <= i * Denominator + Denominator
  PROVE  /\ (d + x) - (c + 1) * Denominator <= (m + i) * Denominator
         /\ (m + i) * Denominator <= d + x
BY DEF Denominator

LEMMA AccrueLoan == LoanInv /\ (\E d \in DayCounts : Accrue(d)) => LoanInv'
<1> SUFFICES ASSUME LoanInv, NEW d \in DayCounts, Accrue(d) PROVE LoanInv'
  OBVIOUS
<1> DEFINE x == owed["principal"] * Rate * d
           i == x \div Denominator
           m == mapInterestAccrual(i)
<1>1. x \in Nat
  <2>1. owed["principal"] \in Nat /\ Rate \in Nat /\ d \in Nat
    BY OwedAre, LoanAssumption
  <2>2. \A a, b \in Nat : a * b \in Nat
    OBVIOUS
  <2> QED BY <2>1, <2>2
<1>2. i = calculateInterest(owed["principal"], Rate, d)
  BY DEF calculateInterest
<1>3. /\ due' = due + x /\ ~paying /\ ChargeKeeps
      /\ i > 0 => owed' = [owed EXCEPT !["interest"] = @ + i] /\ mappings' = Append(mappings, m)
      /\ ~(i > 0) => owed' = owed /\ mappings' = mappings
  BY <1>1, <1>2, OwedAre DEF Accrue, Called, ChargeKeeps
<1>4. calls' = calls + 1
  BY DEF Accrue, Called
<1> HIDE DEF x
<1>5. i \in Nat /\ i * Denominator <= x /\ x <= i * Denominator + Denominator
  BY <1>1, InterestRounds
<1> HIDE DEF i
<1>6. m \in MappingRow /\ Debited(m, "1200") = i /\ Debited(m, "1300") = 0
  BY <1>5, MappingIs
<1> HIDE DEF m
<1>7. /\ owed \in [Buckets -> Nat] /\ mappings \in Seq(MappingRow) /\ book \in Seq(Entry) /\ AccountsInv
      /\ book' = book
  BY <1>3 DEF LoanInv, LoanTypes, ChargeKeeps
<1>8. /\ owed' \in [Buckets -> Nat] /\ owed'["principal"] = owed["principal"]
      /\ owed'["interest"] = owed["interest"] + i /\ owed'["penalty"] = owed["penalty"]
  <2>1. CASE i > 0
    BY <1>3, <1>5, <1>7, <2>1 DEF Buckets
  <2>2. CASE i = 0
    BY <1>3, <1>7, <2>2, OwedAre
  <2> QED BY <1>5, <2>1, <2>2
<1>9. mappings' \in Seq(MappingRow) /\ Mapped("1200")' = Mapped("1200") + i /\ Mapped("1300")' = Mapped("1300")
  <2>1. Mapped("1200") \in Nat /\ Mapped("1300") \in Nat
    BY <1>7, MappedIsNat
  <2>2. CASE i > 0
    <3>0. mappings' = Append(mappings, m) /\ m \in MappingRow /\ mappings \in Seq(MappingRow)
      BY <1>3, <1>6, <1>7, <2>2
    <3>1. /\ Mapped("1200")' = Mapped("1200") + Debited(m, "1200")
          /\ Mapped("1300")' = Mapped("1300") + Debited(m, "1300")
      BY <3>0, MappedAppended
    <3>2. mappings' \in Seq(MappingRow)
      BY <3>0
    <3>3. Debited(m, "1200") = i /\ Debited(m, "1300") = 0
      BY <1>6
    <3>4. Mapped("1300")' = Mapped("1300")
      BY <2>1, <3>1, <3>3
    <3> QED BY <3>1, <3>2, <3>3, <3>4
  <2>3. CASE i = 0
    <3>1. mappings' = mappings
      BY <1>3, <2>3
    <3>2. Mapped("1200")' = Mapped("1200") /\ Mapped("1300")' = Mapped("1300")
      BY <3>1 DEF Mapped
    <3> QED BY <1>7, <2>1, <2>3, <3>1, <3>2
  <2> QED BY <1>5, <2>2, <2>3
<1>10. /\ WaterfallInv' /\ LoanTypes' /\ ~paying' /\ BookInv' /\ JournalInv'
       /\ BalanceOf(book', "LOAN_RECEIVABLE") = owed'["principal"]
       /\ BalanceOf(book', "CASH_ASSET") = SumFunction(posted')
       /\ SumFunctionOnSet(Imbalances(book'), DOMAIN book') = change'
  BY <1>3, <1>8, <1>9, ChargeKeepsBooks
<1>11. /\ owed'["interest"] = Mapped("1200")' + BalanceOf(book', "INTEREST_INCOME")
       /\ owed'["penalty"] = Mapped("1300")' + BalanceOf(book', "PENALTY_INCOME")
  <2>1. Mapped("1200") \in Nat /\ BalanceOf(book, "INTEREST_INCOME") \in Int
    BY <1>7, MappedIsNat, BalanceIsTotal
  <2> QED BY <1>5, <1>7, <1>8, <1>9, <2>1 DEF AccountsInv
<1>12. /\ due' - calls' * Denominator <= Mapped("1200")' * Denominator
       /\ Mapped("1200")' * Denominator <= due'
  <2>1. Mapped("1200") \in Nat
    BY <1>7, MappedIsNat
  <2>2. /\ due - calls * Denominator <= Mapped("1200") * Denominator
        /\ Mapped("1200") * Denominator <= due
    BY <1>7 DEF AccountsInv
  <2> DEFINE M == Mapped("1200")
  <2>3. /\ (due + x) - (calls + 1) * Denominator <= (M + i) * Denominator
        /\ (M + i) * Denominator <= due + x
    <3>1. M \in Nat /\ due \in Nat /\ calls \in Nat
      BY <2>1, OwedAre
    <3>2. due - calls * Denominator <= M * Denominator /\ M * Denominator <= due
      BY <2>2
    <3> HIDE DEF M
    <3> QED BY <1>1, <1>5, <3>1, <3>2, RoundingAdds
  <2> QED BY <1>3, <1>4, <1>9, <2>3
<1>13. AccountsInv'
  BY <1>10, <1>11, <1>12 DEF AccountsInv
<1> QED BY <1>10, <1>13 DEF LoanInv

LEMMA PenalizeLoan == LoanInv /\ (\E d \in DayCounts : \E q \in PenaltiesOf(d) : Penalize(q)) => LoanInv'
<1> SUFFICES ASSUME LoanInv, NEW d \in DayCounts, NEW q \in PenaltiesOf(d), Penalize(q) PROVE LoanInv'
  OBVIOUS
<1> DEFINE m == mapPenaltyCharge(q)
<1>1. q \in Nat
  <2> DEFINE p == owed["principal"]
  <2>1. p \in Nat /\ Rate \in Nat /\ DailyPenalty \in Nat /\ d \in Nat
    BY OwedAre, LoanAssumption
  <2> HIDE DEF p
  <2>2. \A a, b \in Nat : a * b \in Nat /\ a \div 10000 \in Nat
    OBVIOUS
  <2>3. FinancialPenalty(p, Rate, d) \in Nat
    BY <2>1, <2>2, InterestRounds DEF FinancialPenalty
  <2>4. calculatePenalty(p, DailyPenalty, d) \in Nat
    BY <2>1, <2>2 DEF calculatePenalty
  <2> QED BY <2>3, <2>4 DEF PenaltiesOf, p
<1>2. m \in MappingRow /\ Debited(m, "1200") = 0 /\ Debited(m, "1300") = q
  BY <1>1, MappingIs
<1>3. /\ ~paying /\ ChargeKeeps /\ due' = due /\ calls' = calls + 1
      /\ owed' = [owed EXCEPT !["penalty"] = @ + q] /\ mappings' = Append(mappings, m)
  BY OwedAre DEF Penalize, Called, ChargeKeeps
<1> HIDE DEF m
<1>4. /\ owed \in [Buckets -> Nat] /\ mappings \in Seq(MappingRow) /\ book \in Seq(Entry) /\ AccountsInv
      /\ book' = book
  BY <1>3 DEF LoanInv, LoanTypes, ChargeKeeps
<1>5. /\ owed' \in [Buckets -> Nat] /\ owed'["principal"] = owed["principal"]
      /\ owed'["interest"] = owed["interest"] /\ owed'["penalty"] = owed["penalty"] + q
  BY <1>1, <1>3, <1>4 DEF Buckets
<1>6. Mapped("1200") \in Nat /\ Mapped("1300") \in Nat
  BY <1>4, MappedIsNat
<1>7. mappings' \in Seq(MappingRow) /\ Mapped("1200")' = Mapped("1200") /\ Mapped("1300")' = Mapped("1300") + q
  <2>1. /\ Mapped("1200")' = Mapped("1200") + Debited(m, "1200")
        /\ Mapped("1300")' = Mapped("1300") + Debited(m, "1300")
    BY <1>2, <1>3, <1>4, MappedAppended
  <2> QED BY <1>2, <1>3, <1>4, <1>6, <2>1
<1>8. /\ WaterfallInv' /\ LoanTypes' /\ ~paying' /\ BookInv' /\ JournalInv'
      /\ BalanceOf(book', "LOAN_RECEIVABLE") = owed'["principal"]
      /\ BalanceOf(book', "CASH_ASSET") = SumFunction(posted')
      /\ SumFunctionOnSet(Imbalances(book'), DOMAIN book') = change'
  BY <1>3, <1>5, <1>7, ChargeKeepsBooks
<1>9. /\ owed'["interest"] = Mapped("1200")' + BalanceOf(book', "INTEREST_INCOME")
      /\ owed'["penalty"] = Mapped("1300")' + BalanceOf(book', "PENALTY_INCOME")
  <2>1. BalanceOf(book, "PENALTY_INCOME") \in Int
    BY <1>4, BalanceIsTotal
  <2> QED BY <1>1, <1>4, <1>5, <1>6, <1>7, <2>1 DEF AccountsInv
<1>10. /\ due' - calls' * Denominator <= Mapped("1200")' * Denominator
       /\ Mapped("1200")' * Denominator <= due'
  <2>1. /\ due \in Nat /\ calls \in Nat /\ Mapped("1200") \in Nat
        /\ due - calls * Denominator <= Mapped("1200") * Denominator
        /\ Mapped("1200") * Denominator <= due
    BY <1>4, <1>6, OwedAre DEF AccountsInv
  <2>2. due - (calls + 1) * Denominator <= Mapped("1200") * Denominator
    BY <2>1, MoreRoom
  <2>3. due' = due /\ calls' = calls + 1 /\ Mapped("1200")' = Mapped("1200")
    BY <1>3, <1>7
  <2> QED BY <2>1, <2>2, <2>3
<1>11. AccountsInv'
  BY <1>8, <1>9, <1>10 DEF AccountsInv
<1> QED BY <1>8, <1>11 DEF LoanInv

-----------------------------------------------------------------------------
\* A step that changes neither what is owed nor the other books.
LEMMA OtherBooksStay ==
  ASSUME LoanInv, UNCHANGED <<owed, book, reference, payments, mappings, posted>>,
         UNCHANGED <<recorded, due, change, unbooked, refused>>,
         calls' \in {calls, calls + 1}, paying' \in BOOLEAN, book = <<>> => ~paying',
         recorded => UNCHANGED <<waterfallVars, paying>>,
         journal' \in Seq(JournalRow)
  PROVE  LoanTypes' /\ BookInv' /\ AccountsInv'
<1>1. /\ owed' = owed /\ book' = book /\ payments' = payments /\ mappings' = mappings
      /\ posted' = posted /\ due' = due /\ change' = change /\ refused' = refused
      /\ reference' = reference /\ recorded' = recorded /\ unbooked' = unbooked
      /\ calls' = calls \/ calls' = calls + 1
  OBVIOUS
<1>2. LoanTypes /\ BookInv /\ AccountsInv
  BY DEF LoanInv
<1>3. LoanTypes'
  BY <1>1, <1>2 DEF LoanTypes
<1>4. BookInv'
  <2>1. recorded => PaymentRecord' = PaymentRecord /\ Done' = Done /\ paying' = paying
    BY DEF PaymentRecord, Done, waterfallVars
  <2>2. Waiting' = Waiting
    BY <1>1 DEF Waiting
  <2> QED BY <1>1, <1>2, <2>1, <2>2 DEF BookInv
<1>5. AccountsInv'
  <2>1. Mapped("1200")' = Mapped("1200") /\ Mapped("1300")' = Mapped("1300")
    BY <1>1 DEF Mapped
  <2>2. Mapped("1200") \in Nat
    BY MappedIsNat DEF LoanInv, LoanTypes
  <2>3. due' - calls' * Denominator <= Mapped("1200")' * Denominator
    BY <1>1, <1>2, <2>1, <2>2, OwedAre DEF AccountsInv, Denominator
  <2> QED BY <1>1, <1>2, <2>1, <2>3 DEF AccountsInv
<1> QED BY <1>3, <1>4, <1>5

LEMMA PayLoan == LoanInv /\ (\E a \in Amounts : Pay(a)) => LoanInv'
<1> SUFFICES ASSUME LoanInv, NEW a \in Amounts, Pay(a) PROVE LoanInv'
  OBVIOUS
<1>1. /\ book # <<>> /\ paying' = TRUE /\ demand' = [payment |-> a, owed |-> owed]
      /\ stage' = 1 /\ left' = a /\ paid' = [b \in Buckets |-> 0]
      /\ owed' = owed /\ UNCHANGED books /\ due' = due /\ change' = change /\ refused' = refused
      /\ recorded' = recorded /\ unbooked' = unbooked /\ calls' = calls + 1 /\ ~recorded
  BY DEF Pay, Called, LoanInv, BookInv
<1>2. a \in Nat /\ owed \in [Buckets -> Nat] /\ journal \in Seq(JournalRow) /\ JournalInv
  BY LoanAssumption DEF LoanInv, LoanTypes
<1>3. WaterfallInv'
  BY <1>1, <1>2, OrderIs DEF WaterfallInv, WaterfallTypeOK, Conserves, SeniorFirst, SumOf, WaterfallInput, Buckets
<1>4. LoanTypes' /\ BookInv' /\ AccountsInv'
  BY <1>1, <1>2, OtherBooksStay DEF books
<1>5. JournalInv'
  BY <1>1, <1>2 DEF JournalInv, books
<1>6. demand'.owed = owed'
  BY <1>1
<1> QED BY <1>3, <1>4, <1>5, <1>6 DEF LoanInv

LEMMA SplitLoan == LoanInv /\ Split => LoanInv'
<1> SUFFICES ASSUME LoanInv, Split PROVE LoanInv'
  OBVIOUS
<1>1. /\ paying /\ Allocate /\ demand' = demand /\ UNCHANGED <<loan, books, history>>
  BY DEF Split, Allocate
<1>2. owed' = owed /\ paying' = paying /\ journal' = journal /\ refused' = refused /\ book # <<>>
  BY <1>1 DEF loan, books, history, LoanInv, BookInv
<1>3. WaterfallInv'
  BY <1>1, AllocateWaterfall DEF LoanInv
<1>4. LoanTypes' /\ BookInv' /\ AccountsInv'
  <2>1. paying \in BOOLEAN /\ journal \in Seq(JournalRow)
    BY DEF LoanInv, LoanTypes
  <2>2. ~recorded
    BY <1>1, OrderIs DEF Allocate, LoanInv, BookInv, Done, WaterfallInv, WaterfallTypeOK
  <2> QED BY <1>1, <1>2, <2>1, <2>2, OtherBooksStay DEF loan, books, history
<1>5. JournalInv'
  BY <1>2 DEF JournalInv, LoanInv
<1> QED BY <1>1, <1>2, <1>3, <1>4, <1>5 DEF LoanInv

\* What the waterfall hands over when it is through.
LEMMA SplitIs ==
  ASSUME LoanInv
  PROVE  /\ demand.payment \in Nat /\ left \in Nat
         /\ paid["principal"] \in Nat /\ paid["interest"] \in Nat /\ paid["penalty"] \in Nat
         /\ paid["principal"] + paid["interest"] + paid["penalty"] + left = demand.payment
         /\ paying => \A b \in Buckets : paid[b] \in Nat /\ owed[b] \in Nat /\ paid[b] <= owed[b]
<1>1. /\ demand \in WaterfallInput /\ left \in Nat /\ paid \in [Buckets -> Nat]
      /\ SumOf(paid) + left = demand.payment
      /\ \A b \in Buckets : paid[b] <= demand.owed[b]
      /\ owed \in [Buckets -> Nat] /\ (paying => demand.owed = owed)
  BY DEF LoanInv, WaterfallInv, WaterfallTypeOK, Conserves, LoanTypes
<1> QED BY <1>1 DEF WaterfallInput, SumOf, Buckets

LEMMA MadeFromCents ==
  ASSUME NEW t \in Nat, NEW p \in Nat, NEW i \in Nat, NEW n \in Nat
  PROVE  LET e == makePaymentLines(fromCents(t), fromCents(p), fromCents(i), fromCents(n)) IN
         e \in Entry /\ e # {} /\ Net(e, "LOAN_RECEIVABLE") = -(10 * p)
<1> DEFINE T == fromCents(t)
           P == fromCents(p)
           I == fromCents(i)
           N == fromCents(n)
<1>1. T \in Nat /\ P \in Nat /\ I \in Nat /\ N \in Nat /\ P = 10 * p
  BY DEF fromCents
<1> HIDE DEF T, P, I, N
<1>2. /\ makePaymentLines(T, P, I, N) \in Entry /\ makePaymentLines(T, P, I, N) # {}
      /\ Net(makePaymentLines(T, P, I, N), "LOAN_RECEIVABLE") = -P
  BY <1>1, MadePaymentNets
<1> QED BY <1>1, <1>2 DEF T, P, I, N

\* The entry of the payment that waits for it is one pair more.
LEMMA PairAdded ==
  ASSUME NEW rows \in Seq(Entry), NEW refs \in Seq(Nat), NEW paymentRows \in Seq(PaymentRow),
         NEW w, NEW e \in Entry, Len(paymentRows) # 0, Len(paymentRows) \notin w,
         Pairs(rows, refs, paymentRows, w \cup {Len(paymentRows)}),
         e = EntryOf(paymentRows[Len(paymentRows)])
  PROVE  Pairs(Append(rows, e), Append(refs, Len(paymentRows)), paymentRows, w)
<1> DEFINE l == Len(paymentRows)
           n == Len(rows)
           R == Append(rows, e)
           F == Append(refs, l)
<1>1. /\ l \in Nat \ {0} /\ n \in Nat /\ Len(refs) = n /\ w \cup {l} \subseteq 1 .. l
      /\ Len(R) = n + 1 /\ Len(F) = n + 1 /\ R[n + 1] = e /\ F[n + 1] = l
      /\ \A j \in 1 .. n : R[j] = rows[j] /\ F[j] = refs[j]
  BY DEF Pairs
<1>2. /\ \A j \in 1 .. n :
            /\ refs[j] \in 0 .. l
            /\ refs[j] # 0 => refs[j] \notin w \cup {l} /\ rows[j] = EntryOf(paymentRows[refs[j]])
      /\ \A i, j \in 1 .. n : refs[i] = refs[j] => i = j
      /\ \A k \in 1 .. l : k \in w \cup {l} \/ \E j \in 1 .. n : refs[j] = k
  BY <1>1 DEF Pairs
<1>3. e = EntryOf(paymentRows[l])
  OBVIOUS
<1> HIDE DEF l, n, R, F
<1>4. \A j \in 1 .. n + 1 : j \in 1 .. n \/ j = n + 1
  BY <1>1
<1>5. \A j \in 1 .. n + 1 :
        /\ F[j] \in 0 .. l
        /\ F[j] # 0 => F[j] \notin w /\ R[j] = EntryOf(paymentRows[F[j]])
  <2>1. l \in 0 .. l /\ l \notin w
    BY <1>1 DEF l
  <2> TAKE j \in 1 .. n + 1
  <2>2. CASE j \in 1 .. n
    <3>1. /\ refs[j] \in 0 .. l
          /\ refs[j] # 0 => refs[j] \notin w \cup {l} /\ rows[j] = EntryOf(paymentRows[refs[j]])
      BY <1>2, <2>2
    <3>2. R[j] = rows[j] /\ F[j] = refs[j]
      BY <1>1, <2>2
    <3> QED BY <3>1, <3>2
  <2>3. CASE j = n + 1
    <3>1. R[j] = e /\ F[j] = l
      BY <1>1, <2>3
    <3> QED BY <1>3, <2>1, <3>1
  <2> QED BY <1>4, <2>2, <2>3
<1>6. \A i, j \in 1 .. n + 1 : F[i] = F[j] => i = j
  <2>1. \A j \in 1 .. n : refs[j] # l
    BY <1>1, <1>2
  <2>2. F[n + 1] = l /\ \A j \in 1 .. n : F[j] = refs[j]
    BY <1>1
  <2> QED BY <1>2, <1>4, <2>1, <2>2
<1>7. \A k \in 1 .. l : k \in w \/ \E j \in 1 .. n + 1 : F[j] = k
  <2> TAKE k \in 1 .. l
  <2>1. n + 1 \in 1 .. n + 1 /\ \A j \in 1 .. n : j \in 1 .. n + 1
    BY <1>1
  <2> QED BY <1>1, <1>2, <2>1
<1>8. w \subseteq 1 .. l
  BY <1>1
<1> QED BY <1>1, <1>5, <1>6, <1>7, <1>8 DEF Pairs, l, n, R, F

\* A payment more waits for its entry.
LEMMA PairWaits ==
  ASSUME NEW rows, NEW refs, NEW paymentRows \in Seq(PaymentRow), NEW w, NEW rec \in PaymentRow,
         Pairs(rows, refs, paymentRows, w)
  PROVE  /\ Pairs(rows, refs, Append(paymentRows, rec), w \cup {Len(paymentRows) + 1})
         /\ Len(paymentRows) + 1 \notin w
<1> DEFINE l == Len(paymentRows)
           P == Append(paymentRows, rec)
<1>1. l \in Nat /\ Len(P) = l + 1 /\ \A k \in 1 .. l : P[k] = paymentRows[k]
  OBVIOUS
<1> HIDE DEF l, P
<1>2. /\ Len(refs) = Len(rows) /\ w \subseteq 1 .. l
      /\ \A j \in 1 .. Len(refs) :
           /\ refs[j] \in 0 .. l
           /\ refs[j] # 0 => refs[j] \notin w /\ rows[j] = EntryOf(paymentRows[refs[j]])
      /\ \A i, j \in 1 .. Len(refs) : refs[i] = refs[j] => i = j
      /\ \A k \in 1 .. l : k \in w \/ \E j \in 1 .. Len(refs) : refs[j] = k
  BY DEF Pairs, l
<1>3. l + 1 \notin w /\ w \cup {l + 1} \subseteq 1 .. l + 1
  BY <1>1, <1>2
<1>4. \A j \in 1 .. Len(refs) :
        /\ refs[j] \in 0 .. l + 1
        /\ refs[j] # 0 => refs[j] \notin w \cup {l + 1} /\ rows[j] = EntryOf(P[refs[j]])
  <2> TAKE j \in 1 .. Len(refs)
  <2>1. refs[j] \in 0 .. l /\ (refs[j] # 0 => refs[j] \in 1 .. l)
    BY <1>1, <1>2
  <2>2. refs[j] \in 0 .. l + 1 /\ refs[j] # l + 1
    BY <1>1, <2>1
  <2> QED BY <1>1, <1>2, <2>1, <2>2
<1>5. \A k \in 1 .. l + 1 : k \in w \cup {l + 1} \/ \E j \in 1 .. Len(refs) : refs[j] = k
  <2>1. \A k \in 1 .. l + 1 : k \in 1 .. l \/ k = l + 1
    BY <1>1
  <2> QED BY <1>2, <2>1
<1> QED BY <1>1, <1>2, <1>3, <1>4, <1>5 DEF Pairs, l, P

\* The payment goes on record.
LEMMA RecordLoan == LoanInv /\ RecordPayment => LoanInv'
<1> SUFFICES ASSUME LoanInv, RecordPayment PROVE LoanInv'
  OBVIOUS
<1>1. /\ paying /\ Done /\ ~recorded /\ payments' = Append(payments, PaymentRecord) /\ recorded' = TRUE
      /\ UNCHANGED <<waterfallVars, owed, paying, book, reference, journal, mappings, posted, history>>
  BY DEF RecordPayment
<1>2. LoanTypes /\ BookInv /\ AccountsInv /\ JournalInv /\ WaterfallInv /\ (paying => demand.owed = owed)
  BY DEF LoanInv
<1>3. PaymentRecord \in PaymentRow
  BY SplitIs DEF PaymentRecord, PaymentRow
<1>4. /\ payments \in Seq(PaymentRow) /\ Len(payments) \in Nat
      /\ payments' \in Seq(PaymentRow) /\ Len(payments') = Len(payments) + 1 /\ payments' # <<>>
      /\ payments'[Len(payments')] = PaymentRecord
  <2> DEFINE rows == payments
             rec == PaymentRecord
             next == payments'
  <2>1. rows \in Seq(PaymentRow) /\ rec \in PaymentRow /\ next = Append(rows, rec)
    BY <1>1, <1>2, <1>3 DEF LoanTypes
  <2> HIDE DEF rows, rec, next
  <2>2. /\ Len(rows) \in Nat /\ next \in Seq(PaymentRow) /\ Len(next) = Len(rows) + 1
        /\ next # <<>> /\ next[Len(next)] = rec
    BY <2>1
  <2> QED BY <2>1, <2>2 DEF rows, rec, next
<1>5. UNCHANGED <<owed, paying, book, reference, journal, mappings, posted, calls, due, change, unbooked, refused>>
  BY <1>1 DEF history
<1>6. WaterfallInv' /\ PaymentRecord' = PaymentRecord /\ Done' /\ demand' = demand
  BY <1>1, <1>2, WaterfallStays DEF PaymentRecord, Done, waterfallVars
<1>7. LoanTypes'
  BY <1>1, <1>2, <1>4, <1>5 DEF LoanTypes
<1>8. BookInv'
  <2>1. Pairs(book, reference, payments, unbooked)
    BY <1>1, <1>2 DEF BookInv, Waiting
  <2>2. /\ Pairs(book, reference, payments', unbooked \cup {Len(payments')})
        /\ Len(payments') \notin unbooked
    BY <1>1, <1>3, <1>4, <2>1, PairWaits
  <2>3. Pairs(book, reference, payments, Waiting)'
    BY <1>1, <1>5, <2>2 DEF Waiting
  <2>4. book # <<>>
    BY <1>1, <1>2 DEF BookInv
  <2> QED BY <1>1, <1>2, <1>4, <1>5, <1>6, <2>2, <2>3, <2>4 DEF BookInv
<1>9. AccountsInv'
  BY <1>2, <1>5 DEF AccountsInv, Mapped
<1>10. JournalInv'
  BY <1>2, <1>5 DEF JournalInv
<1> QED BY <1>2, <1>5, <1>6, <1>7, <1>8, <1>9, <1>10 DEF LoanInv

\* The client fails before the entry is written.
LEMMA FailLoan == LoanInv /\ FailToBook => LoanInv'
<1> SUFFICES ASSUME LoanInv, FailToBook PROVE LoanInv'
  OBVIOUS
<1>1. /\ recorded /\ paying' = FALSE /\ recorded' = FALSE /\ unbooked' = unbooked \cup {Len(payments)}
      /\ UNCHANGED <<waterfallVars, owed, books, calls, due, change, refused>>
  BY DEF FailToBook
<1>2. LoanTypes /\ BookInv /\ AccountsInv /\ JournalInv /\ WaterfallInv
  BY DEF LoanInv
<1>3. UNCHANGED <<owed, book, reference, payments, journal, mappings, posted, calls, due, change, refused>>
  BY <1>1 DEF books
<1>4. WaterfallInv'
  BY <1>1, <1>2, WaterfallStays
<1>5. LoanTypes'
  <2>1. Len(payments) \in Nat
    BY <1>2 DEF LoanTypes
  <2> QED BY <1>1, <1>2, <1>3, <2>1 DEF LoanTypes
<1>6. BookInv'
  <2>1. Pairs(book, reference, payments, unbooked \cup {Len(payments)})
    BY <1>1, <1>2 DEF BookInv, Waiting
  <2>2. Pairs(book, reference, payments, Waiting)'
    BY <1>1, <1>3, <2>1 DEF Waiting
  <2> QED BY <1>1, <1>2, <1>3, <2>2 DEF BookInv
<1>7. AccountsInv'
  BY <1>2, <1>3 DEF AccountsInv, Mapped
<1>8. JournalInv'
  BY <1>2, <1>3 DEF JournalInv
<1> QED BY <1>1, <1>4, <1>5, <1>6, <1>7, <1>8 DEF LoanInv

LEMMA BookPaymentLoan == LoanInv /\ BookPayment => LoanInv'
<1> SUFFICES ASSUME LoanInv, BookPayment PROVE LoanInv'
  OBVIOUS
<1> DEFINE t == demand.payment
           p == paid["principal"]
           i == paid["interest"]
           n == paid["penalty"]
           e == createPaymentEntry(t, p, i, n)
           lines == makePaymentLines(fromCents(t), fromCents(p), fromCents(i), fromCents(n))
           r == [lines |-> lines, reverses |-> 0]
           m == mapPaymentAllocation(t, p)
           rec == PaymentRecord
<1>1. /\ t \in Nat /\ p \in Nat /\ i \in Nat /\ n \in Nat /\ left \in Nat /\ p + i + n + left = t
      /\ paying /\ recorded
      /\ \A b \in Buckets : paid[b] \in Nat /\ owed[b] \in Nat /\ paid[b] <= owed[b]
  BY SplitIs DEF BookPayment, LoanInv, BookInv
<1>2. /\ paying' = FALSE /\ owed' = [b \in Buckets |-> owed[b] - paid[b]]
      /\ book' = Append(book, e) /\ reference' = Append(reference, Len(payments))
      /\ payments' = payments /\ recorded' = FALSE /\ unbooked' = unbooked
      /\ mappings' = Append(mappings, m) /\ posted' = Append(posted, t)
      /\ change' = change + left /\ UNCHANGED waterfallVars /\ calls' = calls /\ due' = due
  BY DEF BookPayment, post
<1>3. \/ assertBalanced(lines) /\ journal' = Append(journal, r) /\ refused' = refused
      \/ journal' = journal /\ refused' = refused + p
  <2>1. Accepted => assertBalanced(lines)
    BY DEF Accepted, Millimes, makePaymentEntryAccepts
  <2>2. Millimes(makePaymentLines) = lines
    BY DEF Millimes
  <2> QED BY <2>1, <2>2 DEF BookPayment, Made
<1>4. /\ e \in Entry /\ e # {}
      /\ Net(e, "CASH_ASSET") = t /\ Net(e, "LOAN_RECEIVABLE") = -p
      /\ Net(e, "INTEREST_INCOME") = -i /\ Net(e, "PENALTY_INCOME") = -n
      /\ Imbalance(e) = left
  <2> HIDE DEF t, p, i, n
  <2>1. /\ e \in Entry /\ e # {}
        /\ Net(e, "CASH_ASSET") = t /\ Net(e, "LOAN_RECEIVABLE") = -p
        /\ Net(e, "INTEREST_INCOME") = -i /\ Net(e, "PENALTY_INCOME") = -n
        /\ Imbalance(e) = t - p - i - n
    BY <1>1, PaymentNets
  <2>2. t - p - i - n = left
    BY <1>1
  <2> QED BY <2>1, <2>2
<1>5. r \in JournalRow /\ r.lines # {} /\ r.reverses = 0 /\ Own(r) = -(10 * p)
  <2> HIDE DEF t, p, i, n
  <2>1. lines \in Entry /\ lines # {} /\ Net(lines, "LOAN_RECEIVABLE") = -(10 * p)
    BY <1>1, MadeFromCents
  <2> HIDE DEF lines
  <2> QED BY <2>1 DEF JournalRow, Own
<1>6. m \in MappingRow /\ Debited(m, "1200") = 0 /\ Debited(m, "1300") = 0
  BY <1>1, MappingIs
<1>7. EntryOf(rec) = e
  BY DEF PaymentRecord, EntryOf
<1> HIDE DEF t, p, i, n, e, lines, r, m, rec
<1>8. /\ owed \in [Buckets -> Nat] /\ book \in Seq(Entry) /\ journal \in Seq(JournalRow)
      /\ mappings \in Seq(MappingRow) /\ posted \in Seq(Nat) /\ payments \in Seq(PaymentRow)
      /\ LoanTypes /\ BookInv /\ AccountsInv /\ JournalInv /\ WaterfallInv
  BY DEF LoanInv, LoanTypes
<1>9. /\ owed' \in [Buckets -> Nat] /\ owed'["principal"] = owed["principal"] - p
      /\ owed'["interest"] = owed["interest"] - i /\ owed'["penalty"] = owed["penalty"] - n
  <2>1. \A b \in Buckets : owed'[b] = owed[b] - paid[b] /\ owed[b] - paid[b] \in Nat
    BY <1>1, <1>2
  <2>2. owed' \in [Buckets -> Nat]
    BY <1>2, <2>1
  <2>3. "principal" \in Buckets /\ "interest" \in Buckets /\ "penalty" \in Buckets
    BY DEF Buckets
  <2> QED BY <2>1, <2>2, <2>3 DEF p, i, n
<1>10. WaterfallInv'
  BY <1>2, <1>8, WaterfallStays
<1>11. book' \in Seq(Entry) /\ \A a : BalanceOf(book', a) = BalanceOf(book, a) + Net(e, a)
  BY <1>2, <1>4, <1>8, BalanceAppended
<1>12. LoanTypes'
  <2>1. journal' \in Seq(JournalRow) /\ refused' \in Nat
    <3>1. Append(journal, r) \in Seq(JournalRow)
      BY <1>5, <1>8, AppendedIs
    <3>2. refused \in Nat /\ refused + p \in Nat
      BY <1>1, OwedAre
    <3> QED BY <1>3, <1>8, <3>1, <3>2
  <2>2. reference' \in Seq(Nat) /\ mappings' \in Seq(MappingRow) /\ posted' \in Seq(Nat)
    <3>1. reference' \in Seq(Nat)
      <4>1. reference \in Seq(Nat) /\ Len(payments) \in Nat
        BY <1>8 DEF LoanTypes
      <4> QED BY <1>2, <4>1
    <3>2. mappings' \in Seq(MappingRow)
      BY <1>2, <1>6, <1>8
    <3>3. posted' \in Seq(Nat)
      BY <1>1, <1>2, <1>8
    <3> QED BY <3>1, <3>2, <3>3
  <2>3. change' \in Nat /\ calls' \in Nat /\ due' \in Nat
    <3>1. change \in Nat /\ calls \in Nat /\ due \in Nat
      BY OwedAre
    <3> QED BY <1>1, <1>2, <3>1
  <2> QED BY <1>2, <1>8, <1>9, <1>11, <2>1, <2>2, <2>3 DEF LoanTypes
<1>13. BookInv'
  <2> DEFINE l == Len(payments)
             w == unbooked \cup {l}
  <2>1. /\ book # <<>> /\ payments # <<>> /\ l \notin unbooked /\ payments[l] = rec
        /\ (\A k \in DOMAIN book : book[k] # {}) /\ Pairs(book, reference, payments, w)
    BY <1>1, <1>8 DEF BookInv, Waiting, rec
  <2>2. l \in Nat \ {0} /\ reference \in Seq(Nat)
    BY <1>8, <2>1 DEF LoanTypes
  <2>3. EntryOf(payments[l]) = e
    BY <1>7, <2>1
  <2> HIDE DEF l
  <2>4. Pairs(Append(book, e), Append(reference, l), payments, unbooked)
    BY <1>4, <1>8, <2>1, <2>2, <2>3, PairAdded DEF l
  <2>5. Append(book, e) # <<>> /\ \A k \in DOMAIN Append(book, e) : Append(book, e)[k] # {}
    <3>1. /\ DOMAIN Append(book, e) = 1 .. Len(book) + 1 /\ DOMAIN book = 1 .. Len(book) /\ Len(book) \in Nat
          /\ Append(book, e)[Len(book) + 1] = e /\ \A k \in 1 .. Len(book) : Append(book, e)[k] = book[k]
      BY <1>4, <1>8, AppendedIs
    <3> HIDE DEF w
    <3> QED BY <1>4, <2>1, <3>1
  <2>6. Waiting' = unbooked
    BY <1>2 DEF Waiting
  <2> HIDE DEF w
  <2> QED BY <1>2, <2>4, <2>5, <2>6 DEF BookInv, l
<1>14. AccountsInv'
  <2>1. \A a : BalanceOf(book, a) \in Int
    BY <1>8, BalanceIsTotal
  <2>2. Mapped("1200") \in Nat /\ Mapped("1300") \in Nat
    BY <1>8, MappedIsNat
  <2>3. Mapped("1200")' = Mapped("1200") /\ Mapped("1300")' = Mapped("1300")
    <3>1. /\ Mapped("1200")' = Mapped("1200") + Debited(m, "1200")
          /\ Mapped("1300")' = Mapped("1300") + Debited(m, "1300")
      BY <1>2, <1>6, <1>8, MappedAppended
    <3> QED BY <1>6, <2>2, <3>1
  <2>4. SumFunction(posted') = SumFunction(posted) + t
    <3>1. posted \in Seq(Int) /\ t \in Int
      BY <1>1, <1>8
    <3> QED BY <1>2, <3>1, SumAppended
  <2>5. SumFunctionOnSet(Imbalances(book'), DOMAIN book') = SumFunctionOnSet(Imbalances(book), DOMAIN book) + left
    BY <1>2, <1>4, <1>8, ImbalancesAppended
  <2>6. BalanceOf(book', "LOAN_RECEIVABLE") = owed'["principal"]
    BY <1>1, <1>4, <1>8, <1>9, <1>11, OwedAre DEF AccountsInv
  <2>7. BalanceOf(book', "CASH_ASSET") = SumFunction(posted')
    BY <1>4, <1>8, <1>11, <2>4 DEF AccountsInv
  <2>8. owed'["interest"] = Mapped("1200")' + BalanceOf(book', "INTEREST_INCOME")
    <3>1. /\ BalanceOf(book, "INTEREST_INCOME") \in Int /\ i \in Nat
          /\ BalanceOf(book', "INTEREST_INCOME") = BalanceOf(book, "INTEREST_INCOME") + (-i)
      BY <1>1, <1>4, <1>11, <2>1
    <3>2. owed["interest"] = Mapped("1200") + BalanceOf(book, "INTEREST_INCOME")
      BY <1>8 DEF AccountsInv
    <3> QED BY <1>9, <2>2, <2>3, <3>1, <3>2
  <2>9. owed'["penalty"] = Mapped("1300")' + BalanceOf(book', "PENALTY_INCOME")
    <3>1. /\ BalanceOf(book, "PENALTY_INCOME") \in Int /\ n \in Nat
          /\ BalanceOf(book', "PENALTY_INCOME") = BalanceOf(book, "PENALTY_INCOME") + (-n)
      BY <1>1, <1>4, <1>11, <2>1
    <3>2. owed["penalty"] = Mapped("1300") + BalanceOf(book, "PENALTY_INCOME")
      BY <1>8 DEF AccountsInv
    <3> QED BY <1>9, <2>2, <2>3, <3>1, <3>2
  <2>10. SumFunctionOnSet(Imbalances(book'), DOMAIN book') = change'
    BY <1>2, <1>8, <2>5 DEF AccountsInv
  <2>11. /\ due' - calls' * Denominator <= Mapped("1200")' * Denominator
         /\ Mapped("1200")' * Denominator <= due'
    BY <1>2, <1>8, <2>3 DEF AccountsInv
  <2> QED BY <2>6, <2>7, <2>8, <2>9, <2>10, <2>11 DEF AccountsInv
<1>15. JournalInv'
  <2>1. /\ Len(journal) \in Nat /\ Linked(journal)
        /\ SumFunctionOnSet(OwnNets(journal), DOMAIN journal) = 10 * (owed["principal"] + refused)
    BY <1>8 DEF JournalInv, fromCents
  <2>2. Linked(journal')
    <3>1. r.reverses \in 0 .. Len(journal)
      BY <1>5, <2>1
    <3>2. Linked(Append(journal, r))
      BY <1>5, <1>8, <2>1, <3>1, LinkedAppended
    <3> QED BY <1>3, <2>1, <3>2
  <2>3. SumFunctionOnSet(OwnNets(journal'), DOMAIN journal') = 10 * (owed'["principal"] + refused')
    <3>1. CASE journal' = Append(journal, r) /\ refused' = refused
      <4>1. SumFunctionOnSet(OwnNets(journal'), DOMAIN journal')
              = SumFunctionOnSet(OwnNets(journal), DOMAIN journal) + Own(r)
        BY <1>5, <1>8, <3>1, OwnAppended
      <4>2. owed["principal"] \in Nat /\ refused \in Nat /\ p \in Nat
        BY <1>1, OwedAre
      <4>3. 10 * (owed["principal"] + refused) + (-(10 * p)) = 10 * ((owed["principal"] - p) + refused)
        BY <4>2
      <4>4. SumFunctionOnSet(OwnNets(journal'), DOMAIN journal')
              = 10 * (owed["principal"] + refused) + (-(10 * p))
        BY <1>5, <2>1, <4>1
      <4> QED BY <1>9, <3>1, <4>3, <4>4
    <3>2. CASE journal' = journal /\ refused' = refused + p
      <4>1. owed["principal"] \in Nat /\ refused \in Nat /\ p \in Nat
        BY <1>1, OwedAre
      <4>2. (owed["principal"] - p) + (refused + p) = owed["principal"] + refused
        BY <4>1
      <4> QED BY <1>9, <2>1, <3>2, <4>2
    <3> QED BY <1>3, <3>1, <3>2
  <2> QED BY <2>2, <2>3 DEF JournalInv, fromCents
<1> QED BY <1>2, <1>10, <1>12, <1>13, <1>14, <1>15 DEF LoanInv

LEMMA ReverseLoan == LoanInv /\ (\E k \in 1 .. MaxCalls : makeReversalEntry(k)) => LoanInv'
<1> SUFFICES ASSUME LoanInv, NEW k \in 1 .. MaxCalls, makeReversalEntry(k) PROVE LoanInv'
  OBVIOUS
<1> DEFINE r == [lines |-> Reversed(journal[k].lines), reverses |-> k]
<1>1. /\ k \in DOMAIN journal /\ ~paying /\ calls' = calls + 1
      /\ journal' = Append(journal, r) \/ journal' = journal
      /\ UNCHANGED <<waterfallVars, loan, book, reference, payments, mappings, posted>>
      /\ UNCHANGED <<due, change, unbooked, refused>>
  BY DEF makeReversalEntry, Called, Made
<1>2. journal \in Seq(JournalRow) /\ JournalInv /\ WaterfallInv
  BY DEF LoanInv, LoanTypes
<1>3. /\ Len(journal) \in Nat /\ k \in 1 .. Len(journal) /\ journal[k] \in JournalRow
      /\ Linked(journal) /\ journal[k].lines # {}
  BY <1>1, <1>2 DEF JournalInv, Linked
<1>4. /\ r \in JournalRow /\ r.lines # {} /\ r.reverses = k
      /\ r.lines = Reversed(journal[r.reverses].lines) /\ Own(r) = 0
  <2>1. Reversed(journal[k].lines) \in Entry /\ Reversed(journal[k].lines) # {}
    BY <1>3, ReversedNets DEF JournalRow
  <2> QED BY <1>3, <2>1 DEF JournalRow, Own
<1> HIDE DEF r
<1>5. journal' \in Seq(JournalRow)
  <2>1. journal \in Seq(JournalRow) /\ r \in JournalRow
    BY <1>2, <1>4
  <2>2. Append(journal, r) \in Seq(JournalRow)
    BY <2>1, AppendedIs
  <2> QED BY <1>1, <2>1, <2>2
<1>6. LoanTypes' /\ BookInv' /\ AccountsInv' /\ ~paying'
  <2>1. /\ UNCHANGED <<owed, book, reference, payments, mappings, posted>>
        /\ UNCHANGED <<recorded, due, change, unbooked, refused>>
        /\ paying' = FALSE /\ ~recorded
    BY <1>1 DEF loan, LoanInv, LoanTypes, BookInv
  <2> QED BY <1>1, <1>5, <2>1, OtherBooksStay
<1>7. WaterfallInv'
  BY <1>1, <1>2, WaterfallStays
<1>8. JournalInv'
  <2>1. Linked(journal')
    <3>1. r.reverses \in 0 .. Len(journal)
      BY <1>3, <1>4
    <3>2. Linked(Append(journal, r))
      BY <1>2, <1>3, <1>4, <3>1, LinkedAppended
    <3> QED BY <1>1, <1>3, <3>2
  <2>2. SumFunctionOnSet(OwnNets(journal'), DOMAIN journal') = SumFunctionOnSet(OwnNets(journal), DOMAIN journal)
    <3>1. CASE journal' = Append(journal, r)
      <4>1. SumFunctionOnSet(OwnNets(journal'), DOMAIN journal')
              = SumFunctionOnSet(OwnNets(journal), DOMAIN journal) + 0
        BY <1>2, <1>4, <3>1, OwnAppended
      <4> QED BY <1>2, <4>1, OwedAre DEF JournalInv, fromCents
    <3> QED BY <1>1, <3>1
  <2> QED BY <1>1, <1>2, <2>1, <2>2 DEF JournalInv, loan
<1> QED BY <1>6, <1>7, <1>8 DEF LoanInv

LEMMA NextLoan == LoanInv /\ [LoanNext]_loanVars => LoanInv'
<1>1. LoanInv /\ UNCHANGED loanVars => LoanInv'
  <2> SUFFICES ASSUME LoanInv, UNCHANGED loanVars PROVE LoanInv'
    OBVIOUS
  <2>1. /\ UNCHANGED <<owed, book, reference, payments, mappings, posted>>
        /\ UNCHANGED <<recorded, due, change, unbooked, refused>>
        /\ UNCHANGED waterfallVars /\ calls' = calls /\ paying' = paying /\ journal' = journal
        /\ demand' = demand /\ owed' = owed /\ refused' = refused
    BY DEF loanVars, loan, books, history, waterfallVars
  <2>2. paying \in BOOLEAN /\ (book = <<>> => ~paying) /\ journal \in Seq(JournalRow)
    BY DEF LoanInv, LoanTypes, BookInv
  <2>3. LoanTypes' /\ BookInv' /\ AccountsInv'
    BY <2>1, <2>2, OtherBooksStay
  <2>4. WaterfallInv'
    BY <2>1, WaterfallStays DEF LoanInv
  <2>5. JournalInv'
    BY <2>1 DEF LoanInv, JournalInv
  <2> QED BY <2>1, <2>3, <2>4, <2>5 DEF LoanInv
<1> QED BY <1>1, IssueLoan, AccrueLoan, PenalizeLoan, PayLoan, SplitLoan,
     RecordLoan, BookPaymentLoan, FailLoan, ReverseLoan
     DEF LoanNext

\* LoanInv holds whatever the client calls, in whatever order.
THEOREM LoanInvariant == LoanSpec => []LoanInv
BY InitLoan, NextLoan, PTL DEF LoanSpec

-----------------------------------------------------------------------------
\* The queries list their rows from the newest.
LEMMA ReverseIs ==
  ASSUME NEW S, NEW s \in Seq(S)
  PROVE  /\ Reverse(s) \in Seq(S) /\ Len(Reverse(s)) = Len(s) /\ DOMAIN Reverse(s) = 1 .. Len(s)
         /\ \A k \in 1 .. Len(s) : Reverse(s)[k] = s[Len(s) - k + 1]
<1>1. Reverse(s) = [k \in 1 .. Len(s) |-> s[(Len(s) - k) + 1]] /\ Len(s) \in Nat
  BY DEF Reverse
<1>2. \A k \in 1 .. Len(s) : (Len(s) - k) + 1 \in 1 .. Len(s) /\ s[(Len(s) - k) + 1] \in S
  BY <1>1
<1>3. Reverse(s) \in Seq(S) /\ Len(Reverse(s)) = Len(s) /\ DOMAIN Reverse(s) = 1 .. Len(s)
  BY <1>1, <1>2
<1> QED BY <1>1, <1>2, <1>3

LEMMA ListedIs ==
  ASSUME book \in Seq(Entry), NEW limit \in Nat
  PROVE  LET n == IF limit < Len(book) THEN limit ELSE Len(book) IN
         /\ DOMAIN findByTenant(limit) = 1 .. n /\ n \in Nat
         /\ \A k \in 1 .. n : /\ Len(book) - k + 1 \in 1 .. Len(book)
                              /\ findByTenant(limit)[k] = book[Len(book) - k + 1]
<1> DEFINE n == IF limit < Len(book) THEN limit ELSE Len(book)
           t == Reverse(book)
<1>1. n \in Nat /\ n <= Len(book) /\ Len(book) \in Nat
  OBVIOUS
<1>2. t \in Seq(Entry) /\ Len(t) = Len(book) /\ \A k \in 1 .. Len(book) : t[k] = book[Len(book) - k + 1]
  BY ReverseIs
<1>3. findByTenant(limit) = SubSeq(t, 1, n)
  BY DEF findByTenant
<1> HIDE DEF n, t
<1>4. DOMAIN SubSeq(t, 1, n) = 1 .. n /\ \A k \in 1 .. n : SubSeq(t, 1, n)[k] = t[k]
  BY <1>1, <1>2
<1>5. \A k \in 1 .. n : /\ Len(book) - k + 1 \in 1 .. Len(book)
                        /\ findByTenant(limit)[k] = book[Len(book) - k + 1]
  BY <1>1, <1>2, <1>3, <1>4
<1> QED BY <1>1, <1>3, <1>4, <1>5 DEF n

LEMMA TrialBalanceFollows == LoanInv => TrialBalanceOffByChange
<1> SUFFICES ASSUME LoanInv PROVE TrialBalanceOffByChange
  OBVIOUS
<1>1. book \in Seq(Entry) /\ \A k \in DOMAIN book : book[k] \in Entry /\ book[k] # {}
  BY EntryAt DEF LoanInv, LoanTypes, BookInv
<1>2. SumFunction(getTrialBalance(book)) = change
  BY <1>1, TrialTotals DEF LoanInv, AccountsInv
<1>3. ASSUME NEW k \in DOMAIN findByTenant(50), \A l \in findByTenant(50)[k] : l.amount > 0
      PROVE  validateJournal(findByTenant(50)[k]) <=> Imbalance(findByTenant(50)[k]) = 0
  <2>1. Len(book) - k + 1 \in DOMAIN book /\ findByTenant(50)[k] = book[Len(book) - k + 1]
    BY <1>1, <1>3, ListedIs
  <2> DEFINE e == findByTenant(50)[k]
  <2>2. e \in Entry /\ e # {} /\ \A l \in e : l.amount > 0
    BY <1>1, <1>3, <2>1
  <2> HIDE DEF e
  <2>3. validateJournal(e) <=> Imbalance(e) = 0
    BY <2>2, ValidWhenNothingAdded
  <2> QED BY <2>3 DEF e
<1>4. mappedDebit - mappedCredit = left
  BY SplitIs DEF mappedDebit, mappedCredit, SumOf
<1>5. Accepted <=> demand.payment > 0 /\ left = 0 /\ paid["interest"] = 0
  <2> DEFINE t == demand.payment
             p == paid["principal"]
             i == paid["interest"]
             n == paid["penalty"]
  <2>1. t \in Nat /\ p \in Nat /\ i \in Nat /\ n \in Nat /\ left \in Nat /\ p + i + n + left = t
    BY SplitIs
  <2>2. Accepted <=> makePaymentEntryAccepts(fromCents(t), fromCents(p), fromCents(i), fromCents(n))
    BY DEF Accepted, Millimes
  <2> HIDE DEF t, p, i, n
  <2>3. makePaymentEntryAccepts(fromCents(t), fromCents(p), fromCents(i), fromCents(n))
          <=> t > 0 /\ left = 0 /\ i = 0
    BY <2>1, AcceptedWhen
  <2> QED BY <2>2, <2>3 DEF t, i
<1> QED BY <1>2, <1>3, <1>4, <1>5 DEF TrialBalanceOffByChange

PaymentAdds(t, p, i, n) ==
  LET e == createPaymentEntry(t, p, i, n) IN
  /\ e \in Entry /\ Net(e, "CASH_ASSET") = t /\ Net(e, "LOAN_RECEIVABLE") = -p
  /\ Net(e, "INTEREST_INCOME") = -i /\ Net(e, "PENALTY_INCOME") = -n
LEMMA PaymentsAdd == \A t, p, i, n \in Nat : PaymentAdds(t, p, i, n)
<1> TAKE t, p, i, n \in Nat
<1> QED BY PaymentNets DEF PaymentAdds

LEMMA EntryOfNets ==
  ASSUME NEW p, p.amountCents \in Nat, p.principalPaid \in Nat, p.interestPaid \in Nat, p.penaltiesPaid \in Nat
  PROVE  /\ EntryOf(p) \in Entry
         /\ Net(EntryOf(p), "CASH_ASSET") = p.amountCents
         /\ Net(EntryOf(p), "LOAN_RECEIVABLE") = -p.principalPaid
         /\ Net(EntryOf(p), "INTEREST_INCOME") = -p.interestPaid
         /\ Net(EntryOf(p), "PENALTY_INCOME") = -p.penaltiesPaid
<1> DEFINE a == p.amountCents
           b == p.principalPaid
           c == p.interestPaid
           d == p.penaltiesPaid
           e == createPaymentEntry(a, b, c, d)
<1>1. a \in Nat /\ b \in Nat /\ c \in Nat /\ d \in Nat
  OBVIOUS
<1>2. EntryOf(p) = e
  BY DEF EntryOf
<1> HIDE DEF a, b, c, d
<1>3. PaymentAdds(a, b, c, d)
  BY <1>1, PaymentsAdd
<1>4. /\ e \in Entry /\ Net(e, "CASH_ASSET") = a /\ Net(e, "LOAN_RECEIVABLE") = -b
      /\ Net(e, "INTEREST_INCOME") = -c /\ Net(e, "PENALTY_INCOME") = -d
  BY <1>3 DEF PaymentAdds
<1> HIDE DEF e
<1> QED BY <1>2, <1>4 DEF a, b, c, d

LEMMA ReceivablesFollow == LoanInv => ReceivablesFollowLoan
<1> SUFFICES ASSUME LoanInv PROVE ReceivablesFollowLoan
  OBVIOUS
<1>1. /\ book \in Seq(Entry) /\ payments \in Seq(PaymentRow) /\ BookInv /\ AccountsInv
  BY DEF LoanInv, LoanTypes
<1>2. ASSUME NEW k \in DOMAIN getPaymentsByDebt
      PROVE  LET p == getPaymentsByDebt[k]
                 number == Len(payments) + 1 - k
                 rows == {j \in DOMAIN book : reference[j] = number} IN
             /\ rows = {} <=> number \in unbooked \/ (recorded /\ k = 1)
             /\ \A j \in rows : LET entry == <<book[j]>> IN
                  /\ rows = {j}
                  /\ BalanceOf(entry, "CASH_ASSET") = p.amountCents
                  /\ BalanceOf(entry, "LOAN_RECEIVABLE") = -p.principalPaid
                  /\ BalanceOf(entry, "INTEREST_INCOME") + BalanceOf(entry, "PENALTY_INCOME")
                       = -(p.interestPaid + p.penaltiesPaid)
  <2> DEFINE n == Len(payments)
             p == getPaymentsByDebt[k]
             number == n + 1 - k
             rows == {j \in DOMAIN book : reference[j] = number}
  <2>1. n \in Nat /\ k \in 1 .. n /\ p = payments[n - k + 1]
    BY <1>1, ReverseIs DEF getPaymentsByDebt
  <2>2. number \in 1 .. n /\ p = payments[number] /\ (number = n <=> k = 1)
    BY <2>1
  <2>3. p \in PaymentRow
    BY <1>1, <2>2
  <2>4. /\ Len(reference) = Len(book) /\ DOMAIN book = 1 .. Len(book)
        /\ \A j \in DOMAIN book :
             reference[j] # 0 => reference[j] \notin Waiting /\ book[j] = EntryOf(payments[reference[j]])
        /\ \A i, j \in DOMAIN book : reference[i] = reference[j] => i = j
        /\ \A m \in 1 .. n : m \in Waiting \/ \E j \in DOMAIN book : reference[j] = m
    <3>1. Pairs(book, reference, payments, Waiting)
      BY <1>1 DEF BookInv
    <3>2. Len(reference) = Len(book) /\ DOMAIN book = 1 .. Len(book)
      BY <1>1, <3>1 DEF Pairs
    <3> QED BY ONLY <3>1, <3>2 DEF Pairs, n
  <2>5. number \in Waiting <=> number \in unbooked \/ (recorded /\ k = 1)
    <3>1. CASE recorded
      BY <2>2, <3>1 DEF Waiting
    <3>2. CASE ~recorded
      BY <3>2 DEF Waiting
    <3> QED BY <3>1, <3>2
  <2> HIDE DEF n, p, number
  <2>6. rows = {} <=> number \in Waiting
    BY <2>1, <2>2, <2>4
  <2>7. ASSUME NEW j \in rows
        PROVE  LET entry == <<book[j]>> IN
               /\ rows = {j}
               /\ BalanceOf(entry, "CASH_ASSET") = p.amountCents
               /\ BalanceOf(entry, "LOAN_RECEIVABLE") = -p.principalPaid
               /\ BalanceOf(entry, "INTEREST_INCOME") + BalanceOf(entry, "PENALTY_INCOME")
                    = -(p.interestPaid + p.penaltiesPaid)
    <3> DEFINE e == book[j]
    <3>1. j \in DOMAIN book /\ reference[j] = number /\ rows = {j} /\ e = EntryOf(p)
      BY <2>1, <2>2, <2>4
    <3>2. /\ p.amountCents \in Nat /\ p.principalPaid \in Nat
          /\ p.interestPaid \in Nat /\ p.penaltiesPaid \in Nat
      BY <2>3 DEF PaymentRow
    <3> HIDE DEF e, rows
    <3>3. /\ e \in Entry
          /\ Net(e, "CASH_ASSET") = p.amountCents /\ Net(e, "LOAN_RECEIVABLE") = -p.principalPaid
          /\ Net(e, "INTEREST_INCOME") = -p.interestPaid /\ Net(e, "PENALTY_INCOME") = -p.penaltiesPaid
      BY <3>1, <3>2, EntryOfNets
    <3>4. \A a : BalanceOf(<<e>>, a) = Net(e, a)
      BY <3>3, BalanceOfOneEntry
    <3>5. /\ BalanceOf(<<e>>, "CASH_ASSET") = p.amountCents
          /\ BalanceOf(<<e>>, "LOAN_RECEIVABLE") = -p.principalPaid
          /\ BalanceOf(<<e>>, "INTEREST_INCOME") + BalanceOf(<<e>>, "PENALTY_INCOME")
               = -(p.interestPaid + p.penaltiesPaid)
      BY <3>2, <3>3, <3>4
    <3> QED BY <3>1, <3>5 DEF e
  <2> HIDE DEF rows
  <2> QED BY <2>5, <2>6, <2>7 DEF n, p, number, rows
<1>3. Mapped("1200") * Denominator \in (due - calls * Denominator) .. due
  <2> DEFINE x == Mapped("1200") * Denominator
             y == calls * Denominator
  <2>1. Mapped("1200") \in Nat /\ calls \in Nat /\ due \in Nat
    BY MappedIsNat, OwedAre DEF LoanInv, LoanTypes
  <2>2. x \in Int /\ y \in Int
    BY <2>1 DEF Denominator
  <2>3. due - y <= x /\ x <= due
    BY <1>1 DEF AccountsInv
  <2> HIDE DEF x, y
  <2>4. x \in (due - y) .. due
    BY <2>1, <2>2, <2>3
  <2> QED BY <2>4 DEF x, y
<1> QED BY <1>1, <1>2, <1>3 DEF ReceivablesFollowLoan, AccountsInv

\* The trial balance is out by the change that was given back, for any
\* calls and any payments; what the checks let through adds nothing to it.
THEOREM TrialBalance == LoanSpec => []TrialBalanceOffByChange
BY LoanInvariant, TrialBalanceFollows, PTL

\* What is owed follows from the books, and payments and entries go together,
\* for any loans, rates, days and payments.
THEOREM BooksTellWhatIsOwed == LoanSpec => []ReceivablesFollowLoan
BY LoanInvariant, ReceivablesFollow, PTL

\* A loan is settled exactly by a payment that covers all that is owed on it,
\* whatever was charged and paid before.
THEOREM LoanSettled == LoanSpec => []SettledExactlyWhenCovered
<1>1. LoanInv => SettledExactlyWhenCovered
  BY SettledWhenCovered DEF LoanInv
<1> QED BY <1>1, LoanInvariant, PTL

-----------------------------------------------------------------------------
\* Which entries stand is well defined: reversals come after what they
\* reverse, so the equation can be solved from the last entry backwards.
Rule(f, k) == f[k] = 1 - SumFunctionOnSet([j \in ReversalsOf(k) |-> f[j]], ReversalsOf(k))

LEMMA ReversalsAre ==
  ASSUME JournalInv, journal \in Seq(JournalRow), NEW k \in DOMAIN journal
  PROVE  /\ Len(journal) \in Nat /\ DOMAIN journal = 1 .. Len(journal)
         /\ ReversalsOf(k) \subseteq k + 1 .. Len(journal) /\ IsFiniteSet(ReversalsOf(k))
         /\ ReversalsOf(k) = {j \in DOMAIN journal : journal[j].reverses = k}
<1>1. Len(journal) \in Nat /\ DOMAIN journal = 1 .. Len(journal) /\ k \in 1 .. Len(journal)
  OBVIOUS
<1>2. ReversalsOf(k) \subseteq k + 1 .. Len(journal)
  BY DEF ReversalsOf
<1>3. IsFiniteSet(ReversalsOf(k))
  <2>1. IsFiniteSet(k + 1 .. Len(journal))
    BY <1>1, FS_Interval
  <2> QED BY <1>2, <2>1, FS_Subset
<1>4. \A j \in DOMAIN journal : journal[j].reverses \in 0 .. j - 1
  BY DEF JournalInv, Linked
<1>5. \A j \in DOMAIN journal : journal[j].reverses = k => j \in k + 1 .. Len(journal)
  BY <1>1, <1>4
<1>6. \A j \in k + 1 .. Len(journal) : j \in DOMAIN journal
  BY <1>1
<1>7. ReversalsOf(k) = {j \in DOMAIN journal : journal[j].reverses = k}
  BY <1>5, <1>6 DEF ReversalsOf
<1> QED BY <1>1, <1>2, <1>3, <1>7

\* The last m entries can be told.
LEMMA StandsBackwards ==
  ASSUME JournalInv, journal \in Seq(JournalRow), NEW m \in Nat, m <= Len(journal)
  PROVE  \E f \in [Len(journal) - m + 1 .. Len(journal) -> Int] :
           \A k \in Len(journal) - m + 1 .. Len(journal) : Rule(f, k)
<1> DEFINE n == Len(journal)
           D(i) == n - i + 1 .. n
           P == {i \in Nat : i <= n => \E f \in [D(i) -> Int] : \A k \in D(i) : Rule(f, k)}
<1>1. n \in Nat /\ DOMAIN journal = 1 .. n
  OBVIOUS
<1>2. 0 \in P
  <2>1. D(0) = {}
    BY <1>1
  <2>2. [x \in {} |-> 0] \in [{} -> Int]
    OBVIOUS
  <2> QED BY <2>1, <2>2
<1>3. ASSUME NEW i \in P PROVE i + 1 \in P
  <2> SUFFICES ASSUME i + 1 <= n
               PROVE  \E f \in [D(i + 1) -> Int] : \A k \in D(i + 1) : Rule(f, k)
    OBVIOUS
  <2>1. i \in Nat /\ i <= n
    BY <1>1
  <2>2. PICK f \in [D(i) -> Int] : \A k \in D(i) : Rule(f, k)
    BY <2>1
  <2> DEFINE c == n - i
             R == ReversalsOf(c)
             x == 1 - SumFunctionOnSet([j \in R |-> f[j]], R)
             g == [k \in D(i + 1) |-> IF k = c THEN x ELSE f[k]]
  <2>3. c \in 1 .. n /\ D(i) = c + 1 .. n /\ D(i + 1) = c .. n
    BY <1>1, <2>1
  <2>4. R \subseteq D(i) /\ IsFiniteSet(R)
    BY <1>1, <2>3, ReversalsAre
  <2>5. x \in Int
    <3>1. \A j \in R : [y \in R |-> f[y]][j] \in Int
      BY <2>2, <2>4
    <3> HIDE DEF R
    <3>2. SumFunctionOnSet([j \in R |-> f[j]], R) \in Int
      BY <2>4, <3>1, SumIsInt
    <3> QED BY <3>2
  <2> HIDE DEF x, R, c
  <2>6. g \in [D(i + 1) -> Int] /\ g[c] = x /\ \A k \in D(i) : g[k] = f[k]
    <3>1. \A k \in c .. n : k = c \/ k \in c + 1 .. n
      BY <1>1, <2>3
    <3>2. c \in c .. n /\ \A k \in c + 1 .. n : k # c /\ k \in c .. n
      BY <1>1, <2>3
    <3> QED BY <2>2, <2>3, <2>5, <3>1, <3>2
  <2> HIDE DEF g
  <2>7. ASSUME NEW k \in D(i) PROVE Rule(g, k)
    <3>1. k \in DOMAIN journal /\ k + 1 .. n \subseteq D(i)
      BY <1>1, <2>3
    <3>2. ReversalsOf(k) \subseteq D(i)
      BY <3>1, ReversalsAre
    <3>3. [j \in ReversalsOf(k) |-> g[j]] = [j \in ReversalsOf(k) |-> f[j]]
      BY <2>6, <3>2
    <3> QED BY <2>2, <2>6, <2>7, <3>3 DEF Rule
  <2>8. Rule(g, c)
    <3>1. [j \in ReversalsOf(c) |-> g[j]] = [j \in ReversalsOf(c) |-> f[j]]
      BY <2>4, <2>6 DEF R
    <3> QED BY <2>6, <3>1 DEF Rule, x, R
  <2>9. \A k \in D(i + 1) : k = c \/ k \in D(i)
    BY <1>1, <2>3
  <2> QED BY <2>6, <2>7, <2>8, <2>9
<1> HIDE DEF P
<1>4. Nat \subseteq P
  BY <1>2, <1>3, NatSetInduction
<1> QED BY <1>4 DEF P

LEMMA StandsFollowRule ==
  ASSUME JournalInv, journal \in Seq(JournalRow)
  PROVE  \A k \in DOMAIN journal : Rule(Stands, k) /\ Stands[k] \in Int
<1> DEFINE n == Len(journal)
           D == DOMAIN journal
           Solves(h) == h = [k \in D |-> 1 - SumFunctionOnSet([j \in ReversalsOf(k) |-> h[j]], ReversalsOf(k))]
<1>1. n \in Nat /\ D = 1 .. n /\ n <= n /\ n - n + 1 = 1
  OBVIOUS
<1>2. PICK f \in [1 .. n -> Int] : \A k \in 1 .. n : Rule(f, k)
  BY <1>1, StandsBackwards
<1>3. Solves(f)
  BY <1>1, <1>2 DEF Rule
<1>4. Stands = CHOOSE h : Solves(h)
  BY DEF Stands
<1>5. Solves(Stands)
  BY <1>3, <1>4
<1>6. \A k \in D : Rule(Stands, k)
  BY <1>5 DEF Rule
<1> DEFINE P == {i \in Nat : i <= n => \A k \in n - i + 1 .. n : Stands[k] \in Int}
<1>7. 0 \in P
  BY <1>1
<1>8. ASSUME NEW i \in P PROVE i + 1 \in P
  <2> SUFFICES ASSUME i + 1 <= n PROVE \A k \in n - (i + 1) + 1 .. n : Stands[k] \in Int
    OBVIOUS
  <2> DEFINE c == n - i
             R == ReversalsOf(c)
  <2>1. i \in Nat /\ c \in D /\ \A k \in c + 1 .. n : Stands[k] \in Int
    BY <1>1
  <2>2. R \subseteq c + 1 .. n /\ IsFiniteSet(R)
    BY <2>1, ReversalsAre
  <2>3. Stands[c] = 1 - SumFunctionOnSet([j \in R |-> Stands[j]], R)
    BY <1>6, <2>1 DEF Rule
  <2>4. \A j \in R : [y \in R |-> Stands[y]][j] \in Int
    BY <2>1, <2>2
  <2> HIDE DEF R
  <2>5. SumFunctionOnSet([j \in R |-> Stands[j]], R) \in Int
    BY <2>2, <2>4, SumIsInt
  <2>6. Stands[c] \in Int
    BY <2>3, <2>5
  <2>7. \A k \in n - (i + 1) + 1 .. n : k = c \/ k \in c + 1 .. n
    <3>1. n - (i + 1) + 1 = c /\ c \in Int
      BY <1>1, <2>1
    <3> HIDE DEF c, n
    <3> QED BY <1>1, <3>1
  <2> QED BY <2>1, <2>6, <2>7
<1>9. Nat \subseteq P
  <2> HIDE DEF P
  <2> QED BY <1>7, <1>8, NatSetInduction
<1>10. \A k \in D : Stands[k] \in Int
  <2>1. n \in P
    BY <1>1, <1>9
  <2> QED BY <1>1, <2>1
<1> QED BY <1>6, <1>10

-----------------------------------------------------------------------------
LEMMA SumScaled ==
  ASSUME NEW S, IsFiniteSet(S), NEW c \in Int, NEW f, NEW g, \A x \in S : f[x] \in Int /\ g[x] = f[x] * c
  PROVE  SumFunctionOnSet(g, S) = SumFunctionOnSet(f, S) * c
<1> DEFINE P == {T \in SUBSET S : SumFunctionOnSet(g, T) = SumFunctionOnSet(f, T) * c}
<1>1. {} \in P
  BY SumOfNone
<1>2. ASSUME NEW T \in SUBSET S, T # {}, \A x \in T : T \ {x} \in P PROVE T \in P
  <2>1. PICK x \in T : TRUE
    BY <1>2
  <2> DEFINE U == T \ {x}
             a == SumFunctionOnSet(f, U)
             b == SumFunctionOnSet(g, U)
  <2>2. IsFiniteSet(T) /\ IsFiniteSet(U) /\ U \in P
    BY <1>2, FS_Subset
  <2>3. \A y \in T : f[y] \in Int /\ g[y] \in Int
    OBVIOUS
  <2>4. SumFunctionOnSet(f, T) = f[x] + a /\ SumFunctionOnSet(g, T) = g[x] + b
    BY <2>2, <2>3, SumRemove
  <2>5. a \in Int
    BY <2>2, <2>3, SumIsInt
  <2>6. b = a * c
    BY <2>2
  <2>7. f[x] \in Int /\ g[x] = f[x] * c
    OBVIOUS
  <2> HIDE DEF a, b, U
  <2>8. \A i, j \in Int : (i + j) * c = i * c + j * c
    OBVIOUS
  <2>9. SumFunctionOnSet(g, T) = SumFunctionOnSet(f, T) * c
    BY <2>4, <2>5, <2>6, <2>7, <2>8
  <2> QED BY <2>9
<1> HIDE DEF P
<1>3. S \in P
  BY <1>1, <1>2, FiniteSetInduction
<1> QED BY <1>3 DEF P

\* What all entries of the journal add to an account is what those that
\* reverse nothing add, each as often as it stands: a reversal that stands
\* takes what it reverses off once.
LEMMA StandingCounts ==
  ASSUME JournalInv, journal \in Seq(JournalRow), NEW a
  PROVE  SumFunctionOnSet(Nets(JournalLines, a), DOMAIN journal)
           = SumFunctionOnSet([k \in OwnEntries |-> Stands[k] * BalanceOf(<<journal[k].lines>>, a)], OwnEntries)
<1> DEFINE D == DOMAIN journal
           N == Nets(JournalLines, a)
           O == OwnEntries
           V == D \ O
           f == [k \in D |-> Stands[k] * N[k]]
           key == [k \in D |-> journal[k].reverses]
           back == [k \in D |-> SumFunctionOnSet(f, {j \in V : key[j] = k})]
           h == [k \in O |-> Stands[k] * BalanceOf(<<journal[k].lines>>, a)]
<1>1. /\ IsFiniteSet(D) /\ O \subseteq D /\ IsFiniteSet(O) /\ IsFiniteSet(V)
      /\ O \cup V = D /\ O \cap V = {}
  <2>1. O \subseteq D /\ O \cup V = D /\ O \cap V = {} /\ V \subseteq D
    BY DEF OwnEntries
  <2>2. IsFiniteSet(D)
    <3>1. Len(journal) \in Nat /\ D = 1 .. Len(journal)
      OBVIOUS
    <3> QED BY <3>1, FS_Interval
  <2> HIDE DEF D, O, V
  <2> QED BY <2>1, <2>2, FS_Subset
<1>2. /\ \A k \in D : journal[k].lines \in Entry /\ N[k] = Net(journal[k].lines, a)
      /\ \A k \in D : N[k] \in Int
  <2>1. \A k \in D : journal[k] \in JournalRow
    OBVIOUS
  <2>2. \A k \in D : journal[k].lines \in Entry /\ N[k] = Net(journal[k].lines, a)
    BY <2>1 DEF JournalRow, Nets, JournalLines
  <2> QED BY <2>2, EntriesAre
<1>3. \A k \in D : Stands[k] \in Int /\ Rule(Stands, k)
  BY StandsFollowRule
<1>4. \A k \in D : f[k] = Stands[k] * N[k] /\ f[k] \in Int /\ key[k] = journal[k].reverses
  <2>1. \A x, y \in Int : x * y \in Int
    OBVIOUS
  <2> QED BY <1>2, <1>3, <2>1
<1>5. \A k \in V : key[k] \in D /\ N[k] = -N[key[k]]
  <2> TAKE k \in V
  <2>1. /\ k \in D /\ journal[k].reverses # 0 /\ journal[k].reverses \in 0 .. k - 1
        /\ journal[k].lines = Reversed(journal[journal[k].reverses].lines)
    BY DEF OwnEntries, JournalInv, Linked
  <2>2. journal[k].reverses \in D
    BY <2>1
  <2>3. Net(journal[k].lines, a) = -Net(journal[journal[k].reverses].lines, a)
    BY <1>2, <2>1, <2>2, ReversedNets
  <2> QED BY <1>2, <1>4, <2>1, <2>2, <2>3
<1>6. \A k \in D : {j \in V : key[j] = k} = ReversalsOf(k) /\ IsFiniteSet(ReversalsOf(k)) /\ ReversalsOf(k) \subseteq V
  <2> TAKE k \in D
  <2>1. ReversalsOf(k) = {j \in D : journal[j].reverses = k} /\ IsFiniteSet(ReversalsOf(k)) /\ k # 0
    BY ReversalsAre
  <2> QED BY <1>4, <2>1 DEF OwnEntries
<1>7. \A k \in D : back[k] = SumFunctionOnSet(f, {j \in V : key[j] = k})
  OBVIOUS
<1>8. \A k \in O : h[k] = f[k]
  <2> TAKE k \in O
  <2>1. BalanceOf(<<journal[k].lines>>, a) = Net(journal[k].lines, a)
    BY <1>1, <1>2, BalanceOfOneEntry
  <2>2. h[k] = Stands[k] * BalanceOf(<<journal[k].lines>>, a)
    OBVIOUS
  <2> QED BY <1>1, <1>2, <1>4, <2>1, <2>2
<1> HIDE DEF D, N, O, V, f, key, h
\* An entry's share, and what the reversals that stand take off, is its part.
<1>9. ASSUME NEW k \in D PROVE back[k] \in Int /\ N[k] = f[k] + -back[k]
  <2> DEFINE R == ReversalsOf(k)
             g == [j \in R |-> Stands[j]]
             c == -N[k]
  <2>1. IsFiniteSet(R) /\ back[k] = SumFunctionOnSet(f, R) /\ R \subseteq V /\ R = {j \in V : key[j] = k}
    BY <1>6, <1>7
  <2>2. c \in Int /\ \A j \in R : g[j] \in Int /\ f[j] = g[j] * c
    <3>1. \A j \in R : j \in D /\ N[j] = c
      BY <1>1, <1>5, <2>1
    <3>2. \A j \in R : g[j] = Stands[j] /\ f[j] = Stands[j] * N[j]
      BY <1>4, <3>1
    <3> QED BY <1>2, <1>3, <3>1, <3>2
  <2>3. Stands[k] = 1 - SumFunctionOnSet(g, R) /\ Stands[k] \in Int
    BY <1>3 DEF Rule
  <2> HIDE DEF R, g, c
  <2>4. SumFunctionOnSet(f, R) = SumFunctionOnSet(g, R) * c
    BY <2>1, <2>2, SumScaled
  <2>5. SumFunctionOnSet(g, R) \in Int
    BY <2>1, <2>2, SumIsInt
  <2> DEFINE s == SumFunctionOnSet(g, R)
             x == N[k]
  <2>6. s \in Int /\ x \in Int /\ back[k] = s * (-x) /\ f[k] = (1 - s) * x
    BY <1>2, <1>4, <2>1, <2>3, <2>4, <2>5 DEF c
  <2> HIDE DEF s, x
  <2>7. s * (-x) \in Int /\ (1 - s) * x + -(s * (-x)) = x + -(s * x) + s * x /\ s * x \in Int
    BY <2>6
  <2> QED BY <2>6, <2>7 DEF x
<1> DEFINE taken == [k \in D |-> -back[k]]
<1>10. \A k \in D : taken[k] = -back[k] /\ taken[k] \in Int
  BY <1>9
<1>11. SumFunctionOnSet(back, D) = SumFunctionOnSet(f, V)
  <2>1. \A k \in V : f[k] \in Int /\ key[k] \in D
    BY <1>1, <1>4, <1>5
  <2> QED BY <1>1, <2>1, SumByKey
<1> HIDE DEF back, taken
<1>12. SumFunctionOnSet(f, D) = SumFunctionOnSet(f, O) + SumFunctionOnSet(f, V)
  <2>1. \A k \in O \cup V : f[k] \in Int
    BY <1>1, <1>4
  <2>2. SumFunctionOnSet(f, O \cup V) = SumFunctionOnSet(f, O) + SumFunctionOnSet(f, V)
    BY <1>1, <2>1, SumOfUnion
  <2> QED BY <1>1, <2>2
<1>13. SumFunctionOnSet(N, D) = SumFunctionOnSet(f, D) + SumFunctionOnSet(taken, D)
  BY <1>1, <1>4, <1>9, <1>10, SumPlus
<1>14. SumFunctionOnSet(taken, D) = -SumFunctionOnSet(back, D)
  BY <1>1, <1>9, <1>10, SumNegated
<1>15. SumFunctionOnSet(h, O) = SumFunctionOnSet(f, O)
  BY <1>1, <1>8, SumAgrees
<1>16. SumFunctionOnSet(f, O) \in Int /\ SumFunctionOnSet(f, V) \in Int
  <2>1. (\A k \in O : f[k] \in Int) /\ \A k \in V : f[k] \in Int
    BY <1>1, <1>4
  <2> QED BY <1>1, <2>1, SumIsInt
<1>17. SumFunctionOnSet(N, D) = SumFunctionOnSet(h, O)
  BY <1>11, <1>12, <1>13, <1>14, <1>15, <1>16
<1> QED BY <1>17 DEF N, D, h, O

LEMMA ReversalsFollow == LoanInv => ReversalsCancel
<1> SUFFICES ASSUME LoanInv PROVE ReversalsCancel
  OBVIOUS
<1>1. journal \in Seq(JournalRow) /\ JournalInv
  BY DEF LoanInv, LoanTypes
<1>2. /\ JournalLines \in Seq(Entry) /\ DOMAIN JournalLines = DOMAIN journal /\ IsFiniteSet(DOMAIN journal)
      /\ \A k \in DOMAIN journal : journal[k].lines \in Entry /\ JournalLines[k] = journal[k].lines
  <2>1. Len(journal) \in Nat /\ DOMAIN journal = 1 .. Len(journal) /\ \A k \in DOMAIN journal : journal[k] \in JournalRow
    BY <1>1
  <2>2. \A k \in DOMAIN journal : journal[k].lines \in Entry
    BY <2>1 DEF JournalRow
  <2>3. IsFiniteSet(DOMAIN journal)
    BY <2>1, FS_Interval
  <2> QED BY <2>1, <2>2, <2>3 DEF JournalLines
<1>3. \A a : BalanceOf(JournalLines, a) = SumFunctionOnSet(Nets(JournalLines, a), DOMAIN journal)
  BY <1>2, BalanceIsTotal
<1>4. ASSUME NEW a
      PROVE  BalanceOf(JournalLines, a) =
               SumFunction([k \in OwnEntries |-> Stands[k] * BalanceOf(<<journal[k].lines>>, a)])
  <2> DEFINE h == [k \in OwnEntries |-> Stands[k] * BalanceOf(<<journal[k].lines>>, a)]
  <2>1. SumFunction(h) = SumFunctionOnSet(h, OwnEntries)
    BY DEF SumFunction
  <2>2. SumFunctionOnSet(Nets(JournalLines, a), DOMAIN journal) = SumFunctionOnSet(h, OwnEntries)
    BY <1>1, StandingCounts
  <2> QED BY <1>3, <2>1, <2>2
<1>5. ASSUME OwnEntries = DOMAIN journal
      PROVE  BalanceOf(JournalLines, "LOAN_RECEIVABLE") = fromCents(owed["principal"] + refused)
  <2> DEFINE N == Nets(JournalLines, "LOAN_RECEIVABLE")
             o == OwnNets(journal)
  <2>1. \A k \in DOMAIN journal : N[k] = o[k]
    BY <1>2, <1>5 DEF Nets, OwnNets, Own, OwnEntries
  <2> HIDE DEF N, o
  <2>2. SumFunctionOnSet(N, DOMAIN journal) = SumFunctionOnSet(o, DOMAIN journal)
    BY <1>2, <2>1, SumAgrees
  <2> QED BY <1>1, <1>3, <2>2 DEF N, o, JournalInv
<1> QED BY <1>4, <1>5 DEF ReversalsCancel

\* The journal balances to its entries that stand, however entries and
\* reversals of them were reversed, and without reversals to what is owed.
THEOREM ReversalsTakeBack == LoanSpec => []ReversalsCancel
BY LoanInvariant, ReversalsFollow, PTL

-----------------------------------------------------------------------------
\* Schedules on record.

Installment == [number : Nat, principal : Nat, interest : Nat, remaining : Nat, total : Nat]
TotalsOf(rows) == [k \in DOMAIN rows |-> rows[k].total]

\* The rows built are numbered from 1, and have the sums that the loop keeps.
BuiltInv ==
  /\ built \in Seq(Installment) /\ Len(built) = Pushed
  /\ \A k \in 1 .. Len(built) :
       /\ built[k].number = k
       /\ SumFunctionOnSet(PrincipalsOf(built), 1 .. k) = input.principal - built[k].remaining
       /\ input.type = "PMT" /\ k < input.termMonths => built[k].total <= pmt
  /\ SumFunctionOnSet(PrincipalsOf(built), 1 .. Len(built)) = totalPrincipal
  /\ SumFunctionOnSet(TotalsOf(built), 1 .. Len(built)) = totalPrincipal + totalInterest

\* The table has rows that were built, one of a number only after all of those
\* before it; and each in its place if saveSchedule was called once.
Numbers(rows) == {rows[k].number : k \in DOMAIN rows}
TableInv ==
  /\ agreement # NoDebt => agreement = input /\ phase = "done"
  /\ saved # <<>> \/ at # 0 => agreement # NoDebt
  /\ saves \in Nat /\ at \in 0 .. Len(built)
  /\ saved \in Seq(Installment)
  /\ \A k \in DOMAIN saved :
       /\ saved[k].number \in 1 .. Len(built) /\ saved[k] = built[saved[k].number]
       /\ 1 .. saved[k].number \subseteq Numbers(saved)
  /\ 1 .. at - 1 \subseteq Numbers(saved)
  /\ saves = 0 => saved = <<>> /\ at = 0
  /\ saves = 1 => /\ \A k \in DOMAIN saved : saved[k].number = k
                  /\ at # 0 => at = Len(saved) + 1

SavedInv == LoopInv /\ BuiltInv /\ TableInv

LEMMA InstallmentRowType ==
  ASSUME NEW r \in Row
  PROVE  /\ InstallmentRow(r) \in Installment
         /\ InstallmentRow(r).number = r.number /\ InstallmentRow(r).principal = r.principal
         /\ InstallmentRow(r).remaining = r.remaining
         /\ InstallmentRow(r).total = r.principal + r.interest
<1>1. /\ r.number \in Nat /\ r.principal \in Nat /\ r.interest \in Nat /\ r.remaining \in Nat
  BY DEF Row
<1>2. r.principal + r.interest \in Nat
  BY <1>1
<1> QED BY <1>1, <1>2 DEF InstallmentRow, Installment

\* What a turn of the loop pushes.
LEMMA PushedRow ==
  ASSUME LoopInv, PushRow
  PROVE  /\ row' \in Row /\ row' # row /\ row'.number = Pushed + 1 /\ Pushed' = Pushed + 1
         /\ row'.remaining = remaining'
         /\ totalPrincipal' = totalPrincipal + row'.principal
         /\ totalInterest' = totalInterest + row'.interest
         /\ input.type = "PMT" /\ Pushed + 1 < input.termMonths => row'.principal + row'.interest <= pmt
<1> DEFINE i == Pushed + 1
           part == PrincipalOf(input, i, remaining, pmt)
           charge == InterestDue(input, remaining)
<1>1. /\ input \in Input /\ input.principal \in Nat /\ input.termMonths \in Nat
      /\ Pushed \in Nat /\ Pushed < input.termMonths /\ phase = "building" /\ BalanceInv
      /\ remaining \in Nat /\ remaining <= input.principal /\ pmt \in Nat
      /\ row \in Row \cup {NoRow}
  BY InputsAssumption DEF LoopInv, PushRow, TypeOK, Input, Row, Pushed
<1>2. /\ row' = [number |-> i, principal |-> part, interest |-> charge, remaining |-> remaining - part]
      /\ remaining' = remaining - part
      /\ totalPrincipal' = totalPrincipal + part /\ totalInterest' = totalInterest + charge
  BY DEF PushRow, Pushed
<1>3. LoopInv'
  BY PushRowLoopInv
<1>4. row'.number = i /\ row'.principal = part /\ row'.interest = charge /\ row'.remaining = remaining'
  BY <1>2
<1>5. row' # NoRow
  <2>1. part \in 0 .. remaining
    BY <1>1, PartWithinBalance
  <2>2. charge \in Nat
    <3>1. InterestOn(input, remaining) \in Nat /\ InterestOn(input, input.principal) \in Nat
      BY <1>1, InterestType
    <3> QED BY <3>1 DEF InterestDue
  <2> HIDE DEF part, charge
  <2>3. row' \in Row
    BY <1>1, <1>2, <2>1, <2>2 DEF Row
  <2> QED BY <2>3, InputsAssumption
<1>6. row' \in Row
  BY <1>3, <1>5 DEF LoopInv, TypeOK
<1>7. Pushed' = i
  BY <1>4, <1>5 DEF Pushed
<1>8. row' # row
  BY <1>1, <1>4, <1>5 DEF Pushed
<1>9. ASSUME input.type = "PMT", i < input.termMonths PROVE part + charge <= pmt
  <2>1. charge = InterestOn(input, remaining)
    BY <1>9 DEF InterestDue
  <2>2. InterestOn(input, remaining) \in Nat
    BY <1>1, InterestType
  <2>3. part = IF pmt - InterestOn(input, remaining) > remaining THEN remaining
               ELSE pmt - InterestOn(input, remaining)
    BY <1>1, <1>9 DEF PrincipalOf, PrincipalDue
  <2> HIDE DEF part, charge
  <2> QED BY <1>1, <2>1, <2>2, <2>3
<1> HIDE DEF part, charge
<1> QED BY <1>2, <1>4, <1>6, <1>7, <1>8, <1>9

LEMMA InitSaved == SavedInit => SavedInv
<1> SUFFICES ASSUME SavedInit PROVE SavedInv
  OBVIOUS
<1>1. LoopInv
  BY InitLoopInv DEF SavedInit
<1>2. built = <<>> /\ Len(built) = 0 /\ built \in Seq(Installment)
  BY DEF SavedInit
<1>3. Pushed = 0 /\ totalPrincipal = 0 /\ totalInterest = 0
  BY DEF SavedInit, Init, Pushed
<1>4. 1 .. 0 = {}
  OBVIOUS
<1>5. BuiltInv
  BY <1>2, <1>3, <1>4, SumOfNone DEF BuiltInv
<1>6. saved = <<>> /\ DOMAIN saved = {} /\ saved \in Seq(Installment) /\ 1 .. 0 - 1 = {}
  BY DEF SavedInit
<1>7. TableInv
  BY <1>2, <1>6 DEF SavedInit, TableInv
<1> QED BY <1>1, <1>5, <1>7 DEF SavedInv

LEMMA BuildSaved == SavedInv /\ Build => SavedInv'
<1> SUFFICES ASSUME SavedInv, Build PROVE SavedInv'
  OBVIOUS
<1>1. LoopInv /\ BuiltInv /\ TableInv /\ Next /\ UNCHANGED <<agreement, saved, at, saves>>
  BY DEF SavedInv, Build
<1>2. LoopInv'
  BY <1>1, NextLoopInv
<1>3. phase # "done"
  BY <1>1 DEF Next, Start, PushRow
<1>4. agreement = NoDebt /\ saved = <<>> /\ at = 0
  BY <1>1, <1>3 DEF TableInv
<1>5. CASE Start
  <2>1. row' = row /\ UNCHANGED <<input, totalPrincipal, totalInterest>> /\ row = NoRow
    BY <1>1, <1>5 DEF Start, LoopInv
  <2>2. built' = built /\ Pushed' = Pushed /\ Pushed = 0
    BY <2>1 DEF Build, Pushed
  <2>3. Len(built) = 0 /\ 1 .. Len(built) = {}
    BY <1>1, <2>2 DEF BuiltInv
  <2>4. BuiltInv'
    BY <1>1, <2>1, <2>2, <2>3 DEF BuiltInv
  <2>5. TableInv'
    BY <1>1, <1>4, <2>2 DEF TableInv
  <2> QED BY <1>2, <2>4, <2>5 DEF SavedInv
<1>6. CASE PushRow
  <2> DEFINE r == InstallmentRow(row')
             n == Len(built)
             f == PrincipalsOf(built)
             g == PrincipalsOf(built')
             u == TotalsOf(built)
             v == TotalsOf(built')
  <2>1. /\ row' \in Row /\ row' # row /\ row'.number = Pushed + 1 /\ Pushed' = Pushed + 1
        /\ row'.remaining = remaining'
        /\ totalPrincipal' = totalPrincipal + row'.principal
        /\ totalInterest' = totalInterest + row'.interest
        /\ input.type = "PMT" /\ Pushed + 1 < input.termMonths => row'.principal + row'.interest <= pmt
    BY <1>1, <1>6, PushedRow
  <2>2. /\ r \in Installment /\ r.number = row'.number /\ r.principal = row'.principal
        /\ r.remaining = row'.remaining /\ r.total = row'.principal + row'.interest
    BY <2>1, InstallmentRowType
  <2>3. built' = Append(built, r) /\ UNCHANGED <<input, pmt>>
    BY <1>6, <2>1 DEF Build, PushRow
  <2>4. built \in Seq(Installment) /\ n = Pushed
    BY <1>1 DEF BuiltInv
  <2> HIDE DEF r
  <2>5. /\ built' \in Seq(Installment) /\ n \in Nat /\ Len(built') = n + 1
        /\ DOMAIN built = 1 .. n /\ DOMAIN built' = 1 .. n + 1
        /\ built'[n + 1] = r /\ \A k \in 1 .. n : built'[k] = built[k] /\ built[k] \in Installment
    BY <2>2, <2>3, <2>4, AppendedIs
  <2>6. /\ r.principal \in Nat /\ r.total \in Nat
        /\ \A k \in 1 .. n : built[k].principal \in Nat /\ built[k].total \in Nat
    BY <2>2, <2>5 DEF Installment
  <2>7. /\ g[n + 1] = r.principal /\ v[n + 1] = r.total
        /\ \A k \in 1 .. n : /\ f[k] \in Int /\ g[k] = f[k]
                             /\ u[k] \in Int /\ v[k] = u[k]
    BY <2>5, <2>6 DEF PrincipalsOf, TotalsOf
  <2> HIDE DEF n, f, g, u, v
  <2>8. /\ SumFunctionOnSet(g, 1 .. n + 1) = SumFunctionOnSet(f, 1 .. n) + g[n + 1]
        /\ SumFunctionOnSet(v, 1 .. n + 1) = SumFunctionOnSet(u, 1 .. n) + v[n + 1]
    <3>1. n \in Nat /\ g[n + 1] \in Int /\ v[n + 1] \in Int
      BY <2>5, <2>6, <2>7
    <3>2. \A k \in 1 .. n : f[k] \in Int /\ g[k] = f[k]
      BY <2>7
    <3>3. \A k \in 1 .. n : u[k] \in Int /\ v[k] = u[k]
      BY <2>7
    <3>4. SumFunctionOnSet(g, 1 .. n + 1) = SumFunctionOnSet(f, 1 .. n) + g[n + 1]
      BY <3>1, <3>2, SumOfLonger
    <3>5. SumFunctionOnSet(v, 1 .. n + 1) = SumFunctionOnSet(u, 1 .. n) + v[n + 1]
      BY <3>1, <3>3, SumOfLonger
    <3> QED BY <3>4, <3>5
  <2>9. /\ totalPrincipal \in Nat /\ totalInterest \in Nat /\ input \in Input /\ remaining' \in Nat
        /\ row'.principal \in Nat /\ row'.interest \in Nat
        /\ totalPrincipal' + remaining' = input'.principal /\ input'.principal \in Nat
    BY <1>1, <1>2, <2>1, <2>3 DEF LoopInv, TypeOK, Row, Input
  <2>10. /\ SumFunctionOnSet(f, 1 .. n) = totalPrincipal
         /\ SumFunctionOnSet(u, 1 .. n) = totalPrincipal + totalInterest
    BY <1>1 DEF BuiltInv, f, u, n
  <2>11. /\ SumFunctionOnSet(g, 1 .. n + 1) = totalPrincipal'
         /\ SumFunctionOnSet(v, 1 .. n + 1) = totalPrincipal' + totalInterest'
    <3>1. /\ SumFunctionOnSet(g, 1 .. n + 1) = totalPrincipal + row'.principal
          /\ SumFunctionOnSet(v, 1 .. n + 1) = (totalPrincipal + totalInterest) + (row'.principal + row'.interest)
      BY <2>2, <2>7, <2>8, <2>10
    <3>2. (totalPrincipal + totalInterest) + (row'.principal + row'.interest)
            = (totalPrincipal + row'.principal) + (totalInterest + row'.interest)
      BY <2>9
    <3> QED BY <2>1, <3>1, <3>2
  <2>12. ASSUME NEW k \in 1 .. n + 1
         PROVE  /\ built'[k].number = k
                /\ SumFunctionOnSet(g, 1 .. k) = input'.principal - built'[k].remaining
                /\ input'.type = "PMT" /\ k < input'.termMonths => built'[k].total <= pmt'
    <3>1. CASE k = n + 1
      <4>1. SumFunctionOnSet(g, 1 .. k) = input'.principal - built'[k].remaining
        <5>1. built'[k].remaining = remaining'
          BY <2>1, <2>2, <2>5, <3>1
        <5>2. totalPrincipal' \in Nat
          BY <2>1, <2>9
        <5>3. totalPrincipal' = input'.principal - remaining'
          BY <2>9, <5>2
        <5> QED BY <2>11, <3>1, <5>1, <5>3
      <4>2. built'[k].number = k
        BY <2>1, <2>2, <2>4, <2>5, <3>1
      <4>3. input'.type = "PMT" /\ k < input'.termMonths => built'[k].total <= pmt'
        BY <2>1, <2>2, <2>3, <2>4, <2>5, <3>1
      <4> QED BY <4>1, <4>2, <4>3
    <3>2. CASE k # n + 1
      <4>1. k \in 1 .. n
        BY <2>5, <3>2
      <4>2. /\ built[k].number = k
            /\ SumFunctionOnSet(f, 1 .. k) = input.principal - built[k].remaining
            /\ input.type = "PMT" /\ k < input.termMonths => built[k].total <= pmt
        BY <1>1, <4>1 DEF BuiltInv, f, n
      <4>3. IsFiniteSet(1 .. k) /\ \A j \in 1 .. k : j \in 1 .. n
        <5>1. k \in Int
          BY <4>1
        <5>2. IsFiniteSet(1 .. k)
          BY ONLY <5>1, FS_Interval
        <5>3. \A j \in 1 .. k : j \in 1 .. n
          BY <2>5, <4>1
        <5> QED BY <5>2, <5>3
      <4>4. SumFunctionOnSet(g, 1 .. k) = SumFunctionOnSet(f, 1 .. k)
        BY <2>7, <4>3, SumAgrees
      <4> QED BY <2>3, <2>5, <4>1, <4>2, <4>4
    <3> QED BY <3>1, <3>2
  <2>13. BuiltInv'
    BY <2>1, <2>4, <2>5, <2>11, <2>12 DEF BuiltInv, g, v
  <2>14. TableInv'
    BY <1>1, <1>4, <2>5 DEF TableInv
  <2> QED BY <1>2, <2>13, <2>14 DEF SavedInv
<1> QED BY <1>1, <1>5, <1>6 DEF Next

\* What the repository does leaves the schedule as it was built.
LEMMA BuiltStays ==
  ASSUME SavedInv, UNCHANGED <<vars, built>>
  PROVE  LoopInv' /\ BuiltInv'
<1>1. LoopInv'
  BY NextLoopInv DEF SavedInv
<1>2. BuiltInv'
  BY DEF SavedInv, BuiltInv, vars, Pushed
<1> QED BY <1>1, <1>2

LEMMA InsertSaved == SavedInv /\ InsertRow => SavedInv'
<1> SUFFICES ASSUME SavedInv, InsertRow PROVE SavedInv'
  OBVIOUS
<1> DEFINE n == Len(saved)
<1>1. LoopInv' /\ BuiltInv'
  BY BuiltStays DEF InsertRow
<1>2. BuiltInv /\ TableInv /\ UNCHANGED <<vars, built, agreement, saves>> /\ at > 0
  BY DEF SavedInv, InsertRow
<1>3. /\ at \in 1 .. Len(built) /\ Len(built) \in Nat /\ built \in Seq(Installment)
      /\ built[at].number = at /\ built[at] \in Installment /\ saves \in Nat
  BY <1>2 DEF TableInv, BuiltInv
<1>4. saved' = Append(saved, built[at]) /\ saved \in Seq(Installment)
  BY <1>2 DEF InsertRow, TableInv
<1>5. /\ saved' \in Seq(Installment) /\ n \in Nat /\ Len(saved') = n + 1
      /\ DOMAIN saved = 1 .. n /\ DOMAIN saved' = 1 .. n + 1
      /\ saved'[n + 1] = built[at] /\ \A k \in 1 .. n : saved'[k] = saved[k]
  BY <1>3, <1>4, AppendedIs
<1> HIDE DEF n
<1>6. Numbers(saved') = Numbers(saved) \cup {at}
  <2>1. Numbers(saved) = {saved[k].number : k \in 1 .. n}
    BY <1>5 DEF Numbers
  <2>2. Numbers(saved') = {saved'[k].number : k \in 1 .. n + 1}
    BY <1>5 DEF Numbers
  <2>3. \A k \in 1 .. n + 1 : IF k = n + 1 THEN saved'[k].number = at ELSE k \in 1 .. n /\ saved'[k].number = saved[k].number
    BY <1>3, <1>5
  <2>4. \A k \in 1 .. n : k \in 1 .. n + 1 /\ k # n + 1
    BY <1>5
  <2> QED BY <1>5, <2>1, <2>2, <2>3, <2>4
<1>7. 1 .. at \subseteq Numbers(saved')
  <2>1. 1 .. at = (1 .. at - 1) \cup {at}
    BY <1>3
  <2> QED BY <1>2, <1>6, <2>1 DEF TableInv
<1>8. at' \in 0 .. Len(built) /\ (at' # 0 => at' = at + 1)
  BY <1>3 DEF InsertRow
<1>9. 1 .. at' - 1 \subseteq Numbers(saved')
  <2>1. CASE at' = 0
    BY <2>1
  <2>2. CASE at' # 0
    <3>1. at' - 1 = at
      BY <1>3, <1>8, <2>2
    <3> QED BY <1>7, <3>1
  <2> QED BY <2>1, <2>2
<1>10. ASSUME NEW k \in DOMAIN saved'
       PROVE  /\ saved'[k].number \in 1 .. Len(built) /\ saved'[k] = built[saved'[k].number]
              /\ 1 .. saved'[k].number \subseteq Numbers(saved')
  <2>1. CASE k = n + 1
    BY <1>3, <1>5, <1>7, <2>1
  <2>2. CASE k # n + 1
    <3>1. k \in DOMAIN saved /\ saved'[k] = saved[k]
      BY <1>5, <2>2
    <3> QED BY <1>2, <1>6, <3>1 DEF TableInv
  <2> QED BY <2>1, <2>2
<1>11. ASSUME saves = 1
       PROVE  /\ \A k \in DOMAIN saved' : saved'[k].number = k
              /\ at' # 0 => at' = Len(saved') + 1
  <2>1. (\A k \in DOMAIN saved : saved[k].number = k) /\ at = n + 1
    BY <1>2, <1>3, <1>11 DEF TableInv, n
  <2>2. \A k \in DOMAIN saved' : saved'[k].number = k
    BY <1>3, <1>5, <2>1
  <2> QED BY <1>5, <1>8, <2>1, <2>2
<1>12. saves # 0 /\ agreement # NoDebt
  BY <1>2, <1>3 DEF TableInv
<1>13. TableInv'
  <2>1. (agreement # NoDebt => agreement = input /\ phase = "done")'
    BY <1>2 DEF TableInv, vars
  <2> QED BY <1>2, <1>3, <1>5, <1>8, <1>9, <1>10, <1>11, <1>12, <2>1 DEF TableInv
<1> QED BY <1>1, <1>13 DEF SavedInv

LEMMA NextSaved == SavedInv /\ [SavedNext]_<<vars, savedVars>> => SavedInv'
<1> SUFFICES ASSUME SavedInv, [SavedNext]_<<vars, savedVars>> PROVE SavedInv'
  OBVIOUS
<1>1. LoopInv /\ BuiltInv /\ TableInv /\ Len(built) \in Nat /\ saves \in Nat
  BY DEF SavedInv, BuiltInv, TableInv
<1>2. CASE save
  <2>1. LoopInv' /\ BuiltInv'
    BY <1>2, BuiltStays DEF save
  <2>2. agreement' = input /\ phase = "done" /\ UNCHANGED <<vars, built, saved, at, saves>>
    BY <1>2 DEF save
  <2>3. TableInv'
    BY <1>1, <2>2 DEF TableInv, vars
  <2> QED BY <2>1, <2>3 DEF SavedInv
<1>3. CASE saveSchedule
  <2>1. LoopInv' /\ BuiltInv'
    BY <1>3, BuiltStays DEF saveSchedule
  <2>2. /\ agreement # NoDebt /\ at = 0 /\ saves' = saves + 1
        /\ at' \in {0, 1} /\ at' \in 0 .. Len(built)
        /\ UNCHANGED <<vars, built, agreement, saved>>
    <3>1. built # <<>> => Len(built) > 0
      BY <1>1 DEF BuiltInv
    <3> QED BY <1>1, <1>3, <3>1 DEF saveSchedule
  <2>3. 1 .. at' - 1 = {}
    <3>1. at' = 0 => 1 .. at' - 1 = {}
      OBVIOUS
    <3>2. at' = 1 => 1 .. at' - 1 = {}
      OBVIOUS
    <3> QED BY <2>2, <3>1, <3>2
  <2>4. saves' = 1 => saved = <<>>
    BY <1>1, <2>2 DEF TableInv
  <2>5. saves' = 1 => /\ \A k \in DOMAIN saved : saved[k].number = k
                      /\ at' # 0 => at' = Len(saved) + 1
    BY <2>2, <2>4
  <2>6. saves' \in Nat /\ saves' # 0
    BY <1>1, <2>2
  <2>7. TableInv'
    BY <1>1, <2>2, <2>3, <2>5, <2>6 DEF TableInv, vars
  <2> QED BY <2>1, <2>7 DEF SavedInv
<1>4. CASE Break
  <2>1. LoopInv' /\ BuiltInv'
    BY <1>4, BuiltStays DEF Break
  <2>2. at' = 0 /\ at > 0 /\ 1 .. at' - 1 = {} /\ UNCHANGED <<vars, built, agreement, saved, saves>>
    BY <1>4 DEF Break
  <2>3. TableInv'
    BY <1>1, <2>2 DEF TableInv, vars
  <2> QED BY <2>1, <2>3 DEF SavedInv
<1>5. CASE UNCHANGED <<vars, savedVars>>
  <2>1. LoopInv' /\ BuiltInv'
    BY <1>5, BuiltStays DEF savedVars
  <2>2. TableInv'
    BY <1>1, <1>5 DEF TableInv, vars, savedVars
  <2> QED BY <2>1, <2>2 DEF SavedInv
<1> QED BY <1>2, <1>3, <1>4, <1>5, BuildSaved, InsertSaved DEF SavedNext

\* What is built and what is on record hang together like this at any moment.
THEOREM SavedInvariant == SavedSpec => []SavedInv
BY InitSaved, NextSaved, PTL DEF SavedSpec

-----------------------------------------------------------------------------
\* The order in which a schedule is read.
Placed(k) == {j \in DOMAIN saved : Sooner(j, k)}

LEMMA ScheduleOrdered ==
  ASSUME SavedInv
  PROVE  \E p \in [DOMAIN saved -> DOMAIN saved] :
           /\ getSchedule = [n \in DOMAIN saved |-> saved[p[n]]]
           /\ \A n \in DOMAIN saved : Cardinality(Placed(p[n])) = n - 1
           /\ \A k \in DOMAIN saved : \E n \in DOMAIN saved : p[n] = k
           /\ \A m, n \in DOMAIN saved : m < n => Sooner(p[m], p[n])
<1> DEFINE D == DOMAIN saved
           B == [k \in D |-> {j \in D : Sooner(j, k)}]
           p == [n \in D |-> CHOOSE k \in D : Cardinality(B[k]) = n - 1]
<1>1. /\ D = 1 .. Len(saved) /\ Len(saved) \in Nat
      /\ \A k \in D : saved[k].number \in Nat
  <2>1. saved \in Seq(Installment) /\ Len(built) \in Nat /\ \A k \in D : saved[k].number \in 1 .. Len(built)
    BY DEF SavedInv, TableInv, BuiltInv
  <2> QED BY <2>1
<1>2. IsFiniteSet(D) /\ Cardinality(D) = Len(saved)
  BY <1>1, FS_Interval
<1>3. \A k \in D : B[k] = Placed(k)
  BY DEF Placed
<1>4. \A k \in D : B[k] \in SUBSET (D \ {k})
  BY <1>1 DEF Sooner
<1>5. ASSUME NEW j \in D, NEW k \in D, j \in B[k] PROVE B[j] \in SUBSET B[k]
  <2>1. Sooner(j, k) /\ \A i \in D : Sooner(i, j) => Sooner(i, k)
    BY <1>1, <1>5 DEF Sooner
  <2> QED BY <2>1
<1>6. ASSUME NEW j \in D, NEW k \in D, j # k PROVE j \in B[k] \/ k \in B[j]
  <2>1. saved[j].number \in Nat /\ saved[k].number \in Nat /\ j \in Nat /\ k \in Nat
    BY <1>1
  <2>2. Sooner(j, k) \/ Sooner(k, j)
    BY <1>6, <2>1 DEF Sooner
  <2> QED BY <2>2
<1>7. getSchedule = [n \in D |-> saved[p[n]]]
  BY DEF getSchedule
<1>8. \A j, k \in D : j \in B[k] <=> Sooner(j, k)
  OBVIOUS
<1> HIDE DEF B
<1>9. Orders(B, D)
  BY <1>4, <1>5, <1>6 DEF Orders
<1> HIDE DEF D
<1>10. /\ \A k \in D : Cardinality(B[k]) \in 0 .. Cardinality(D) - 1
       /\ \A j, k \in D : Cardinality(B[j]) < Cardinality(B[k]) <=> j \in B[k]
       /\ \A j, k \in D : Cardinality(B[j]) = Cardinality(B[k]) => j = k
       /\ \A n \in 1 .. Cardinality(D) : \E k \in D : Cardinality(B[k]) = n - 1
  BY <1>2, <1>9, RankIsPosition
<1>11. \A n \in D : p[n] \in D /\ Cardinality(B[p[n]]) = n - 1
  BY <1>1, <1>2, <1>10
<1>12. p \in [D -> D]
  BY <1>11
<1> HIDE DEF p
<1>13. \A k \in D : \E n \in D : p[n] = k
  <2> SUFFICES ASSUME NEW k \in D PROVE \E n \in D : p[n] = k
    OBVIOUS
  <2> DEFINE n == Cardinality(B[k]) + 1
  <2>1. n \in D /\ Cardinality(B[k]) = n - 1
    <3>1. Cardinality(B[k]) \in 0 .. Len(saved) - 1
      BY <1>2, <1>10
    <3> QED BY <1>1, <3>1
  <2> HIDE DEF n
  <2>2. p[n] = k
    BY <1>10, <1>11, <2>1
  <2> QED BY <2>1, <2>2
<1>14. ASSUME NEW m \in D, NEW n \in D, m < n PROVE Sooner(p[m], p[n])
  <2>1. m - 1 < n - 1
    BY <1>1, <1>14
  <2>2. p[m] \in B[p[n]]
    BY <1>10, <1>11, <2>1
  <2> QED BY <1>8, <1>11, <2>2
<1> QED BY <1>3, <1>7, <1>11, <1>12, <1>13, <1>14 DEF D

\* Its last row has the highest number, and its rows are those in the table.
LEMMA ScheduleRead ==
  ASSUME SavedInv, saved # <<>>
  PROVE  LET m == Last(getSchedule).number IN
         /\ m \in 1 .. Len(built) /\ Last(getSchedule) = built[m]
         /\ Rows = {built[n] : n \in 1 .. m}
<1> DEFINE D == DOMAIN saved
           N == Len(saved)
           last == Last(getSchedule)
           m == last.number
<1>1. saved \in Seq(Installment) /\ built \in Seq(Installment) /\ Len(built) \in Nat
  BY DEF SavedInv, TableInv, BuiltInv
<1>2. N \in Nat \ {0} /\ D = 1 .. N
  BY <1>1
<1>3. \A k \in D : /\ saved[k] \in Installment
                   /\ saved[k].number \in 1 .. Len(built) /\ saved[k] = built[saved[k].number]
                   /\ 1 .. saved[k].number \subseteq Numbers(saved)
  BY <1>1 DEF SavedInv, TableInv
<1>4. PICK p \in [D -> D] :
        /\ getSchedule = [n \in D |-> saved[p[n]]]
        /\ \A k \in D : \E n \in D : p[n] = k
        /\ \A i, n \in D : i < n => Sooner(p[i], p[n])
  BY ScheduleOrdered
<1>5. getSchedule \in Seq(Installment) /\ Len(getSchedule) = N /\ DOMAIN getSchedule = D
  BY <1>2, <1>3, <1>4
<1>6. last = saved[p[N]] /\ p[N] \in D /\ N \in D
  BY <1>2, <1>4, <1>5 DEF Last
<1> HIDE DEF last, N
<1>7. m \in 1 .. Len(built) /\ last = built[m] /\ 1 .. m \subseteq Numbers(saved)
  BY <1>3, <1>6
<1>8. \A k \in D : saved[k].number <= m
  <2> SUFFICES ASSUME NEW k \in D PROVE saved[k].number <= m
    OBVIOUS
  <2>1. PICK n \in D : p[n] = k
    BY <1>4
  <2>2. n = N \/ n < N
    BY <1>2
  <2>3. CASE n = N
    BY <1>3, <1>6, <2>1, <2>3
  <2>4. CASE n < N
    <3>1. Sooner(k, p[N])
      BY <1>4, <1>6, <2>1, <2>4
    <3>2. saved[k].number \in Nat /\ m \in Nat
      BY <1>3, <1>7
    <3> QED BY <1>6, <3>1, <3>2 DEF Sooner
  <2> QED BY <2>2, <2>3, <2>4
<1>9. Rows = {saved[k] : k \in D}
  <2>1. Rows = {getSchedule[n] : n \in D}
    BY <1>5 DEF Rows, ToSet
  <2>2. \A n \in D : getSchedule[n] = saved[p[n]] /\ p[n] \in D
    BY <1>4
  <2> QED BY <1>4, <2>1, <2>2
<1>10. \A k \in D : saved[k] = built[saved[k].number] /\ saved[k].number \in 1 .. m
  BY <1>3, <1>7, <1>8
<1>11. \A n \in 1 .. m : \E k \in D : saved[k].number = n
  BY <1>7 DEF Numbers
<1>12. Rows = {built[n] : n \in 1 .. m}
  <2>1. ASSUME NEW n \in 1 .. m PROVE \E k \in D : saved[k] = built[n]
    BY <1>10, <1>11
  <2> HIDE DEF m, D
  <2> QED BY <1>9, <1>10, <2>1
<1> QED BY <1>7, <1>12 DEF last

\* The rows of a schedule that was saved once are read as they were saved.
LEMMA ScheduleInPlace ==
  ASSUME SavedInv, saves = 1
  PROVE  getSchedule = saved
<1> DEFINE D == DOMAIN saved
<1>1. /\ saved \in Seq(Installment) /\ D = 1 .. Len(saved) /\ Len(saved) \in Nat
      /\ \A k \in D : saved[k].number = k
  BY DEF SavedInv, TableInv
<1>2. PICK p \in [D -> D] :
        /\ getSchedule = [n \in D |-> saved[p[n]]]
        /\ \A n \in D : Cardinality(Placed(p[n])) = n - 1
  BY ScheduleOrdered
<1>3. ASSUME NEW k \in D PROVE Cardinality(Placed(k)) = k - 1
  <2>1. Placed(k) = {j \in D : j < k}
    BY <1>1 DEF Placed, Sooner
  <2>2. {j \in D : j < k} = 1 .. k - 1
    BY <1>1
  <2>3. Cardinality(1 .. k - 1) = k - 1
    <3>1. k - 1 \in Nat
      BY <1>1
    <3> QED BY <3>1, FS_Interval
  <2> QED BY <2>1, <2>2, <2>3
<1>4. \A n \in D : p[n] = n
  <2> SUFFICES ASSUME NEW n \in D PROVE p[n] = n
    OBVIOUS
  <2>1. p[n] \in D /\ p[n] - 1 = n - 1
    BY <1>2, <1>3
  <2> QED BY <1>1, <2>1
<1> QED BY <1>1, <1>2, <1>4

-----------------------------------------------------------------------------
\* What a complete schedule costs, and what its quotes say.
LEMMA ScheduleCosts ==
  ASSUME SavedInv, phase = "done", input.termMonths > 0
  PROVE  /\ Len(built) = input.termMonths
         /\ totalCost(built) = input.principal + totalInterest
         /\ totalPrincipal = input.principal
<1>1. LoopInv /\ BuiltInv /\ built \in Seq(Installment) /\ DOMAIN built = 1 .. Len(built)
  BY DEF SavedInv, BuiltInv
<1>2. Len(built) = input.termMonths /\ totalPrincipal = input.principal
  BY <1>1 DEF LoopInv, TypeOK, Input, BuiltInv, Pushed
<1>3. totalCost(built) = SumFunctionOnSet(TotalsOf(built), 1 .. Len(built))
  BY <1>1 DEF totalCost, TotalsOf, SumFunction
<1> QED BY <1>1, <1>2, <1>3 DEF BuiltInv

LEMMA QuotesMatch == SavedInv => QuotesMatchRows
<1> SUFFICES ASSUME SavedInv, phase = "done", input.termMonths > 0 PROVE QuotesMatchRows
  BY DEF QuotesMatchRows
<1> DEFINE c == totalCost(built)
           P == input.principal
           W == WaivedOf(original)
<1>1. Len(built) = input.termMonths /\ c = P + totalInterest /\ totalPrincipal = P
  BY ScheduleCosts
<1>2. LoopInv /\ BuiltInv /\ P \in Nat /\ totalInterest \in Nat /\ input.termMonths \in Nat
  BY DEF SavedInv, LoopInv, TypeOK, Input
<1>3. input.type = "PMT" => \A k \in 1 .. Len(built) - 1 : built[k].total <= pmt
  <2>1. \A k \in 1 .. Len(built) - 1 : k \in 1 .. Len(built) /\ k < input.termMonths
    BY <1>1, <1>2
  <2> QED BY <1>2, <2>1 DEF BuiltInv
<1>4. ASSUME original # NoOriginal
      PROVE  /\ Savings > 0 => Savings + (c - P) = W
             /\ Savings = 0 => c - P >= W
  <2>1. original \in Original /\ input = Restructured(original)
    BY <1>2, <1>4, InputsAssumption DEF LoopInv, TypeOK
  <2>2. P = OriginalTotal(original) - W /\ W \in Nat /\ OriginalTotal(original) \in Nat
    <3>1. W \in Nat
      BY <2>1, RestructuredType
    <3>2. OriginalTotal(original) \in Nat
      BY <2>1 DEF OriginalTotal, Original
    <3> QED BY <2>1, <3>1, <3>2 DEF Restructured
  <2>3. Savings = IF OriginalTotal(original) > P + totalInterest
                    THEN OriginalTotal(original) - (P + totalInterest) ELSE 0
    BY <1>1 DEF Savings
  <2> DEFINE T == OriginalTotal(original)
  <2>4. c - P = totalInterest
    BY <1>1, <1>2
  <2> HIDE DEF c, P, W, T
  <2> QED BY <1>2, <2>2, <2>3, <2>4 DEF T
<1> HIDE DEF W
<1> QED BY <1>1, <1>3, <1>4 DEF QuotesMatchRows, AmortizationResult, RestructuringResult, c, P, W

\* Read at any moment, one row of each number accounts for what the last row
\* leaves; and every row does, if saveSchedule was called once.
LEMMA RowsAccount ==
  ASSUME SavedInv, saved # <<>>
  PROVE  LET last   == Last(getSchedule)
             repaid == input.principal - last.remaining
         IN  /\ {r.number : r \in Rows} = 1 .. last.number
             /\ SumFunction([r \in Rows |-> r.principal]) = repaid
             /\ saves = 1 => SumFunction(PrincipalsOf(getSchedule)) = repaid
             /\ saves = 1 /\ last.number = Len(built) => totalCost(getSchedule) = totalCost(built)
<1> DEFINE m == Last(getSchedule).number
           repaid == input.principal - Last(getSchedule).remaining
           S == 1 .. m
           h == [n \in S |-> built[n]]
           f == PrincipalsOf(built)
           g == [r \in Rows |-> r.principal]
<1>1. m \in 1 .. Len(built) /\ Last(getSchedule) = built[m] /\ Rows = {built[n] : n \in 1 .. m}
  BY ScheduleRead
<1>2. BuiltInv /\ TableInv /\ built \in Seq(Installment) /\ Len(built) \in Nat
  BY DEF SavedInv, BuiltInv
<1>3. \A n \in S : n \in 1 .. Len(built) /\ built[n] \in Installment /\ built[n].number = n
  <2>1. \A n \in S : n \in 1 .. Len(built)
    BY <1>1, <1>2
  <2> QED BY <1>2, <2>1 DEF BuiltInv
<1>4. SumFunctionOnSet(f, S) = repaid
  BY <1>1, <1>2 DEF BuiltInv
<1>5. {r.number : r \in Rows} = S
  <2> HIDE DEF m
  <2>1. ASSUME NEW n \in S PROVE built[n] \in Rows /\ built[n].number = n
    BY <1>1, <1>3
  <2>2. ASSUME NEW r \in Rows PROVE r.number \in S
    <3>1. PICK n \in S : r = built[n]
      BY <1>1, <2>2
    <3> QED BY <1>3, <3>1
  <2> HIDE DEF S
  <2>3. \A n \in S : \E r \in Rows : r.number = n
    BY <2>1
  <2> QED BY <2>2, <2>3
<1>6. IsFiniteSet(S)
  BY <1>1, <1>2, FS_Interval
<1>7. \A n \in S : h[n] = built[n] /\ h[n] \in Rows /\ f[n] = built[n].principal /\ built[n].principal \in Nat
  <2> SUFFICES ASSUME NEW n \in S
               PROVE  h[n] = built[n] /\ h[n] \in Rows /\ f[n] = built[n].principal /\ built[n].principal \in Nat
    OBVIOUS
  <2>1. h[n] = built[n] /\ h[n] \in Rows
    BY <1>1
  <2>2. built[n].principal \in Nat
    BY <1>3 DEF Installment
  <2>3. n \in DOMAIN built
    BY <1>2, <1>3
  <2>4. f[n] = built[n].principal
    BY <2>3 DEF PrincipalsOf
  <2> QED BY <2>1, <2>2, <2>4
<1>8. \A r \in Rows : \E n \in S : h[n] = r
  BY <1>1
<1>9. \A r \in Rows : g[r] = r.principal
  OBVIOUS
<1> HIDE DEF S, h, f
<1>10. Renames(h, S, Rows)
  BY <1>3, <1>7, <1>8 DEF Renames
<1>11. \A n \in S : f[n] \in Int /\ g[h[n]] = f[n]
  BY <1>7, <1>9
<1>12. SumFunction(g) = repaid
  <2>1. SumFunction(g) = SumFunctionOnSet(g, Rows)
    BY DEF SumFunction
  <2> HIDE DEF g
  <2>2. SumFunctionOnSet(g, Rows) = SumFunctionOnSet(f, S)
    BY <1>6, <1>10, <1>11, SumRenamed
  <2> QED BY <1>4, <2>1, <2>2
<1>13. ASSUME saves = 1
       PROVE  /\ SumFunction(PrincipalsOf(getSchedule)) = repaid
              /\ m = Len(built) => totalCost(getSchedule) = totalCost(built)
  <2>1. getSchedule = saved
    BY <1>13, ScheduleInPlace
  <2>2. /\ saved \in Seq(Installment) /\ DOMAIN saved = 1 .. Len(saved) /\ Len(saved) \in Nat \ {0}
        /\ \A k \in DOMAIN saved : saved[k].number = k /\ saved[k] = built[saved[k].number]
    BY <1>2, <1>13 DEF TableInv
  <2>3. m = Len(saved) /\ DOMAIN saved = S
    BY <2>1, <2>2 DEF Last, S
  <2>4. \A k \in S : saved[k] = built[k]
    BY <2>2, <2>3
  <2>5. SumFunction(PrincipalsOf(saved)) = SumFunctionOnSet(PrincipalsOf(saved), S)
    BY <2>3 DEF SumFunction, PrincipalsOf
  <2>6. \A k \in S : PrincipalsOf(saved)[k] = f[k]
    BY <1>7, <2>3, <2>4 DEF PrincipalsOf
  <2>7. SumFunctionOnSet(PrincipalsOf(saved), S) = SumFunctionOnSet(f, S)
    BY <1>6, <2>6, SumAgrees
  <2>8. ASSUME m = Len(built) PROVE totalCost(saved) = totalCost(built)
    <3>1. DOMAIN built = S
      BY <1>2, <2>8 DEF S
    <3>2. [k \in DOMAIN saved |-> saved[k].total] = [k \in DOMAIN built |-> built[k].total]
      BY <2>3, <2>4, <3>1
    <3> QED BY <3>2 DEF totalCost
  <2> QED BY <1>4, <2>1, <2>5, <2>7, <2>8
<1> QED BY <1>5, <1>12, <1>13 DEF S

\* A schedule can be relied on whenever it is read, for every loan and however
\* often the saving of it broke; and the quotes match its rows.
THEOREM SchedulesReadTrue == SavedSpec => []ScheduleReadsTrue
<1>1. SavedInv => ScheduleReadsTrue
  <2> SUFFICES ASSUME SavedInv PROVE ScheduleReadsTrue
    OBVIOUS
  <2>1. QuotesMatchRows
    BY QuotesMatch
  <2>2. ASSUME findById # <<>>, saved # <<>>
        PROVE  LET last   == Last(getSchedule)
                   repaid == findById[1].principal - last.remaining
               IN  /\ {r.number : r \in Rows} = 1 .. last.number
                   /\ SumFunction([r \in Rows |-> r.principal]) = repaid
                   /\ saves = 1 => SumFunction(PrincipalsOf(getSchedule)) = repaid
                   /\ saves = 1 /\ last.number = input.termMonths /\ original # NoOriginal =>
                        totalCost(getSchedule) = RestructuringResult.totalNewPayment
    <3>1. findById[1] = input /\ phase = "done"
      BY <2>2 DEF findById, SavedInv, TableInv
    <3>2. Last(getSchedule).number \in 1 .. Len(built) /\ Len(built) \in Nat
      BY <2>2, ScheduleRead DEF SavedInv, BuiltInv
    <3>3. Last(getSchedule).number = input.termMonths => Last(getSchedule).number = Len(built)
      BY <3>1, <3>2, ScheduleCosts
    <3>4. RestructuringResult.totalNewPayment = totalCost(built)
      BY DEF RestructuringResult
    <3> QED BY <2>2, <3>1, <3>3, <3>4, RowsAccount
  <2> QED BY <2>1, <2>2 DEF ScheduleReadsTrue
<1> QED BY <1>1, SavedInvariant, PTL
=============================================================================
