--------------------------- MODULE PaymentAllocation ---------------------------
(***************************************************************************)
(* How the core splits a payment: applyWaterfall (core/PaymentWaterfall.ts)*)
(* and PaymentWaterfall.allocate (core/financial-engine/waterfall.ts) take *)
(* penalties, then interest, then principal out of it, one stage a step.   *)
(***************************************************************************)
EXTENDS JournalEntries, Sequences

CONSTANT Demands   \* payments with what the debt owes in penalties, interest, principal

Buckets == {"penalty", "interest", "principal"}
Order == <<"penalty", "interest", "principal">>
WaterfallInput == [payment : Nat, owed : [Buckets -> Nat]]

ASSUME DemandsAssumption == Demands \subseteq WaterfallInput

VARIABLES
  demand,
  stage,   \* the bucket in turn is Order[stage]
  left,    \* `remaining` of the waterfall, at the end the change
  paid     \* by bucket

waterfallVars == <<demand, stage, left, paid>>

WaterfallInit ==
  /\ demand \in Demands
  /\ stage = 1
  /\ left = demand.payment
  /\ paid = [b \in Buckets |-> 0]

\* remaining >= owed ? owed : remaining
AllAvailable(available, owed) == available                       \* mutant
takeUpTo(available, owed) == IF available >= owed THEN owed ELSE available

Allocate ==
  LET b == Order[stage]
      take == takeUpTo(left, demand.owed[b])
  IN  /\ stage <= Len(Order)
      /\ paid' = [paid EXCEPT ![b] = take]
      /\ left' = left - take
      /\ stage' = stage + 1
      /\ UNCHANGED demand

WaterfallNext == Allocate
WaterfallSpec == WaterfallInit /\ [][WaterfallNext]_waterfallVars

Done == stage > Len(Order)
SumOf(f) == f["penalty"] + f["interest"] + f["principal"]
remainingDebt == SumOf(demand.owed) - SumOf(paid)
isFullySettled == remainingDebt = 0

\* accounting-mapper: mapPaymentAllocation's totals, for a breakdown without fees.
mappedDebit  == demand.payment
mappedCredit == SumOf(paid)

-----------------------------------------------------------------------------
WaterfallTypeOK ==
  /\ demand \in WaterfallInput
  /\ stage \in 1 .. Len(Order) + 1
  /\ left \in Nat
  /\ paid \in [Buckets -> Nat]

\* The parts and the change add up to the payment, and no bucket is given
\* more than it is owed.
Conserves ==
  /\ SumOf(paid) + left = demand.payment
  /\ \A b \in Buckets : paid[b] <= demand.owed[b]

\* Interest gets money only when all penalties are paid, and principal only
\* when penalties and interest are.
SeniorFirst ==
  /\ paid["interest"] + paid["principal"] > 0 => paid["penalty"] = demand.owed["penalty"]
  /\ paid["principal"] > 0 => paid["interest"] = demand.owed["interest"]

\* isFullySettled is the answer to "does the payment cover the debt", and
\* change is given back only then.
SettledExactlyWhenCovered ==
  Done => /\ isFullySettled <=> demand.payment >= SumOf(demand.owed)
          /\ left > 0 => isFullySettled
          /\ left = IF isFullySettled THEN demand.payment - SumOf(demand.owed) ELSE 0
=============================================================================
