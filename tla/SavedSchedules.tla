---------------------------- MODULE SavedSchedules ----------------------------
(***************************************************************************)
(* DebtRepository: a debt is saved in one statement, its schedule in one   *)
(* INSERT for each row, none of them in a transaction. saveSchedule may    *)
(* break between two rows, and a caller that is told so may call it again: *)
(* nothing makes (debt_id, installment_number) unique.                     *)
(*                                                                         *)
(* Nothing in the repository calls it. The client here builds a schedule   *)
(* with AmortizationEngine, saves the debt and then the schedule.          *)
(***************************************************************************)
EXTENDS Amortization, SequencesExt

CONSTANTS
  NoDebt,
  MaxSaves     \* bound on the calls of saveSchedule

ASSUME SavesAssumption == MaxSaves \in Nat /\ NoDebt \notin Input

VARIABLES
  built,       \* the rows the generator returns
  agreement,   \* debt_agreements
  saved,       \* amortization_schedule, in the order of insertion
  at,          \* the row saveSchedule is at, 0 outside of it
  saves        \* calls of saveSchedule

savedVars == <<built, agreement, saved, at, saves>>

\* A row as the generators push it.
InstallmentRow(r) ==
  [number |-> r.number, principal |-> r.principal, interest |-> r.interest,
   remaining |-> r.remaining, total |-> r.principal + r.interest]

SavedInit ==
  /\ Init
  /\ built = <<>> /\ agreement = NoDebt /\ saved = <<>> /\ at = 0 /\ saves = 0

Build ==
  /\ Next
  /\ built' = IF row' = row THEN built ELSE Append(built, InstallmentRow(row'))
  /\ UNCHANGED <<agreement, saved, at, saves>>

\* save: INSERT INTO debt_agreements.
save ==
  /\ phase = "done" /\ input.type # "PMT" /\ agreement = NoDebt
  /\ agreement' = input
  /\ UNCHANGED <<vars, built, saved, at, saves>>

saveSchedule ==
  /\ agreement # NoDebt /\ at = 0 /\ saves < MaxSaves
  /\ saves' = saves + 1
  /\ at' = IF built = <<>> THEN 0 ELSE 1
  /\ UNCHANGED <<vars, built, agreement, saved>>

InsertRow ==
  /\ at > 0
  /\ saved' = Append(saved, built[at])
  /\ at' = IF at = Len(built) THEN 0 ELSE at + 1
  /\ UNCHANGED <<vars, built, agreement, saves>>

\* An INSERT is rejected, or the process dies: what is in the table stays.
Break ==
  /\ at > 0
  /\ at' = 0
  /\ UNCHANGED <<vars, built, agreement, saved, saves>>

SavedNext == Build \/ save \/ saveSchedule \/ InsertRow \/ Break

SavedSpec == SavedInit /\ [][SavedNext]_<<vars, savedVars>>

-----------------------------------------------------------------------------
\* getSchedule: ORDER BY installment_number ASC. Of two rows with a number, which
\* are alike, the one inserted first.
Sooner(j, k) ==
  \/ saved[j].number < saved[k].number
  \/ saved[j].number = saved[k].number /\ j < k
AsInserted == saved                                               \* mutant
getSchedule ==
  LET before == [k \in DOMAIN saved |-> {j \in DOMAIN saved : Sooner(j, k)}] IN
  [n \in DOMAIN saved |-> saved[CHOOSE k \in DOMAIN saved : Cardinality(before[k]) = n - 1]]

\* findById, and the other two finds: the columns of the row, or null.
findById == IF agreement = NoDebt THEN <<>> ELSE <<agreement>>

\* What the generator of core/Amortization.ts, totalCost and restructure answer.
totalCost(rows) == SumFunction([k \in DOMAIN rows |-> rows[k].total])
AmortizationResult ==
  [monthlyPayment |-> pmt, totalPrincipal |-> input.principal,
   totalInterest |-> totalInterest, schedule |-> built]
RestructuringResult ==
  [waived |-> WaivedOf(original), newPrincipal |-> input.principal, schedule |-> built,
   totalNewPayment |-> totalCost(built), totalNewInterest |-> totalInterest,
   savingsVsOriginal |-> Savings]

\* The quotes agree with the rows. No month of an annuity before the last costs
\* more than the payment quoted, and all of them cost principal and interest.
\* What restructure reports as saved, the new payment and the old debt fit
\* together, unless the new interest eats the waiver up: then nothing is saved.
QuotesMatchRows ==
  phase = "done" /\ input.termMonths > 0 =>
    /\ LET q == AmortizationResult IN
         /\ totalCost(q.schedule) = q.totalPrincipal + q.totalInterest
         /\ input.type = "PMT" =>
              \A k \in 1 .. Len(q.schedule) - 1 : q.schedule[k].total <= q.monthlyPayment
    /\ original # NoOriginal =>
         LET q == RestructuringResult
             kept == q.totalNewPayment - q.newPrincipal IN
         /\ q.savingsVsOriginal > 0 => q.savingsVsOriginal + kept = q.waived
         /\ q.savingsVsOriginal = 0 => kept >= q.waived

\* Whoever reads a schedule, while it is being saved, after the saving broke,
\* or after it was saved again, can rely on its last row: what is left is the
\* principal of the debt less one row of each number. The rows themselves add
\* up to what is repaid only if saveSchedule was called once; then, to what the
\* debtor was told the debt costs, in quotes that match the rows.
Rows == ToSet(getSchedule)
PrincipalsOf(rows) == [k \in DOMAIN rows |-> rows[k].principal]
ScheduleReadsTrue ==
  /\ QuotesMatchRows
  /\ findById # <<>> /\ saved # <<>> =>
       LET last   == Last(getSchedule)
           repaid == findById[1].principal - last.remaining
       IN  /\ {r.number : r \in Rows} = 1 .. last.number
           /\ SumFunction([r \in Rows |-> r.principal]) = repaid
           /\ saves = 1 => SumFunction(PrincipalsOf(getSchedule)) = repaid
           /\ saves = 1 /\ last.number = input.termMonths /\ original # NoOriginal =>
                totalCost(getSchedule) = RestructuringResult.totalNewPayment
=============================================================================
