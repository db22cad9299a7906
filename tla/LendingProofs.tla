----------------------------- MODULE LendingProofs -----------------------------
(***************************************************************************)
(* The lending API for any number of debts, loans and requests, whatever   *)
(* statements of theirs interleave.                                        *)
(*                                                                         *)
(* POST /payments of the HTTP server: HandlerInv says what a payment       *)
(* handler may still assume of the rows it selected when it comes back     *)
(* from an await: the PENDING installments older than one it has yet to    *)
(* settle are all among those it selected.                                 *)
(* POST /payments of the Fastify API: RouteInv says the same of the money. *)
(* The statements over both of them: what a SELECT returned stays right of *)
(* the rows, whichever handlers run before the next one.                   *)
(***************************************************************************)
EXTENDS Reports, RouteStatement, SumTheorems

SnapshotInv ==
  \A r \in Requests : pc[r] = "settling" =>
    /\ debtOf[r] \in Debts
    /\ todo[r] \subseteq DOMAIN schedule[debtOf[r]]
    /\ \A j \in todo[r] : \A i \in Pending(debtOf[r]) : i < j => i \in todo[r]

CreatingInv ==
  \A r \in Requests : pc[r] = "creating" =>
    /\ debtOf[r] \in Debts /\ agreements[debtOf[r]] \in Loans
    /\ agreements[debtOf[r]].termMonths > 0

HandlerInv == TypeOK /\ CreatingInv /\ SnapshotInv /\ NoGapBeforePaid

-----------------------------------------------------------------------------
\* The row a pass over selected rows meets first is the oldest of them.
LEMMA FirstIsOldest ==
  ASSUME NEW rows \in SUBSET Nat, rows # {}
  PROVE  First(rows) \in rows /\ \A j \in rows : First(rows) <= j
BY LeastNumber DEF First

\* Rounding a quotient yields an integer.
LEMMA RoundedIsInteger ==
  ASSUME NEW a \in Int, NEW b \in Nat, b > 0
  PROVE  RoundDiv(a, b) \in Int
<1>1. 2 * a + b \in Int /\ 2 * b \in Nat /\ 2 * b > 0
  OBVIOUS
<1> QED BY <1>1 DEF RoundDiv

\* The row a loan's loop inserts is a row of the table, and PENDING.
LEMMA NewRowType ==
  ASSUME NEW l \in Loans, l.termMonths > 0, NEW balance \in Int
  PROVE  NewInstallment(l, balance) \in InstallmentRow
         /\ NewInstallment(l, balance).status = "PENDING"
<1>1. /\ l.principalCents \in Int /\ l.annualRateBps \in Int
      /\ l.termMonths \in Nat /\ l.termMonths > 0
  BY LoansAssumption
<1>2. MonthlyPrincipal(l) \in Int
  BY <1>1, RoundedIsInteger DEF MonthlyPrincipal
<1>3. MonthlyInterest(l, balance) \in Int
  <2>1. balance * l.annualRateBps \in Int /\ 120000 \in Nat /\ 120000 > 0
    BY <1>1
  <2> QED BY <2>1, RoundedIsInteger DEF MonthlyInterest
<1>4. MonthlyPrincipal(l) + MonthlyInterest(l, balance) \in Int
      /\ (IF balance - MonthlyPrincipal(l) > 0 THEN balance - MonthlyPrincipal(l) ELSE 0) \in Int
  BY <1>2, <1>3
<1> QED BY <1>2, <1>3, <1>4 DEF NewInstallment, InstallmentRow, StatusValues

\* Rows of the same installment, whatever their status.
Same(x, y) == x.principal = y.principal /\ x.interest = y.interest /\ x.total = y.total

\* Changing the status of one row, and nothing else.
LEMMA StatusUpdate ==
  ASSUME schedule \in [Debts -> Seq(InstallmentRow)],
         NEW d \in Debts, NEW i \in DOMAIN schedule[d], NEW s \in StatusValues,
         schedule' = [schedule EXCEPT ![d][i].status = s]
  PROVE  /\ schedule' \in [Debts -> Seq(InstallmentRow)]
         /\ \A e \in Debts : DOMAIN schedule'[e] = DOMAIN schedule[e]
         /\ \A e \in Debts : \A k \in DOMAIN schedule[e] :
              /\ schedule'[e][k].status = IF e = d /\ k = i THEN s ELSE schedule[e][k].status
              /\ Same(schedule'[e][k], schedule[e][k])
<1> DEFINE rows == schedule[d]
           row == [rows[i] EXCEPT !.status = s]
           new == [rows EXCEPT ![i] = row]
<1>1. rows \in Seq(InstallmentRow) /\ rows[i] \in InstallmentRow
  OBVIOUS
<1>2. row \in InstallmentRow /\ row.status = s /\ Same(row, rows[i])
  BY <1>1 DEF InstallmentRow, Same
<1>3. new \in Seq(InstallmentRow) /\ DOMAIN new = DOMAIN rows
      /\ \A k \in DOMAIN rows : new[k] = IF k = i THEN row ELSE rows[k]
  BY <1>1, <1>2
<1>4. schedule' = [schedule EXCEPT ![d] = new]
  OBVIOUS
<1> HIDE DEF new, row
<1>5. schedule' \in [Debts -> Seq(InstallmentRow)]
  BY <1>3, <1>4
<1>6. \A e \in Debts : schedule'[e] = IF e = d THEN new ELSE schedule[e]
  BY <1>4
<1>7. \A x : Same(x, x)
  BY DEF Same
<1> SUFFICES ASSUME NEW e \in Debts
             PROVE  /\ DOMAIN schedule'[e] = DOMAIN schedule[e]
                    /\ \A k \in DOMAIN schedule[e] :
                         /\ schedule'[e][k].status =
                              IF e = d /\ k = i THEN s ELSE schedule[e][k].status
                         /\ Same(schedule'[e][k], schedule[e][k])
  BY <1>5
<1>8. CASE e = d
  <2>1. schedule'[e] = new /\ schedule[e] = rows
    BY <1>6, <1>8
  <2> HIDE DEF rows
  <2>2. \A k \in DOMAIN rows : new[k].status = IF k = i THEN s ELSE rows[k].status
    BY <1>2, <1>3
  <2>3. \A k \in DOMAIN rows : Same(new[k], rows[k])
    BY <1>2, <1>3, <1>7
  <2>4. DOMAIN schedule'[e] = DOMAIN schedule[e] /\ DOMAIN schedule[e] = DOMAIN rows
    BY <1>3, <2>1
  <2>5. \A k \in DOMAIN rows : schedule'[e][k].status = IF e = d /\ k = i THEN s ELSE schedule[e][k].status
    BY <1>8, <2>1, <2>2
  <2>6. \A k \in DOMAIN rows : Same(schedule'[e][k], schedule[e][k])
    BY <2>1, <2>3
  <2> QED BY <2>4, <2>5, <2>6
<1>9. CASE e # d
  BY <1>6, <1>7, <1>9
<1> QED BY <1>8, <1>9

\* A turn of the loop of POST /debts: one more row at the end, PENDING, and the
\* same principal as in every other row.
LEMMA RowAppended ==
  ASSUME TablesTypeOK, CreatingInv, NEW r \in Requests, InsertInstallment(r)
  PROVE  LET d == debtOf[r] IN
         /\ d \in Debts /\ agreements[d] \in Loans /\ agreements[d].termMonths > 0
         /\ rem' \in [Requests -> Int] /\ \A q \in Requests \ {r} : rem'[q] = rem[q]
         /\ schedule' \in [Debts -> Seq(InstallmentRow)]
         /\ \A e \in Debts :
              /\ Len(schedule[e]) \in Nat /\ DOMAIN schedule[e] = 1 .. Len(schedule[e])
              /\ DOMAIN schedule'[e] =
                   DOMAIN schedule[e] \cup (IF e = d THEN {Len(schedule[e]) + 1} ELSE {})
              /\ \A k \in DOMAIN schedule[e] : schedule'[e][k] = schedule[e][k]
              /\ Paid(e)' = Paid(e)
              /\ Pending(e)' = Pending(e) \cup (IF e = d THEN {Len(schedule[e]) + 1} ELSE {})
         /\ schedule'[d][Len(schedule[d]) + 1].principal = MonthlyPrincipal(agreements[d])
<1> DEFINE d == debtOf[r]
           l == agreements[d]
           new == NewInstallment(l, rem[r])
           old == schedule[d]
<1>1. /\ d \in Debts /\ l \in Loans /\ l.termMonths > 0 /\ rem[r] \in Int /\ old \in Seq(InstallmentRow)
      /\ schedule \in [Debts -> Seq(InstallmentRow)] /\ rem \in [Requests -> Int]
  BY DEF CreatingInv, InsertInstallment, TablesTypeOK
<1>2. new \in InstallmentRow /\ new.status = "PENDING"
  BY <1>1, NewRowType
<1>3. new.principal = MonthlyPrincipal(l)
  BY DEF NewInstallment
<1>4. /\ schedule' = [schedule EXCEPT ![d] = Append(old, new)]
      /\ rem' = [rem EXCEPT ![r] = @ - new.principal]
  BY <1>1 DEF InsertInstallment
<1> HIDE DEF new
<1>5. Append(old, new) \in Seq(InstallmentRow) /\ Len(Append(old, new)) = Len(old) + 1
      /\ \A k \in 1 .. Len(old) : Append(old, new)[k] = old[k]
      /\ Append(old, new)[Len(old) + 1] = new
  BY <1>1, <1>2
<1>6. schedule' \in [Debts -> Seq(InstallmentRow)]
      /\ rem' \in [Requests -> Int] /\ \A q \in Requests \ {r} : rem'[q] = rem[q]
  <2>1. schedule' \in [Debts -> Seq(InstallmentRow)]
    BY <1>1, <1>4, <1>5
  <2>2. new.principal \in Int
    BY <1>2 DEF InstallmentRow
  <2> QED BY <1>1, <1>4, <2>1, <2>2
<1>7. schedule'[d][Len(schedule[d]) + 1].principal = MonthlyPrincipal(agreements[d])
  BY <1>1, <1>3, <1>4, <1>5
<1>8. ASSUME NEW e \in Debts
      PROVE  /\ Len(schedule[e]) \in Nat /\ DOMAIN schedule[e] = 1 .. Len(schedule[e])
             /\ DOMAIN schedule'[e] =
                  DOMAIN schedule[e] \cup (IF e = d THEN {Len(schedule[e]) + 1} ELSE {})
             /\ \A k \in DOMAIN schedule[e] : schedule'[e][k] = schedule[e][k]
             /\ Paid(e)' = Paid(e)
             /\ Pending(e)' = Pending(e) \cup (IF e = d THEN {Len(schedule[e]) + 1} ELSE {})
  <2>1. Len(schedule[e]) \in Nat /\ DOMAIN schedule[e] = 1 .. Len(schedule[e])
    BY <1>1
  <2>2. CASE e # d
    <3>1. schedule'[e] = schedule[e]
      BY <1>1, <1>4, <2>2
    <3> QED BY <2>1, <2>2, <3>1 DEF Paid, Pending
  <2>3. CASE e = d
    <3>1. schedule'[e] = Append(old, new) /\ schedule[e] = old
      BY <1>1, <1>4, <2>3
    <3>2. DOMAIN Append(old, new) = 1 .. Len(old) + 1
      BY <1>1, <1>2
    <3>3. DOMAIN schedule'[e] = DOMAIN schedule[e] \cup {Len(schedule[e]) + 1}
      BY <2>1, <3>1, <3>2
    <3>4. \A k \in DOMAIN schedule[e] : schedule'[e][k] = schedule[e][k]
      BY <1>5, <2>1, <3>1
    <3>5. schedule'[e][Len(schedule[e]) + 1].status = "PENDING"
      BY <1>2, <1>5, <3>1
    <3>6. Paid(e)' = Paid(e)
      BY <3>3, <3>4, <3>5 DEF Paid
    <3>7. Pending(e)' = Pending(e) \cup {Len(schedule[e]) + 1}
      BY <3>3, <3>4, <3>5 DEF Pending
    <3> QED BY <2>1, <2>3, <3>3, <3>4, <3>6, <3>7
  <2> QED BY <2>2, <2>3
<1> QED BY <1>1, <1>6, <1>7, <1>8

-----------------------------------------------------------------------------
LEMMA InitHandlerInv == Init => HandlerInv
<1> SUFFICES ASSUME Init PROVE HandlerInv
  OBVIOUS
<1> USE DEF Init, TablesInit
<1>1. TypeOK
  BY DEF TypeOK, TablesTypeOK, PcValues
<1>2. \A d \in Debts : Paid(d) = {} /\ Pending(d) = {}
  BY DEF Paid, Pending
<1> QED BY <1>1, <1>2 DEF HandlerInv, CreatingInv, SnapshotInv, NoGapBeforePaid

\* An installment leaves PENDING and becomes PAID only at the hands of a
\* handler that has no older one left: the two facts every step must keep.
LEMMA RowsOnlyLeavePending ==
  ASSUME HandlerInv, NEW d \in Debts, NEW i \in DOMAIN schedule[d],
         NEW s \in {"PAID", "OVERDUE"},
         schedule' = [schedule EXCEPT ![d][i].status = s]
  PROVE  \A e \in Debts :
           /\ DOMAIN schedule'[e] = DOMAIN schedule[e]
           /\ Pending(e)' \subseteq Pending(e)
           /\ e = d => i \notin Pending(e)'
           /\ Paid(e)' \subseteq Paid(e) \cup (IF e = d /\ s = "PAID" THEN {i} ELSE {})
<1>1. schedule \in [Debts -> Seq(InstallmentRow)] /\ s \in StatusValues
  BY DEF HandlerInv, TypeOK, TablesTypeOK, StatusValues
<1>2. /\ \A e \in Debts : DOMAIN schedule'[e] = DOMAIN schedule[e]
      /\ \A e \in Debts : \A k \in DOMAIN schedule[e] :
           schedule'[e][k].status = IF e = d /\ k = i THEN s ELSE schedule[e][k].status
  BY <1>1, StatusUpdate
<1> QED BY <1>2 DEF Pending, Paid

LEMMA CreateDebtInv ==
  ASSUME HandlerInv, NEW r \in Requests, NEW d \in Debts, NEW l \in Loans,
         CreateDebt(r, d, l), UNCHANGED serverVars
  PROVE  HandlerInv'
<1> USE DEF HandlerInv, CreateDebt, serverVars
<1>1. TypeOK'
  BY LoansAssumption DEF TypeOK, TablesTypeOK, PcValues, InHandler
<1>2. CreatingInv'
  BY LoansAssumption DEF CreatingInv, TypeOK, TablesTypeOK
<1>3. SnapshotInv'
  BY DEF SnapshotInv, TypeOK, TablesTypeOK, Pending
<1>4. NoGapBeforePaid'
  BY DEF NoGapBeforePaid, Paid, Pending
<1> QED BY <1>1, <1>2, <1>3, <1>4

LEMMA InsertInstallmentInv ==
  ASSUME HandlerInv, NEW r \in Requests, InsertInstallment(r), UNCHANGED serverVars
  PROVE  HandlerInv'
<1> DEFINE d == debtOf[r]
<1>1. TablesTypeOK /\ CreatingInv
  BY DEF HandlerInv, TypeOK
<1>2. pc' \in {pc, [pc EXCEPT ![r] = "done"]} /\ UNCHANGED <<agreements, debtOf>>
  BY DEF HandlerInv, TypeOK, TablesTypeOK, InsertInstallment
<1>3. UNCHANGED <<todo, amount, ip, pp, payments, shared>>
  BY DEF serverVars
<1>4. /\ d \in Debts /\ schedule' \in [Debts -> Seq(InstallmentRow)]
      /\ rem' \in [Requests -> Int]
  BY <1>1, RowAppended
<1>5. \A e \in Debts :
        /\ Len(schedule[e]) \in Nat /\ DOMAIN schedule[e] = 1 .. Len(schedule[e])
        /\ DOMAIN schedule[e] \subseteq DOMAIN schedule'[e]
        /\ Paid(e)' = Paid(e)
        /\ Pending(e)' \subseteq Pending(e) \cup {Len(schedule[e]) + 1}
  <2> SUFFICES ASSUME NEW e \in Debts
               PROVE  /\ Len(schedule[e]) \in Nat /\ DOMAIN schedule[e] = 1 .. Len(schedule[e])
                      /\ DOMAIN schedule[e] \subseteq DOMAIN schedule'[e]
                      /\ Paid(e)' = Paid(e)
                      /\ Pending(e)' \subseteq Pending(e) \cup {Len(schedule[e]) + 1}
    OBVIOUS
  <2> QED BY <1>1, RowAppended
<1>6. TypeOK'
  <2>1. pc' \in [Requests -> PcValues]
    BY <1>1, <1>2 DEF TablesTypeOK, PcValues
  <2> QED BY <1>1, <1>2, <1>3, <1>4, <2>1 DEF HandlerInv, TypeOK, TablesTypeOK
<1>7. \A q \in Requests : pc'[q] \in {"creating", "settling"} => pc'[q] = pc[q]
  BY <1>1, <1>2 DEF TablesTypeOK
<1>8. CreatingInv'
  BY <1>2, <1>7 DEF HandlerInv, CreatingInv
<1>9. SnapshotInv'
  <2> SUFFICES ASSUME NEW q \in Requests, NEW e, pc'[q] = "settling", e = debtOf'[q]
               PROVE  /\ e \in Debts /\ todo'[q] \subseteq DOMAIN schedule'[e]
                      /\ \A j \in todo'[q] : \A i \in Pending(e)' : i < j => i \in todo'[q]
    BY DEF SnapshotInv, Pending
  <2>1. /\ e \in Debts /\ todo[q] \subseteq DOMAIN schedule[e] /\ todo'[q] = todo[q]
        /\ \A j \in todo[q] : \A i \in Pending(e) : i < j => i \in todo[q]
    BY <1>2, <1>3, <1>7 DEF HandlerInv, SnapshotInv
  <2>2. \A j \in todo[q] : j \in 1 .. Len(schedule[e])
    BY <1>5, <2>1
  <2> QED BY <1>3, <1>5, <2>1, <2>2
<1>10. NoGapBeforePaid'
  <2> SUFFICES ASSUME NEW e \in Debts, NEW j \in Paid(e)', NEW i \in Pending(e)'
               PROVE  j < i
    BY DEF NoGapBeforePaid
  <2>1. j \in Paid(e) /\ j \in 1 .. Len(schedule[e])
    BY <1>5 DEF Paid
  <2>2. i \in Pending(e) \/ i = Len(schedule[e]) + 1
    BY <1>5
  <2> QED BY <1>5, <2>1, <2>2 DEF HandlerInv, NoGapBeforePaid
<1> QED BY <1>6, <1>8, <1>9, <1>10 DEF HandlerInv

LEMMA SelectPendingInv ==
  ASSUME HandlerInv, NEW r \in Requests, NEW d \in Debts, NEW a \in Amounts,
         SelectPending(r, d, a)
  PROVE  HandlerInv'
<1> USE DEF HandlerInv, SelectPending
<1>0. a \in Int
  BY AmountsAssumption
<1>1. Pending(d) \in SUBSET Nat /\ Pending(d) \subseteq DOMAIN schedule[d]
  BY DEF Pending, TypeOK, TablesTypeOK
<1>2. TypeOK'
  BY <1>0, <1>1 DEF TypeOK, TablesTypeOK, PcValues, InHandler
<1>3. CreatingInv'
  BY DEF CreatingInv, TypeOK, TablesTypeOK
<1>4. \A e \in Debts : Pending(e)' = Pending(e) /\ Paid(e)' = Paid(e)
  BY DEF Pending, Paid
<1>5. SnapshotInv'
  BY <1>1, <1>4 DEF SnapshotInv, TypeOK, TablesTypeOK
<1>6. NoGapBeforePaid'
  BY <1>4 DEF NoGapBeforePaid
<1> QED BY <1>2, <1>3, <1>5, <1>6

LEMMA SettleInstallmentInv ==
  ASSUME HandlerInv, NEW r \in Requests, SettleInstallment(r)
  PROVE  HandlerInv'
<1> DEFINE d == debtOf[r]
           i == First(todo[r])
<1>1. /\ d \in Debts /\ todo[r] \in SUBSET Nat /\ todo[r] # {}
      /\ todo[r] \subseteq DOMAIN schedule[d]
      /\ \A j \in todo[r] : \A k \in Pending(d) : k < j => k \in todo[r]
      /\ schedule \in [Debts -> Seq(InstallmentRow)]
  BY DEF HandlerInv, SnapshotInv, TypeOK, TablesTypeOK, SettleInstallment, LoopGoesOn
<1>2. i \in todo[r] /\ \A j \in todo[r] : i <= j
  BY <1>1, FirstIsOldest
<1>3. i \in DOMAIN schedule[d] /\ i \in Nat
  BY <1>1, <1>2
<1>4. schedule' = [schedule EXCEPT ![d][i].status = "PAID"]
  BY DEF SettleInstallment, MarkPaid
<1>5. /\ ip' = [ip EXCEPT ![r] = @ + schedule[d][i].interest]
      /\ pp' = [pp EXCEPT ![r] = @ + schedule[d][i].principal]
      /\ rem' = [rem EXCEPT ![r] = @ - schedule[d][i].total]
      /\ todo' = [todo EXCEPT ![r] = @ \ {i}]
      /\ UNCHANGED <<agreements, pc, debtOf, amount, payments, shared>>
  BY DEF SettleInstallment
<1> HIDE DEF i
<1>6. schedule[d][i] \in InstallmentRow
  BY <1>1, <1>3
<1>7. \A e \in Debts :
        /\ DOMAIN schedule'[e] = DOMAIN schedule[e]
        /\ Pending(e)' \subseteq Pending(e)
        /\ e = d => i \notin Pending(e)'
        /\ Paid(e)' \subseteq Paid(e) \cup (IF e = d THEN {i} ELSE {})
  BY <1>1, <1>3, <1>4, RowsOnlyLeavePending
<1>8. TypeOK'
  <2>1. schedule' \in [Debts -> Seq(InstallmentRow)]
    BY <1>1, <1>3, <1>4, StatusUpdate DEF StatusValues
  <2>2. /\ schedule[d][i].interest \in Int /\ schedule[d][i].principal \in Int
        /\ schedule[d][i].total \in Int
    BY <1>6 DEF InstallmentRow
  <2>3. ip' \in [Requests -> Int] /\ pp' \in [Requests -> Int] /\ rem' \in [Requests -> Int]
    <3> DEFINE di == schedule[d][i].interest
               dp == schedule[d][i].principal
               dt == schedule[d][i].total
    <3>1. /\ ip' = [ip EXCEPT ![r] = @ + di] /\ pp' = [pp EXCEPT ![r] = @ + dp]
          /\ rem' = [rem EXCEPT ![r] = @ - dt]
          /\ di \in Int /\ dp \in Int /\ dt \in Int
      BY <1>5, <2>2
    <3> HIDE DEF di, dp, dt
    <3>2. /\ ip \in [Requests -> Int] /\ pp \in [Requests -> Int]
          /\ rem \in [Requests -> Int]
      BY DEF HandlerInv, TypeOK, TablesTypeOK
    <3>3. ip' \in [Requests -> Int]
      BY <3>1, <3>2
    <3>4. pp' \in [Requests -> Int]
      BY <3>1, <3>2
    <3>5. rem' \in [Requests -> Int]
      BY <3>1, <3>2
    <3> QED BY <3>3, <3>4, <3>5
  <2>4. todo' \in [Requests -> SUBSET Nat]
    BY <1>1, <1>5 DEF HandlerInv, TypeOK
  <2> QED BY <1>5, <2>1, <2>3, <2>4 DEF HandlerInv, TypeOK, TablesTypeOK
<1>9. CreatingInv'
  BY <1>5 DEF HandlerInv, CreatingInv
<1>10. SnapshotInv'
  <2> SUFFICES ASSUME NEW q \in Requests, NEW e, pc'[q] = "settling", e = debtOf'[q]
               PROVE  /\ e \in Debts /\ todo'[q] \subseteq DOMAIN schedule'[e]
                      /\ \A j \in todo'[q] : \A k \in Pending(e)' : k < j => k \in todo'[q]
    BY DEF SnapshotInv, Pending
  <2>1. /\ e \in Debts /\ todo[q] \subseteq DOMAIN schedule[e] /\ (q = r => e = d)
        /\ \A j \in todo[q] : \A k \in Pending(e) : k < j => k \in todo[q]
    BY <1>5 DEF HandlerInv, SnapshotInv
  <2>2. todo'[q] = IF q = r THEN todo[q] \ {i} ELSE todo[q]
    BY <1>5 DEF HandlerInv, TypeOK
  <2> QED BY <1>7, <2>1, <2>2
<1>11. NoGapBeforePaid'
  <2> SUFFICES ASSUME NEW e \in Debts, NEW j \in Paid(e)', NEW k \in Pending(e)'
               PROVE  j < k
    BY DEF NoGapBeforePaid
  <2>1. k \in Pending(e) /\ (e = d => k # i)
    BY <1>7
  <2>2. CASE j \in Paid(e)
    BY <2>1, <2>2 DEF HandlerInv, NoGapBeforePaid
  <2>3. CASE e = d /\ j = i
    <3>1. k \in Nat
      BY <1>1, <2>1, <2>3 DEF Pending
    <3>2. k < i => k \in todo[r]
      BY <1>1, <1>2, <2>1, <2>3
    <3> QED BY <1>2, <1>3, <2>1, <2>3, <3>1, <3>2
  <2> QED BY <1>7, <2>2, <2>3
<1> QED BY <1>8, <1>9, <1>10, <1>11 DEF HandlerInv

LEMMA InsertPaymentInv ==
  ASSUME HandlerInv, NEW r \in Requests, InsertPayment(r)
  PROVE  HandlerInv'
<1> USE DEF HandlerInv, InsertPayment
<1>1. /\ debtOf[r] \in Debts /\ amount[r] \in Int /\ ip[r] \in Int /\ pp[r] \in Int
      /\ rem[r] \in Int
  BY DEF SnapshotInv, TypeOK, TablesTypeOK
<1>2. [debt |-> debtOf[r], amount |-> amount[r],
       interest_paid |-> ip[r], principal_paid |-> pp[r],
       remaining |-> IF rem[r] < 0 THEN -rem[r] ELSE 0] \in PaymentRow
  BY <1>1 DEF PaymentRow
<1>3. TypeOK'
  BY <1>2 DEF TypeOK, TablesTypeOK, PcValues, InHandler
<1>4. \A e \in Debts : Pending(e)' = Pending(e) /\ Paid(e)' = Paid(e)
  BY DEF Pending, Paid
<1>5. CreatingInv' /\ SnapshotInv'
  BY <1>4 DEF CreatingInv, SnapshotInv, TypeOK, TablesTypeOK
<1>6. NoGapBeforePaid'
  BY <1>4 DEF NoGapBeforePaid
<1> QED BY <1>3, <1>5, <1>6

LEMMA FailInv ==
  ASSUME HandlerInv, NEW r \in Requests, Fail(r), UNCHANGED serverVars
  PROVE  HandlerInv'
<1> USE DEF HandlerInv, Fail, serverVars
<1>1. TypeOK'
  BY DEF TypeOK, TablesTypeOK, PcValues, InHandler
<1>2. \A e \in Debts : Pending(e)' = Pending(e) /\ Paid(e)' = Paid(e)
  BY DEF Pending, Paid
<1>3. CreatingInv' /\ SnapshotInv'
  BY <1>2 DEF CreatingInv, SnapshotInv, TypeOK, TablesTypeOK
<1>4. NoGapBeforePaid'
  BY <1>2 DEF NoGapBeforePaid
<1> QED BY <1>1, <1>3, <1>4

LEMMA MarkOverdueInv ==
  ASSUME HandlerInv, NEW d \in Debts, NEW i \in DOMAIN schedule[d],
         MarkOverdue(d, i), UNCHANGED serverVars
  PROVE  HandlerInv'
<1>1. schedule' = [schedule EXCEPT ![d][i].status = "OVERDUE"]
      /\ UNCHANGED <<agreements, pc, debtOf, rem>> /\ UNCHANGED serverVars
  BY DEF MarkOverdue
<1>2. \A e \in Debts :
        /\ DOMAIN schedule'[e] = DOMAIN schedule[e]
        /\ Pending(e)' \subseteq Pending(e) /\ Paid(e)' \subseteq Paid(e)
  BY <1>1, RowsOnlyLeavePending
<1>3. TypeOK'
  <2>1. schedule' \in [Debts -> Seq(InstallmentRow)]
    BY <1>1, StatusUpdate DEF HandlerInv, TypeOK, TablesTypeOK, StatusValues
  <2> QED BY <1>1, <2>1 DEF HandlerInv, TypeOK, TablesTypeOK, serverVars
<1>4. CreatingInv'
  BY <1>1 DEF HandlerInv, CreatingInv
<1>5. SnapshotInv'
  <2> SUFFICES ASSUME NEW q \in Requests, NEW e, pc'[q] = "settling", e = debtOf'[q]
               PROVE  /\ e \in Debts /\ todo'[q] \subseteq DOMAIN schedule'[e]
                      /\ \A j \in todo'[q] : \A k \in Pending(e)' : k < j => k \in todo'[q]
    BY DEF SnapshotInv, Pending
  <2>1. /\ e \in Debts /\ todo[q] \subseteq DOMAIN schedule[e] /\ todo'[q] = todo[q]
        /\ \A j \in todo[q] : \A k \in Pending(e) : k < j => k \in todo[q]
    BY <1>1 DEF HandlerInv, SnapshotInv, serverVars
  <2> QED BY <1>2, <2>1
<1>6. NoGapBeforePaid'
  BY <1>2 DEF HandlerInv, NoGapBeforePaid
<1> QED BY <1>3, <1>4, <1>5, <1>6 DEF HandlerInv

LEMMA NextHandlerInv == HandlerInv /\ [Next]_vars => HandlerInv'
<1>1. HandlerInv /\ UNCHANGED vars => HandlerInv'
  BY DEF vars, HandlerInv, TypeOK, TablesTypeOK, CreatingInv, SnapshotInv, NoGapBeforePaid,
         Paid, Pending
<1> QED BY <1>1, CreateDebtInv, InsertInstallmentInv, SelectPendingInv, SettleInstallmentInv,
           InsertPaymentInv, FailInv, MarkOverdueInv DEF Next, Handle

\* The handler invariant holds throughout, whatever interleaves.
THEOREM HandlerInvariant == Spec => []HandlerInv
BY InitHandlerInv, NextHandlerInv, PTL DEF Spec

-----------------------------------------------------------------------------
\* The tables and every handler's locals keep their types: a negative `rem`
\* included, no statement inserts or updates anything but a row of its table.
THEOREM TypeCorrect == Spec => []TypeOK
<1>1. HandlerInv => TypeOK
  BY DEF HandlerInv
<1> QED BY <1>1, HandlerInvariant, PTL

\* Installments are settled oldest first for any number of overlapping
\* requests, failures and overdue marks, although each handler works from a
\* list it read before its first await.
THEOREM OldestFirst == Spec => []NoGapBeforePaid
<1>1. HandlerInv => NoGapBeforePaid
  BY DEF HandlerInv
<1> QED BY <1>1, HandlerInvariant, PTL

-----------------------------------------------------------------------------
\* What the statements of POST /debts and of both payment handlers do to the
\* installments: they append rows of equal parts and change statuses.

EqualParts ==
  \A d \in Debts : \A i \in DOMAIN schedule[d] :
    /\ agreements[d] \in Loans /\ agreements[d].termMonths > 0
    /\ schedule[d][i].principal = MonthlyPrincipal(agreements[d])
TablesInv == TablesTypeOK /\ CreatingInv /\ EqualParts

LEMMA InitTables == TablesInit => TablesInv
<1> SUFFICES ASSUME TablesInit PROVE TablesInv
  OBVIOUS
<1> QED BY DEF TablesInit, TablesInv, TablesTypeOK, CreatingInv, EqualParts, PcValues

LEMMA CreateDebtTables ==
  ASSUME TablesInv, NEW r \in Requests, NEW d \in Debts, NEW l \in Loans, CreateDebt(r, d, l)
  PROVE  TablesInv'
<1> USE DEF TablesInv, CreateDebt
<1>1. TablesTypeOK' /\ CreatingInv'
  BY LoansAssumption DEF CreatingInv, TablesTypeOK, PcValues, InHandler
<1>2. EqualParts'
  <2>1. DOMAIN schedule[d] = {}
    BY LoansAssumption DEF EqualParts
  <2> QED BY <2>1 DEF EqualParts, TablesTypeOK
<1> QED BY <1>1, <1>2

LEMMA InsertInstallmentTables ==
  ASSUME TablesInv, NEW r \in Requests, InsertInstallment(r)
  PROVE  TablesInv'
<1> DEFINE d == debtOf[r]
<1>1. TablesTypeOK /\ CreatingInv /\ EqualParts
  BY DEF TablesInv
<1>2. pc' \in {pc, [pc EXCEPT ![r] = "done"]} /\ UNCHANGED <<agreements, debtOf>>
  BY <1>1 DEF TablesTypeOK, InsertInstallment
<1>3. /\ d \in Debts /\ agreements[d] \in Loans /\ agreements[d].termMonths > 0
      /\ rem' \in [Requests -> Int] /\ schedule' \in [Debts -> Seq(InstallmentRow)]
      /\ schedule'[d][Len(schedule[d]) + 1].principal = MonthlyPrincipal(agreements[d])
  BY <1>1, RowAppended
<1>4. TablesTypeOK' /\ CreatingInv'
  BY <1>1, <1>2, <1>3 DEF TablesTypeOK, CreatingInv, PcValues
<1>5. EqualParts'
  <2> SUFFICES ASSUME NEW e \in Debts, NEW i \in DOMAIN schedule'[e]
               PROVE  /\ agreements[e] \in Loans /\ agreements[e].termMonths > 0
                      /\ schedule'[e][i].principal = MonthlyPrincipal(agreements[e])
    BY <1>2 DEF EqualParts, MonthlyPrincipal
  <2>1. /\ Len(schedule[e]) \in Nat /\ DOMAIN schedule[e] = 1 .. Len(schedule[e])
        /\ DOMAIN schedule'[e] =
             DOMAIN schedule[e] \cup (IF e = d THEN {Len(schedule[e]) + 1} ELSE {})
        /\ \A k \in DOMAIN schedule[e] : schedule'[e][k] = schedule[e][k]
    BY <1>1, RowAppended
  <2>2. CASE i \in DOMAIN schedule[e]
    BY <1>1, <2>1, <2>2 DEF EqualParts
  <2>3. CASE i \notin DOMAIN schedule[e]
    BY <1>3, <2>1, <2>3
  <2> QED BY <2>2, <2>3
<1> QED BY <1>4, <1>5 DEF TablesInv

LEMMA StatusTables ==
  ASSUME TablesInv, NEW d \in Debts, NEW i \in DOMAIN schedule[d], NEW s \in StatusValues,
         schedule' = [schedule EXCEPT ![d][i].status = s],
         UNCHANGED <<agreements, pc, debtOf>>, rem' \in [Requests -> Int]
  PROVE  TablesInv'
<1>1. TablesTypeOK /\ CreatingInv /\ EqualParts
  BY DEF TablesInv
<1>2. /\ schedule' \in [Debts -> Seq(InstallmentRow)]
      /\ \A e \in Debts : DOMAIN schedule'[e] = DOMAIN schedule[e]
      /\ \A e \in Debts : \A k \in DOMAIN schedule[e] : Same(schedule'[e][k], schedule[e][k])
  BY <1>1, StatusUpdate DEF TablesTypeOK
<1>3. TablesTypeOK' /\ CreatingInv'
  BY <1>1, <1>2 DEF TablesTypeOK, CreatingInv
<1>4. EqualParts'
  BY <1>1, <1>2 DEF EqualParts, MonthlyPrincipal, Same
<1> QED BY <1>3, <1>4 DEF TablesInv

\* Statements on other tables.
LEMMA OtherTables ==
  ASSUME TablesInv, UNCHANGED <<agreements, schedule>>,
         pc' \in [Requests -> PcValues], debtOf' \in [Requests -> Debts \cup {NoDebt}],
         rem' \in [Requests -> Int],
         \A q \in Requests : pc'[q] = "creating" => pc[q] = "creating" /\ debtOf'[q] = debtOf[q]
  PROVE  TablesInv'
BY DEF TablesInv, TablesTypeOK, CreatingInv, EqualParts, MonthlyPrincipal

-----------------------------------------------------------------------------
\* A sum of equal terms.
LEMMA SumOfEquals ==
  ASSUME NEW n \in Nat, NEW c \in Int, NEW f, \A k \in 1 .. n : f[k] = c
  PROVE  SumFunctionOnSet(f, 1 .. n) = n * c
<1> DEFINE P == {m \in Nat : m <= n => SumFunctionOnSet(f, 1 .. m) = m * c}
<1>1. 0 \in P
  <2>1. 1 .. 0 = {} /\ 0 * c = 0
    OBVIOUS
  <2> QED BY <2>1, SumOfNone
<1>2. ASSUME NEW m \in Nat, m \in P PROVE m + 1 \in P
  <2> SUFFICES ASSUME m + 1 <= n PROVE SumFunctionOnSet(f, 1 .. m + 1) = (m + 1) * c
    OBVIOUS
  <2>1. 1 .. m + 1 = (1 .. m) \cup {m + 1} /\ m + 1 \notin 1 .. m
    OBVIOUS
  <2>2. \A k \in (1 .. m) \cup {m + 1} : f[k] \in Int
    OBVIOUS
  <2>3. SumFunctionOnSet(f, (1 .. m) \cup {m + 1}) = SumFunctionOnSet(f, 1 .. m) + f[m + 1]
    <3> DEFINE S == 1 .. m
               y == m + 1
    <3>1. IsFiniteSet(S) /\ y \notin S /\ \A k \in S \cup {y} : f[k] \in Int
      BY <2>2, FS_Interval
    <3> HIDE DEF S, y
    <3>2. SumFunctionOnSet(f, S \cup {y}) = SumFunctionOnSet(f, S) + f[y]
      BY <3>1, SumAdd
    <3> QED BY <3>2 DEF S, y
  <2>4. SumFunctionOnSet(f, 1 .. m) = m * c /\ f[m + 1] = c
    BY <1>2
  <2>5. m * c + c = (m + 1) * c
    OBVIOUS
  <2> QED BY <2>1, <2>3, <2>4, <2>5
<1> HIDE DEF P
<1>3. n \in P
  BY <1>1, <1>2, NatSetInduction
<1> QED BY <1>3 DEF P

\* Rounding is off by at most half the divisor.
LEMMA RoundedBy ==
  ASSUME NEW a \in Int, NEW n \in Nat, n > 0
  PROVE  2 * (n * RoundDiv(a, n) - a) <= n /\ -2 * (n * RoundDiv(a, n) - a) <= n
<1> DEFINE q == RoundDiv(a, n)
<1>1. /\ q \in Int /\ (2 * n) * q <= 2 * a + n /\ 2 * a + n < (2 * n) * q + 2 * n
  BY DEF RoundDiv
<1>2. n * q \in Int /\ (2 * n) * q = 2 * (n * q)
  BY <1>1
<1> HIDE DEF q
<1>3. 2 * (n * q - a) <= n /\ -2 * (n * q - a) <= n
  BY <1>1, <1>2
<1> QED BY <1>3 DEF q

LEMMA PartsRepay == TablesInv => ScheduleRepaysPrincipal
<1> SUFFICES ASSUME TablesInv, NEW d \in Debts, Complete(d)
             PROVE  LET l == agreements[d]
                        drift == SumFunction([i \in DOMAIN schedule[d] |-> schedule[d][i].principal])
                                   - l.principalCents
                    IN  2 * drift <= l.termMonths /\ -2 * drift <= l.termMonths
  BY DEF ScheduleRepaysPrincipal
<1> DEFINE l == agreements[d]
           n == l.termMonths
           part == MonthlyPrincipal(l)
           f == [i \in DOMAIN schedule[d] |-> schedule[d][i].principal]
<1>1. l \in Loans /\ n >= 1 /\ Len(schedule[d]) = n
  BY DEF Complete, TablesInv, TablesTypeOK
<1>2. l.principalCents \in Int /\ n \in Nat /\ n > 0
  <2>1. l.principalCents \in Int /\ n \in Int
    BY <1>1, LoansAssumption
  <2> QED BY <1>1, <2>1
<1>3. DOMAIN schedule[d] = 1 .. n
  BY <1>1 DEF TablesInv, TablesTypeOK
<1>4. part \in Int /\ \A k \in 1 .. n : f[k] = part
  <2>1. part \in Int
    BY <1>2, RoundedIsInteger DEF MonthlyPrincipal
  <2> QED BY <1>3, <2>1 DEF TablesInv, EqualParts
<1>5. SumFunction(f) = n * part
  <2>1. DOMAIN f = 1 .. n
    BY <1>3
  <2> HIDE DEF f, part, n
  <2>2. SumFunctionOnSet(f, 1 .. n) = n * part
    BY <1>2, <1>4, SumOfEquals
  <2> QED BY <2>1, <2>2 DEF SumFunction
<1>6. 2 * (n * part - l.principalCents) <= n /\ -2 * (n * part - l.principalCents) <= n
  BY <1>2, RoundedBy DEF MonthlyPrincipal
<1> HIDE DEF f, part, n
<1>7. 2 * (SumFunction(f) - l.principalCents) <= n /\ -2 * (SumFunction(f) - l.principalCents) <= n
  BY <1>5, <1>6
<1> QED BY <1>7 DEF f, n

\* The installments of a debt are equal parts throughout.
LEMMA NextTables == HandlerInv /\ TablesInv /\ [Next]_vars => TablesInv'
<1> SUFFICES ASSUME HandlerInv, TablesInv, [Next]_vars PROVE TablesInv'
  OBVIOUS
<1>0. TablesTypeOK
  BY DEF TablesInv
<1>1. ASSUME NEW r \in Requests, NEW d \in Debts, NEW a \in Amounts, SelectPending(r, d, a)
      PROVE  TablesInv'
  <2>1. a \in Int
    BY AmountsAssumption
  <2> QED BY <1>0, <1>1, <2>1, OtherTables DEF SelectPending, TablesTypeOK, PcValues, InHandler
<1>2. ASSUME NEW r \in Requests, SettleInstallment(r) PROVE TablesInv'
  <2> DEFINE d == debtOf[r]
             i == First(todo[r])
  <2>1. d \in Debts /\ i \in DOMAIN schedule[d]
    BY <1>2, FirstIsOldest DEF HandlerInv, SnapshotInv, TypeOK, SettleInstallment, LoopGoesOn
  <2>2. schedule' = [schedule EXCEPT ![d][i].status = "PAID"]
        /\ UNCHANGED <<agreements, pc, debtOf>> /\ rem' = [rem EXCEPT ![r] = @ - schedule[d][i].total]
    BY <1>2 DEF SettleInstallment, MarkPaid
  <2> HIDE DEF i
  <2>3. schedule[d] \in Seq(InstallmentRow)
    BY <1>0, <2>1 DEF TablesTypeOK
  <2>4. schedule[d][i].total \in Int
    <3>1. schedule[d][i] \in InstallmentRow
      BY <2>1, <2>3
    <3> QED BY <3>1 DEF InstallmentRow
  <2>5. rem' \in [Requests -> Int]
    <3> DEFINE t == schedule[d][i].total
    <3>1. t \in Int /\ rem' = [rem EXCEPT ![r] = @ - t]
      BY <2>2, <2>4
    <3> HIDE DEF t
    <3> QED BY <1>0, <3>1 DEF TablesTypeOK
  <2> QED BY <2>1, <2>2, <2>5, StatusTables DEF StatusValues
<1>3. ASSUME NEW r \in Requests, InsertPayment(r) PROVE TablesInv'
  BY <1>0, <1>3, OtherTables DEF InsertPayment, TablesTypeOK, PcValues, InHandler
<1>4. ASSUME NEW r \in Requests, Fail(r) PROVE TablesInv'
  BY <1>0, <1>4, OtherTables DEF Fail, TablesTypeOK, PcValues, InHandler
<1>5. ASSUME NEW d \in Debts, NEW i \in DOMAIN schedule[d], MarkOverdue(d, i) PROVE TablesInv'
  BY <1>0, <1>5, StatusTables DEF MarkOverdue, StatusValues, TablesTypeOK
<1>6. CASE UNCHANGED vars
  BY <1>0, <1>6, OtherTables DEF vars, TablesTypeOK
<1> QED BY <1>1, <1>2, <1>3, <1>4, <1>5, <1>6, CreateDebtTables, InsertInstallmentTables
        DEF Next, Handle

\* A complete schedule of the HTTP server repays the principal to half a cent a
\* month, whatever was paid, marked or broken off while it was being inserted.
THEOREM PartsRepayPrincipal == Spec => []ScheduleRepaysPrincipal
<1>1. Init => TablesInv
  BY InitTables DEF Init
<1> QED BY <1>1, NextTables, HandlerInvariant, PartsRepay, PTL DEF Spec

-----------------------------------------------------------------------------
\* The reports on those tables.

ReportsInv ==
  /\ HandlerInv /\ TablesInv
  /\ IsFiniteSet(OnRecord)

LEMMA ReportsInitInv == ReportsInit => ReportsInv
<1> SUFFICES ASSUME ReportsInit PROVE ReportsInv
  OBVIOUS
<1>1. HandlerInv /\ TablesInv
  BY InitHandlerInv, InitTables DEF ReportsInit, Init
<1>2. OnRecord = {}
  BY DEF ReportsInit, Init, TablesInit, OnRecord
<1> QED BY <1>1, <1>2, FS_EmptySet DEF ReportsInv

LEMMA ReportsNextInv == ReportsInv /\ [ReportsNext]_<<vars, reportVars>> => ReportsInv'
<1> SUFFICES ASSUME ReportsInv, [ReportsNext]_<<vars, reportVars>> PROVE ReportsInv'
  OBVIOUS
<1>1. [Next]_vars
  BY DEF ReportsNext, Serve
<1>2. HandlerInv' /\ TablesInv'
  <2>1. HandlerInv /\ TablesInv
    BY DEF ReportsInv
  <2>2. HandlerInv'
    BY <1>1, <2>1, NextHandlerInv
  <2>3. TablesInv'
    BY <1>1, <2>1, NextTables
  <2> QED BY <2>2, <2>3
<1>3. UNCHANGED agreements
        \/ \E d \in Debts, l \in Loans : agreements' = [agreements EXCEPT ![d] = l]
  BY <1>1 DEF Next, vars, CreateDebt, SelectPending, Handle, InsertInstallment,
             SettleInstallment, InsertPayment, Fail, MarkOverdue
<1>4. IsFiniteSet(OnRecord')
  <2>1. CASE UNCHANGED agreements
    BY <2>1 DEF ReportsInv, OnRecord
  <2>2. ASSUME NEW d \in Debts, NEW l \in Loans, agreements' = [agreements EXCEPT ![d] = l]
        PROVE  IsFiniteSet(OnRecord')
    <3>1. OnRecord' \subseteq OnRecord \cup {d}
      BY <2>2 DEF OnRecord
    <3>2. IsFiniteSet(OnRecord \cup {d})
      BY FS_AddElement DEF ReportsInv
    <3> QED BY <3>1, <3>2, FS_Subset
  <2> QED BY <1>3, <2>1, <2>2
<1> QED BY <1>1, <1>2, <1>4 DEF ReportsInv

-----------------------------------------------------------------------------
\* What is credited to a debt that no two payments were settling at once: never
\* more than its PAID installments repaid, the principal included that a handler
\* has added up and not yet written.

Lends(d) == agreements[d] # NoLoan => agreements[d].principalCents >= 0
PaymentLocals ==
  \A r \in Requests :
    /\ pc[r] = "idle" => pp[r] = 0
    /\ pc[r] = "settling" /\ Lends(debtOf[r]) => pp[r] >= 0
    /\ pc[r] \in {"idle", "settling"} => payments[r] = NoPayment
    /\ payments[r] # NoPayment /\ Lends(payments[r].debt) => payments[r].principal_paid >= 0
CreditRows(d) == {r \in Requests : payments[r] # NoPayment /\ payments[r].debt = d}
Earned(d) ==
  /\ \A q, r \in Settling(d) : q = r
  /\ Credited(d) <= RepaidPrincipal(d)
  /\ \A r \in Settling(d) :
       /\ Credited(d) + pp[r] <= RepaidPrincipal(d)
       /\ todo[r] \cap Paid(d) = {}
CreditInv ==
  /\ PaymentLocals
  /\ IsFiniteSet(PaidRows)
  /\ \A d \in Debts : d \notin shared /\ Lends(d) => Earned(d)

\* A debt that was lent nothing negative was not lent anything negative before.
LEMMA LendsSince ==
  ASSUME TablesTypeOK, UNCHANGED agreements
           \/ \E d \in Debts, l \in Loans :
                agreements[d] = NoLoan /\ agreements' = [agreements EXCEPT ![d] = l]
  PROVE  \A e \in Debts : Lends(e)' => Lends(e)
BY DEF Lends, TablesTypeOK

\* Parts of a principal that is not negative are not negative either.
LEMMA PartsAreNatural ==
  ASSUME TablesInv, NEW d \in Debts, Lends(d), NEW i \in DOMAIN schedule[d]
  PROVE  schedule[d][i].principal \in Nat
<1> DEFINE l == agreements[d]
<1>1. /\ l.principalCents \in Nat /\ l.termMonths \in Nat /\ l.termMonths > 0
      /\ schedule[d][i].principal = MonthlyPrincipal(l)
  <2>1. /\ l \in Loans /\ l.termMonths > 0 /\ schedule[d][i].principal = MonthlyPrincipal(l)
        /\ l \in [principalCents : Int, annualRateBps : Int, termMonths : Int] /\ l # NoLoan
    BY LoansAssumption DEF TablesInv, EqualParts
  <2> QED BY <2>1 DEF Lends
<1> HIDE DEF l
<1>2. 2 * l.principalCents + l.termMonths \in Nat /\ 2 * l.termMonths \in Nat
      /\ 2 * l.termMonths > 0
  BY <1>1
<1> QED BY <1>1, <1>2 DEF MonthlyPrincipal, RoundDiv

\* Both sums are of finitely many integers.
LEMMA CreditsAreIntegers ==
  ASSUME HandlerInv, IsFiniteSet(PaidRows), NEW d \in Debts
  PROVE  /\ IsFiniteSet(CreditRows(d)) /\ Credited(d) \in Int
         /\ \A r \in CreditRows(d) : payments[r].principal_paid \in Int
<1>1. CreditRows(d) \subseteq PaidRows
  BY DEF CreditRows, PaidRows
<1>2. IsFiniteSet(CreditRows(d))
  BY <1>1, FS_Subset
<1>3. \A r \in CreditRows(d) : payments[r].principal_paid \in Int
  BY DEF CreditRows, HandlerInv, TypeOK, PaymentRow
<1> DEFINE f == [r \in CreditRows(d) |-> payments[r].principal_paid]
<1>4. \A r \in CreditRows(d) : f[r] \in Int
  BY <1>3
<1>5. Credited(d) = SumFunctionOnSet(f, CreditRows(d))
  BY DEF Credited, CreditRows, SumFunction
<1> HIDE DEF f
<1>6. SumFunctionOnSet(f, CreditRows(d)) \in Int
  BY <1>2, <1>4, SumIsInt
<1> QED BY <1>2, <1>3, <1>5, <1>6

LEMMA RepaidIsInteger ==
  ASSUME HandlerInv, NEW d \in Debts
  PROVE  /\ IsFiniteSet(Paid(d)) /\ RepaidPrincipal(d) \in Int
         /\ \A i \in Paid(d) : schedule[d][i].principal \in Int
<1>1. schedule[d] \in Seq(InstallmentRow)
  BY DEF HandlerInv, TypeOK, TablesTypeOK
<1>2. IsFiniteSet(DOMAIN schedule[d])
  BY <1>1, FS_Interval
<1>3. IsFiniteSet(Paid(d))
  BY <1>2, FS_Subset DEF Paid
<1>4. \A i \in Paid(d) : schedule[d][i].principal \in Int
  <2>1. \A i \in Paid(d) : schedule[d][i] \in InstallmentRow
    BY <1>1 DEF Paid
  <2> QED BY <2>1 DEF InstallmentRow
<1> DEFINE f == [i \in Paid(d) |-> schedule[d][i].principal]
<1>5. \A i \in Paid(d) : f[i] \in Int
  BY <1>4
<1>6. RepaidPrincipal(d) = SumFunctionOnSet(f, Paid(d))
  BY DEF RepaidPrincipal, SumFunction
<1> HIDE DEF f
<1>7. SumFunctionOnSet(f, Paid(d)) \in Int
  BY <1>3, <1>5, SumIsInt
<1> QED BY <1>3, <1>4, <1>6, <1>7

\* A step that neither credits nor repays anything of a debt.
LEMMA EarnedStays ==
  ASSUME NEW d \in Debts, Earned(d), payments' = payments, Paid(d)' = Paid(d),
         RepaidPrincipal(d)' = RepaidPrincipal(d),
         \A r \in Settling(d)' : r \in Settling(d) /\ pp'[r] = pp[r] /\ todo'[r] = todo[r]
  PROVE  Earned(d)'
<1>1. Credited(d)' = Credited(d)
  BY DEF Credited
<1>2. \A q, r \in Settling(d)' : q = r
  BY DEF Earned
<1>3. ASSUME NEW r \in Settling(d)'
      PROVE  Credited(d)' + pp'[r] <= RepaidPrincipal(d)' /\ todo'[r] \cap Paid(d)' = {}
  BY <1>1, <1>3 DEF Earned
<1> QED BY <1>1, <1>2, <1>3 DEF Earned

LEMMA RepaidSame ==
  ASSUME NEW d \in Debts, Paid(d)' = Paid(d),
         \A i \in Paid(d) : schedule'[d][i].principal = schedule[d][i].principal
  PROVE  RepaidPrincipal(d)' = RepaidPrincipal(d)
<1>1. [i \in Paid(d)' |-> schedule'[d][i].principal] = [i \in Paid(d) |-> schedule[d][i].principal]
  OBVIOUS
<1> QED BY <1>1 DEF RepaidPrincipal

LEMMA CreditInit == Init => CreditInv
<1> SUFFICES ASSUME Init PROVE CreditInv
  OBVIOUS
<1>1. PaymentLocals
  BY DEF Init, TablesInit, PaymentLocals
<1>2. PaidRows = {} /\ \A d \in Debts : CreditRows(d) = {} /\ Paid(d) = {} /\ Settling(d) = {}
  BY DEF Init, TablesInit, PaidRows, CreditRows, Paid, Settling
<1>3. ASSUME NEW d \in Debts PROVE Credited(d) = 0 /\ RepaidPrincipal(d) = 0
  <2>1. \A f : SumFunctionOnSet(f, {}) = 0
    BY SumOfNone
  <2>2. Credited(d) = 0
    <3> DEFINE f == [r \in CreditRows(d) |-> payments[r].principal_paid]
    <3>1. Credited(d) = SumFunctionOnSet(f, CreditRows(d))
      BY DEF Credited, CreditRows, SumFunction
    <3> QED BY <1>2, <2>1, <3>1
  <2>3. RepaidPrincipal(d) = 0
    <3> DEFINE f == [i \in Paid(d) |-> schedule[d][i].principal]
    <3>1. RepaidPrincipal(d) = SumFunctionOnSet(f, Paid(d))
      BY DEF RepaidPrincipal, SumFunction
    <3> QED BY <1>2, <2>1, <3>1
  <2> QED BY <2>2, <2>3
<1> QED BY <1>1, <1>2, <1>3, FS_EmptySet DEF CreditInv, Earned

\* The steps of POST /debts, of failures and of the overdue job.
LEMMA CreditKept ==
  ASSUME HandlerInv, CreditInv, UNCHANGED serverVars,
         \A d \in Debts : Lends(d)' => Lends(d),
         \A r \in Requests : pc'[r] = pc[r] \/ pc'[r] \in {"creating", "done", "failed"},
         \A r \in Requests : pc'[r] = "settling" => debtOf'[r] = debtOf[r],
         \A d \in Debts : /\ Paid(d)' = Paid(d)
                          /\ \A i \in Paid(d) : schedule'[d][i].principal = schedule[d][i].principal
  PROVE  CreditInv'
<1> USE DEF serverVars
<1>1. PaymentLocals'
  <2> SUFFICES ASSUME NEW r \in Requests
               PROVE  /\ pc'[r] = "idle" => pp'[r] = 0
                      /\ (pc[r] = "settling" /\ Lends(debtOf[r]) => pp[r] >= 0)'
                      /\ pc'[r] \in {"idle", "settling"} => payments'[r] = NoPayment
                      /\ (payments[r] # NoPayment /\ Lends(payments[r].debt)
                            => payments[r].principal_paid >= 0)'
    BY DEF PaymentLocals, Lends
  <2>1. pc'[r] \in {"idle", "settling"} => pc'[r] = pc[r]
    OBVIOUS
  <2>2. pc'[r] = "settling" => debtOf'[r] = debtOf[r] /\ debtOf[r] \in Debts
    BY <2>1 DEF HandlerInv, SnapshotInv
  <2>3. payments[r] # NoPayment => payments[r].debt \in Debts
    BY DEF HandlerInv, TypeOK, PaymentRow
  <2>4. (pc[r] = "settling" /\ Lends(debtOf[r]) => pp[r] >= 0)'
    <3> SUFFICES ASSUME pc'[r] = "settling", Lends(debtOf[r])' PROVE pp'[r] >= 0
      OBVIOUS
    <3>1. debtOf'[r] = debtOf[r] /\ debtOf[r] \in Debts /\ pc[r] = "settling"
      BY <2>1, <2>2
    <3>2. Lends(debtOf[r])
      BY <3>1 DEF Lends
    <3> QED BY <3>1, <3>2 DEF CreditInv, PaymentLocals
  <2>5. (payments[r] # NoPayment /\ Lends(payments[r].debt) => payments[r].principal_paid >= 0)'
    <3> SUFFICES ASSUME payments[r] # NoPayment, Lends(payments[r].debt)'
                 PROVE  payments[r].principal_paid >= 0
      OBVIOUS
    <3>1. Lends(payments[r].debt)
      BY <2>3 DEF Lends
    <3> QED BY <3>1 DEF CreditInv, PaymentLocals
  <2> QED BY <2>1, <2>4, <2>5 DEF CreditInv, PaymentLocals
<1>2. IsFiniteSet(PaidRows)'
  BY DEF CreditInv, PaidRows
<1>3. ASSUME NEW d \in Debts, d \notin shared', Lends(d)' PROVE Earned(d)'
  <2>1. RepaidPrincipal(d)' = RepaidPrincipal(d)
    BY RepaidSame
  <2>2. Earned(d)
    BY <1>3 DEF CreditInv
  <2>3. \A r \in Settling(d)' : r \in Settling(d)
    BY DEF Settling
  <2> QED BY <2>1, <2>2, <2>3, EarnedStays
<1> QED BY <1>1, <1>2, <1>3 DEF CreditInv

LEMMA CreditCreateDebt ==
  ASSUME HandlerInv, CreditInv, NEW r \in Requests, NEW d \in Debts, NEW l \in Loans,
         CreateDebt(r, d, l), UNCHANGED serverVars
  PROVE  CreditInv'
<1>1. schedule' = schedule
  BY DEF CreateDebt
<1>2. \A e \in Debts : /\ Paid(e)' = Paid(e)
                       /\ \A i \in Paid(e) : schedule'[e][i].principal = schedule[e][i].principal
  BY <1>1 DEF Paid
<1>3. \A q \in Requests : /\ pc'[q] = pc[q] \/ pc'[q] \in {"creating", "done", "failed"}
                          /\ pc'[q] = "settling" => debtOf'[q] = debtOf[q]
  BY DEF CreateDebt, HandlerInv, TypeOK, TablesTypeOK
<1>4. \A e \in Debts : Lends(e)' => Lends(e)
  BY LendsSince DEF CreateDebt, HandlerInv, TypeOK
<1> QED BY <1>2, <1>3, <1>4, CreditKept

LEMMA CreditInsertInstallment ==
  ASSUME HandlerInv, CreditInv, NEW r \in Requests, InsertInstallment(r), UNCHANGED serverVars
  PROVE  CreditInv'
<1>1. TablesTypeOK /\ CreatingInv
  BY DEF HandlerInv, TypeOK
<1>2. ASSUME NEW e \in Debts
      PROVE  /\ Paid(e)' = Paid(e)
             /\ \A i \in Paid(e) : schedule'[e][i].principal = schedule[e][i].principal
  <2>1. /\ Paid(e)' = Paid(e)
        /\ \A k \in DOMAIN schedule[e] : schedule'[e][k] = schedule[e][k]
    BY <1>1, RowAppended
  <2> QED BY <2>1 DEF Paid
<1>3. \A q \in Requests : /\ pc'[q] = pc[q] \/ pc'[q] \in {"creating", "done", "failed"}
                          /\ pc'[q] = "settling" => debtOf'[q] = debtOf[q]
  BY <1>1 DEF InsertInstallment, TablesTypeOK
<1>4. \A e \in Debts : Lends(e)' => Lends(e)
  BY DEF InsertInstallment, Lends
<1> QED BY <1>2, <1>3, <1>4, CreditKept

LEMMA CreditFail ==
  ASSUME HandlerInv, CreditInv, NEW r \in Requests, Fail(r), UNCHANGED serverVars
  PROVE  CreditInv'
<1>1. \A e \in Debts : /\ Paid(e)' = Paid(e)
                       /\ \A i \in Paid(e) : schedule'[e][i].principal = schedule[e][i].principal
  BY DEF Paid, Fail
<1>2. \A q \in Requests : /\ pc'[q] = pc[q] \/ pc'[q] \in {"creating", "done", "failed"}
                          /\ pc'[q] = "settling" => debtOf'[q] = debtOf[q]
  BY DEF Fail, HandlerInv, TypeOK, TablesTypeOK
<1>3. \A e \in Debts : Lends(e)' => Lends(e)
  BY DEF Fail, Lends
<1> QED BY <1>1, <1>2, <1>3, CreditKept

LEMMA CreditMarkOverdue ==
  ASSUME HandlerInv, CreditInv, NEW d \in Debts, NEW i \in DOMAIN schedule[d],
         MarkOverdue(d, i), UNCHANGED serverVars
  PROVE  CreditInv'
<1>1. schedule' = [schedule EXCEPT ![d][i].status = "OVERDUE"]
      /\ UNCHANGED <<agreements, pc, debtOf, rem>> /\ schedule[d][i].status = "PENDING"
  BY DEF MarkOverdue
<1>2. /\ \A e \in Debts : DOMAIN schedule'[e] = DOMAIN schedule[e]
      /\ \A e \in Debts : \A k \in DOMAIN schedule[e] :
           /\ schedule'[e][k].status = IF e = d /\ k = i THEN "OVERDUE" ELSE schedule[e][k].status
           /\ Same(schedule'[e][k], schedule[e][k])
  BY <1>1, StatusUpdate DEF HandlerInv, TypeOK, TablesTypeOK, StatusValues
<1>3. ASSUME NEW e \in Debts
      PROVE  /\ Paid(e)' = Paid(e)
             /\ \A k \in Paid(e) : schedule'[e][k].principal = schedule[e][k].principal
  <2>1. \A k \in DOMAIN schedule[e] : schedule'[e][k].status = "PAID" <=> schedule[e][k].status = "PAID"
    BY <1>1, <1>2
  <2> QED BY <1>2, <2>1 DEF Paid, Same
<1>4. \A e \in Debts : Lends(e)' => Lends(e)
  BY <1>1 DEF Lends
<1> QED BY <1>1, <1>3, <1>4, CreditKept

LEMMA CreditSelectPending ==
  ASSUME HandlerInv, CreditInv, NEW r \in Requests, NEW d \in Debts, NEW a \in Amounts,
         SelectPending(r, d, a)
  PROVE  CreditInv'
<1>1. /\ pc[r] = "idle" /\ pc' = [pc EXCEPT ![r] = "settling"]
      /\ debtOf' = [debtOf EXCEPT ![r] = d] /\ todo' = [todo EXCEPT ![r] = Pending(d)]
      /\ shared' = (IF Settling(d) = {} THEN shared ELSE shared \cup {d})
      /\ UNCHANGED <<agreements, schedule, pp, payments>>
      /\ pc \in [Requests -> PcValues] /\ debtOf \in [Requests -> Debts \cup {NoDebt}]
      /\ todo \in [Requests -> SUBSET Nat]
  BY DEF SelectPending, HandlerInv, TypeOK, TablesTypeOK
<1>2. PaymentLocals'
  BY <1>1 DEF CreditInv, PaymentLocals, Lends
<1>3. IsFiniteSet(PaidRows)'
  BY <1>1 DEF CreditInv, PaidRows
<1>4. ASSUME NEW e \in Debts, e \notin shared', Lends(e)' PROVE Earned(e)'
  <2>1. Paid(e)' = Paid(e) /\ RepaidPrincipal(e)' = RepaidPrincipal(e) /\ Credited(e)' = Credited(e)
    BY <1>1 DEF Paid, RepaidPrincipal, Credited
  <2>2. Earned(e)
    BY <1>1, <1>4 DEF CreditInv, Lends
  <2>3. CASE e # d
    <3>1. \A q \in Settling(e)' : q \in Settling(e) /\ pp'[q] = pp[q] /\ todo'[q] = todo[q]
      BY <1>1, <2>3 DEF Settling
    <3> QED BY <1>1, <2>1, <2>2, <3>1, EarnedStays
  <2>4. CASE e = d
    <3>1. Settling(d) = {} /\ Settling(d)' = {r}
      BY <1>1, <1>4, <2>4 DEF Settling
    <3>2. pp'[r] = 0 /\ todo'[r] = Pending(d)
      BY <1>1 DEF CreditInv, PaymentLocals
    <3>3. Pending(d) \cap Paid(d) = {}
      BY DEF Pending, Paid
    <3>4. Credited(d) \in Int /\ Credited(d) <= RepaidPrincipal(d)
      BY <2>2, <2>4, CreditsAreIntegers DEF CreditInv, Earned
    <3> QED BY <2>1, <2>4, <3>1, <3>2, <3>3, <3>4 DEF Earned
  <2> QED BY <2>3, <2>4
<1> QED BY <1>2, <1>3, <1>4 DEF CreditInv

LEMMA CreditSettle ==
  ASSUME HandlerInv, TablesInv, CreditInv, NEW r \in Requests, SettleInstallment(r)
  PROVE  CreditInv'
<1> DEFINE d == debtOf[r]
           i == First(todo[r])
           p == schedule[d][i].principal
<1>1. /\ d \in Debts /\ todo[r] \in SUBSET Nat /\ todo[r] # {}
      /\ todo[r] \subseteq DOMAIN schedule[d] /\ r \in Settling(d)
      /\ schedule \in [Debts -> Seq(InstallmentRow)]
      /\ pp \in [Requests -> Int] /\ todo \in [Requests -> SUBSET Nat]
  BY DEF HandlerInv, SnapshotInv, TypeOK, TablesTypeOK, SettleInstallment, LoopGoesOn, Settling
<1>2. i \in todo[r] /\ i \in DOMAIN schedule[d]
  BY <1>1, FirstIsOldest
<1>3. p \in Int /\ (Lends(d) => p \in Nat)
  <2>1. schedule[d][i] \in InstallmentRow
    BY <1>1, <1>2
  <2> QED BY <1>1, <1>2, <2>1, PartsAreNatural DEF InstallmentRow
<1>4. /\ schedule' = [schedule EXCEPT ![d][i].status = "PAID"]
      /\ pp' = [pp EXCEPT ![r] = @ + p]
      /\ todo' = [todo EXCEPT ![r] = @ \ {i}]
      /\ UNCHANGED <<agreements, pc, debtOf, payments, shared>>
  <2>1. schedule' = [schedule EXCEPT ![d][i].status = "PAID"]
    BY DEF SettleInstallment, MarkPaid
  <2>2. todo' = [todo EXCEPT ![r] = @ \ {i}]
    BY Zenon DEF SettleInstallment
  <2>3. pp' = [pp EXCEPT ![r] = @ + p]
    BY Zenon DEF SettleInstallment
  <2>4. UNCHANGED <<agreements, pc, debtOf, payments, shared>>
    BY Zenon DEF SettleInstallment
  <2> QED BY <2>1, <2>2, <2>3, <2>4
<1> HIDE DEF i
<1>5. /\ \A e \in Debts : DOMAIN schedule'[e] = DOMAIN schedule[e]
      /\ \A e \in Debts : \A k \in DOMAIN schedule[e] :
           /\ schedule'[e][k].status = IF e = d /\ k = i THEN "PAID" ELSE schedule[e][k].status
           /\ Same(schedule'[e][k], schedule[e][k])
  BY <1>1, <1>2, <1>4, StatusUpdate DEF StatusValues
<1>6. \A e \in Debts : Paid(e)' = IF e = d THEN Paid(d) \cup {i} ELSE Paid(e)
  BY <1>2, <1>5 DEF Paid
<1>7. \A e \in Debts : \A k \in DOMAIN schedule[e] :
        schedule'[e][k].principal = schedule[e][k].principal
  BY <1>5 DEF Same
<1> HIDE DEF d, p
<1>8. PaymentLocals'
  <2>1. pp[r] \in Int /\ pc[r] = "settling" /\ debtOf[r] = d
    BY <1>1 DEF SettleInstallment, d
  <2>2. pp'[r] = pp[r] + p /\ \A q \in Requests \ {r} : pp'[q] = pp[q]
    BY <1>1, <1>4
  <2>3. Lends(d) => pp[r] >= 0
    BY <2>1 DEF CreditInv, PaymentLocals
  <2>4. Lends(d) => pp'[r] >= 0
    BY <1>3, <2>1, <2>2, <2>3
  <2>5. \A e : Lends(e)' <=> Lends(e)
    BY <1>4 DEF Lends
  <2> QED BY <1>4, <2>1, <2>2, <2>4, <2>5 DEF CreditInv, PaymentLocals
<1>9. IsFiniteSet(PaidRows)'
  BY <1>4 DEF CreditInv, PaidRows
<1>10. ASSUME NEW e \in Debts, e \notin shared', Lends(e)' PROVE Earned(e)'
  <2>0. Lends(e)
    BY <1>4, <1>10 DEF Lends
  <2>1. Earned(e)
    BY <1>4, <1>10, <2>0 DEF CreditInv
  <2>2. CASE e # d
    <3>1. Paid(e)' = Paid(e)
      BY <1>6, <2>2
    <3>2. RepaidPrincipal(e)' = RepaidPrincipal(e)
      BY <1>7, <3>1, RepaidSame DEF Paid
    <3>3. \A q \in Settling(e)' : q \in Settling(e) /\ pp'[q] = pp[q] /\ todo'[q] = todo[q]
      BY <1>1, <1>4, <2>2 DEF Settling, d
    <3> QED BY <1>4, <2>1, <3>1, <3>2, <3>3, EarnedStays
  <2>3. CASE e = d
    <3>1. /\ Credited(e)' = Credited(e) /\ Credited(e) \in Int
          /\ RepaidPrincipal(e) \in Int /\ pp[r] \in Int
      BY <1>1, <1>4, <2>3, CreditsAreIntegers, RepaidIsInteger DEF CreditInv, Credited
    <3>2. /\ Credited(e) <= RepaidPrincipal(e) /\ Credited(e) + pp[r] <= RepaidPrincipal(e)
          /\ todo[r] \cap Paid(e) = {} /\ \A q \in Settling(e) : q = r
      BY <1>1, <2>1, <2>3 DEF Earned
    <3>3. RepaidPrincipal(e)' = RepaidPrincipal(e) + p
      <4> DEFINE f == [k \in Paid(e) |-> schedule[e][k].principal]
                 g == [k \in Paid(e) \cup {i} |-> schedule'[e][k].principal]
      <4>1. i \notin Paid(e) /\ IsFiniteSet(Paid(e))
        BY <1>1, <1>2, <2>3, <3>2, RepaidIsInteger
      <4>2. /\ RepaidPrincipal(e) = SumFunctionOnSet(f, Paid(e))
            /\ RepaidPrincipal(e)' = SumFunctionOnSet(g, Paid(e) \cup {i})
        BY <1>6, <2>3 DEF RepaidPrincipal, SumFunction
      <4>3. g[i] = p /\ \A k \in Paid(e) : g[k] = f[k]
        BY <1>1, <1>2, <1>7, <2>3 DEF Paid, p
      <4>4. \A k \in Paid(e) \cup {i} : g[k] \in Int
        <5>1. \A k \in Paid(e) : schedule[e][k].principal \in Int
          BY <1>1, RepaidIsInteger
        <5> QED BY <1>3, <4>3, <5>1
      <4> HIDE DEF f, g
      <4>5. SumFunctionOnSet(g, Paid(e) \cup {i}) = SumFunctionOnSet(g, Paid(e)) + g[i]
        BY <4>1, <4>4, SumAdd
      <4>6. SumFunctionOnSet(g, Paid(e)) = SumFunctionOnSet(f, Paid(e))
        BY <4>1, <4>3, SumAgrees
      <4> QED BY <4>2, <4>3, <4>5, <4>6
    <3>4. Settling(e)' = Settling(e)
      BY <1>4 DEF Settling
    <3>5. pp'[r] = pp[r] + p /\ todo'[r] = todo[r] \ {i}
      BY <1>1, <1>4
    <3>6. Credited(e)' + pp'[r] <= RepaidPrincipal(e)' /\ Credited(e)' <= RepaidPrincipal(e)'
      BY <1>3, <2>0, <2>3, <3>1, <3>2, <3>3, <3>5
    <3>7. todo'[r] \cap Paid(e)' = {}
      BY <1>6, <2>3, <3>2, <3>5
    <3> QED BY <1>1, <2>3, <3>2, <3>4, <3>6, <3>7 DEF Earned
  <2> QED BY <2>2, <2>3
<1> QED BY <1>8, <1>9, <1>10 DEF CreditInv

LEMMA CreditInsertPayment ==
  ASSUME HandlerInv, CreditInv, NEW r \in Requests, InsertPayment(r)
  PROVE  CreditInv'
<1> DEFINE d == debtOf[r]
           new == [debt |-> d, amount |-> amount[r], interest_paid |-> ip[r],
                   principal_paid |-> pp[r], remaining |-> IF rem[r] < 0 THEN -rem[r] ELSE 0]
<1>1. /\ d \in Debts /\ r \in Settling(d) /\ pc[r] = "settling" /\ payments[r] = NoPayment
      /\ pp[r] \in Int /\ (Lends(d) => pp[r] >= 0) /\ rem[r] \in Int /\ ip[r] \in Int /\ amount[r] \in Int
  BY DEF HandlerInv, SnapshotInv, TypeOK, TablesTypeOK, InsertPayment, Settling,
         CreditInv, PaymentLocals
<1>2. new \in PaymentRow /\ new # NoPayment
  <2>1. new \in PaymentRow
    BY <1>1 DEF PaymentRow
  <2> QED BY <2>1, AmountsAssumption
<1>3. /\ payments' = [payments EXCEPT ![r] = new]
      /\ pc' = [pc EXCEPT ![r] = "done"]
      /\ UNCHANGED <<agreements, schedule, debtOf, pp, todo, shared>>
      /\ payments \in [Requests -> PaymentRow \cup {NoPayment}] /\ pc \in [Requests -> PcValues]
  BY DEF InsertPayment, HandlerInv, TypeOK, TablesTypeOK
<1>4. new.debt = d /\ new.principal_paid = pp[r]
  OBVIOUS
<1> HIDE DEF new
<1>5. PaymentLocals'
  <2>1. \A e : Lends(e)' <=> Lends(e)
    BY <1>3 DEF Lends
  <2>2. payments'[r] = new /\ pc'[r] = "done"
        /\ \A q \in Requests \ {r} : payments'[q] = payments[q] /\ pc'[q] = pc[q]
    BY <1>3
  <2> QED BY <1>1, <1>3, <1>4, <2>1, <2>2 DEF CreditInv, PaymentLocals
<1>6. IsFiniteSet(PaidRows')
  <2>1. PaidRows' = PaidRows \cup {r}
    BY <1>2, <1>3 DEF PaidRows
  <2> QED BY <2>1, FS_AddElement DEF CreditInv
<1>7. ASSUME NEW e \in Debts, e \notin shared', Lends(e)' PROVE Earned(e)'
  <2>1. Earned(e)
    BY <1>3, <1>7 DEF CreditInv, Lends
  <2>2. Paid(e)' = Paid(e) /\ RepaidPrincipal(e)' = RepaidPrincipal(e)
    BY <1>3 DEF Paid, RepaidPrincipal
  <2>3. CreditRows(e)' = IF e = d THEN CreditRows(e) \cup {r} ELSE CreditRows(e)
    BY <1>1, <1>2, <1>3, <1>4 DEF CreditRows
  <2>4. r \notin CreditRows(e)
    BY <1>1 DEF CreditRows
  <2>5. CASE e # d
    <3>1. Credited(e)' = Credited(e)
      <4>1. [q \in CreditRows(e)' |-> payments'[q].principal_paid]
              = [q \in CreditRows(e) |-> payments[q].principal_paid]
        BY <1>3, <2>3, <2>4, <2>5 DEF CreditRows
      <4> QED BY <4>1 DEF Credited, CreditRows
    <3>2. \A q \in Settling(e)' : q \in Settling(e) /\ pp'[q] = pp[q] /\ todo'[q] = todo[q]
      BY <1>3 DEF Settling
    <3> QED BY <2>1, <2>2, <3>1, <3>2 DEF Earned
  <2>6. CASE e = d
    <3>1. Settling(e)' = {}
      BY <1>1, <1>3, <2>1, <2>6 DEF Settling, Earned
    <3>2. Credited(e)' = Credited(e) + pp[r]
      <4> DEFINE f == [q \in CreditRows(e) |-> payments[q].principal_paid]
                 g == [q \in CreditRows(e) \cup {r} |-> payments'[q].principal_paid]
      <4>1. IsFiniteSet(CreditRows(e)) /\ \A q \in CreditRows(e) : payments[q].principal_paid \in Int
        BY <1>1, CreditsAreIntegers DEF CreditInv
      <4>2. /\ Credited(e) = SumFunctionOnSet(f, CreditRows(e))
            /\ Credited(e)' = SumFunctionOnSet(g, CreditRows(e) \cup {r})
        BY <2>3, <2>6 DEF Credited, CreditRows, SumFunction
      <4>3. g[r] = pp[r] /\ \A q \in CreditRows(e) : g[q] = f[q]
        BY <1>3, <1>4, <2>4, <2>6 DEF CreditRows
      <4>4. \A q \in CreditRows(e) \cup {r} : g[q] \in Int
        BY <1>1, <4>1, <4>3
      <4> HIDE DEF f, g
      <4>5. SumFunctionOnSet(g, CreditRows(e) \cup {r}) = SumFunctionOnSet(g, CreditRows(e)) + g[r]
        BY <2>4, <2>6, <4>1, <4>4, SumAdd
      <4>6. SumFunctionOnSet(g, CreditRows(e)) = SumFunctionOnSet(f, CreditRows(e))
        BY <4>1, <4>3, SumAgrees
      <4> QED BY <4>2, <4>3, <4>5, <4>6
    <3>3. Credited(e) + pp[r] <= RepaidPrincipal(e)
      BY <1>1, <2>1, <2>6 DEF Earned
    <3> QED BY <2>2, <2>6, <3>1, <3>2, <3>3 DEF Earned
  <2> QED BY <2>5, <2>6
<1> QED BY <1>5, <1>6, <1>7 DEF CreditInv

LEMMA CreditNext == HandlerInv /\ TablesInv /\ CreditInv /\ [Next]_vars => CreditInv'
<1>1. ASSUME CreditInv, UNCHANGED vars PROVE CreditInv'
  <2>1. \A d \in Debts :
          /\ Settling(d)' = Settling(d) /\ Paid(d)' = Paid(d)
          /\ Credited(d)' = Credited(d) /\ RepaidPrincipal(d)' = RepaidPrincipal(d)
    BY <1>1 DEF vars, Settling, Paid, Credited, RepaidPrincipal
  <2>2. PaymentLocals' /\ PaidRows' = PaidRows
    BY <1>1 DEF vars, CreditInv, PaymentLocals, PaidRows, Lends
  <2>3. ASSUME NEW d \in Debts, d \notin shared', Lends(d)' PROVE Earned(d)'
    <3>1. Earned(d)
      BY <1>1, <2>3 DEF vars, CreditInv, Lends
    <3> QED BY <1>1, <2>1, <3>1 DEF vars, Earned
  <2> QED BY <1>1, <2>2, <2>3 DEF CreditInv
<1> QED BY <1>1, CreditCreateDebt, CreditInsertInstallment, CreditSelectPending, CreditSettle,
           CreditInsertPayment, CreditFail, CreditMarkOverdue DEF Next, Handle

-----------------------------------------------------------------------------
\* The statement of a customer, whose SELECTs see the tables at four times.

\* What a step may do to the rows: append one, or change the status of one.
RowsChange ==
  \/ UNCHANGED schedule
  \/ \E r \in Requests : InsertInstallment(r)
  \/ \E e \in Debts, i \in Nat, s \in {"PAID", "OVERDUE"} :
       /\ i \in DOMAIN schedule[e]
       /\ s = "OVERDUE" => schedule[e][i].status = "PENDING"
       /\ schedule' = [schedule EXCEPT ![e][i].status = s]

\* The rows that were there stay, for as much, and none is PENDING again.
RowsKept(d) ==
  /\ DOMAIN schedule[d] \subseteq DOMAIN schedule'[d]
  /\ \A i \in DOMAIN schedule[d] : schedule'[d][i].total = schedule[d][i].total
  /\ Pending(d)' \cap DOMAIN schedule[d] \subseteq Pending(d)

LEMMA RowsOnlyMarked ==
  ASSUME TablesTypeOK, CreatingInv, RowsChange, NEW d \in Debts
  PROVE  RowsKept(d) /\ Paid(d) \subseteq Paid(d)'
<1>1. schedule \in [Debts -> Seq(InstallmentRow)]
  BY DEF TablesTypeOK
<1>2. CASE UNCHANGED schedule
  BY <1>2 DEF RowsKept, Paid, Pending
<1>3. ASSUME NEW r \in Requests, InsertInstallment(r)
      PROVE  RowsKept(d) /\ Paid(d) \subseteq Paid(d)'
  <2>1. /\ DOMAIN schedule[d] \subseteq DOMAIN schedule'[d]
        /\ \A k \in DOMAIN schedule[d] : schedule'[d][k] = schedule[d][k]
    BY <1>1, <1>3, RowAppended
  <2> QED BY <2>1 DEF RowsKept, Paid, Pending
<1>4. ASSUME NEW e \in Debts, NEW i \in Nat, NEW s \in {"PAID", "OVERDUE"},
             i \in DOMAIN schedule[e], s = "OVERDUE" => schedule[e][i].status = "PENDING",
             schedule' = [schedule EXCEPT ![e][i].status = s]
      PROVE  RowsKept(d) /\ Paid(d) \subseteq Paid(d)'
  <2>1. /\ DOMAIN schedule'[d] = DOMAIN schedule[d]
        /\ \A k \in DOMAIN schedule[d] :
             /\ schedule'[d][k].status = IF d = e /\ k = i THEN s ELSE schedule[d][k].status
             /\ schedule'[d][k].total = schedule[d][k].total
    BY <1>1, <1>4, StatusUpdate DEF StatusValues, Same
  <2> QED BY <1>4, <2>1 DEF RowsKept, Paid, Pending
<1> QED BY <1>2, <1>3, <1>4 DEF RowsChange

\* What a SELECT saw of the tables is still there: no debt and no payment is
\* taken back, no PAID installment changes, and none becomes PENDING again.
Grown ==
  /\ OnRecord \subseteq OnRecord'
  /\ \A r \in PaidRows : payments'[r] = payments[r]
  /\ \A d \in Debts : /\ DOMAIN schedule[d] \subseteq DOMAIN schedule'[d]
                      /\ Paid(d) \subseteq Paid(d)'
                      /\ Pending(d)' \cap DOMAIN schedule[d] \subseteq Pending(d)

LEMMA TablesGrow ==
  ASSUME HandlerInv, CreditInv, [Next]_vars
  PROVE  Grown
<1>1. /\ TablesTypeOK /\ CreatingInv /\ TypeOK
      /\ agreements \in [Debts -> Loans \cup {NoLoan}]
      /\ schedule \in [Debts -> Seq(InstallmentRow)]
  BY DEF HandlerInv, TypeOK, TablesTypeOK
<1>2. OnRecord \subseteq OnRecord'
  <2>1. UNCHANGED agreements
          \/ \E d \in Debts, l \in Loans : agreements' = [agreements EXCEPT ![d] = l]
    BY DEF Next, vars, CreateDebt, SelectPending, Handle, InsertInstallment,
           SettleInstallment, InsertPayment, Fail, MarkOverdue
  <2> QED BY <1>1, <2>1, LoansAssumption DEF OnRecord
<1>3. ASSUME NEW r \in PaidRows PROVE payments'[r] = payments[r]
  <2>1. UNCHANGED payments \/ \E q \in Requests : InsertPayment(q)
    BY DEF Next, vars, SelectPending, Handle, SettleInstallment, serverVars
  <2>2. ASSUME NEW q \in Requests, InsertPayment(q) PROVE payments'[r] = payments[r]
    <3>1. payments[q] = NoPayment /\ payments[r] # NoPayment
      BY <2>2 DEF InsertPayment, CreditInv, PaymentLocals, PaidRows
    <3> QED BY <1>1, <2>2, <3>1 DEF InsertPayment, TypeOK
  <2> QED BY <2>1, <2>2
<1>4. RowsChange
  <2>1. ASSUME NEW r \in Requests, SettleInstallment(r)
        PROVE  \E e \in Debts, i \in Nat :
                 i \in DOMAIN schedule[e] /\ schedule' = [schedule EXCEPT ![e][i].status = "PAID"]
    <3>1. /\ debtOf[r] \in Debts /\ todo[r] \in SUBSET Nat /\ todo[r] # {}
          /\ todo[r] \subseteq DOMAIN schedule[debtOf[r]]
      BY <2>1 DEF HandlerInv, SnapshotInv, TypeOK, TablesTypeOK, SettleInstallment, LoopGoesOn
    <3>2. First(todo[r]) \in DOMAIN schedule[debtOf[r]] /\ First(todo[r]) \in Nat
      BY <3>1, FirstIsOldest
    <3> QED BY <2>1, <3>1, <3>2 DEF SettleInstallment, MarkPaid
  <2>2. \A e \in Debts : \A i \in DOMAIN schedule[e] : MarkOverdue(e, i) =>
          /\ i \in Nat /\ schedule[e][i].status = "PENDING"
          /\ schedule' = [schedule EXCEPT ![e][i].status = "OVERDUE"]
    BY <1>1 DEF MarkOverdue
  <2> QED BY <2>1, <2>2 DEF RowsChange, Next, vars, CreateDebt, SelectPending, Handle, InsertPayment, Fail
<1>5. \A d \in Debts : RowsKept(d) /\ Paid(d) \subseteq Paid(d)'
  BY <1>1, <1>4, RowsOnlyMarked
<1> QED BY <1>2, <1>3, <1>5 DEF Grown, RowsKept

\* What the SELECTs returned is consistent with the tables as they are now.
ShownRight(d, i, s) ==
  /\ i \in DOMAIN schedule[d]
  /\ s = "PAID" => i \in Paid(d)
  /\ i \in Pending(d) => s = "PENDING"
StatementInv ==
  /\ debts \subseteq OnRecord
  /\ paidBy \subseteq PaidRows /\ \A r \in paidBy : payments[r].debt \in debts
  /\ \A x \in installments :
       \E d \in Debts, i \in Nat, s \in StatusValues : x = <<<<d, i>>, s>> /\ ShownRight(d, i, s)
  /\ stage = "debts" => installments = {} /\ paidBy = {}

LEMMA StatementGrows ==
  ASSUME StatementInv, Grown, UNCHANGED statementVars
  PROVE  StatementInv'
<1>1. debts' \subseteq OnRecord' /\ (stage' = "debts" => installments' = {} /\ paidBy' = {})
  BY DEF StatementInv, Grown, statementVars
<1>2. paidBy' \subseteq PaidRows' /\ \A r \in paidBy' : payments'[r].debt \in debts'
  BY DEF StatementInv, Grown, statementVars, PaidRows
<1>3. ASSUME NEW x \in installments'
      PROVE  \E d \in Debts, i \in Nat, s \in StatusValues : x = <<<<d, i>>, s>> /\ ShownRight(d, i, s)'
  <2>1. PICK d \in Debts, i \in Nat, s \in StatusValues : x = <<<<d, i>>, s>> /\ ShownRight(d, i, s)
    BY <1>3 DEF StatementInv, statementVars
  <2>2. ShownRight(d, i, s)'
    BY <2>1 DEF ShownRight, Grown
  <2> QED BY <2>1, <2>2
<1> QED BY <1>1, <1>2, <1>3 DEF StatementInv

\* The SELECTs themselves.
LEMMA SelectsRight ==
  ASSUME TablesTypeOK, StatementInv, UNCHANGED <<agreements, schedule, payments>>,
         SelectStatement \/ \E d \in OnRecord : SelectDebt(d)
  PROVE  StatementInv'
<1>1. /\ OnRecord' = OnRecord /\ PaidRows' = PaidRows /\ payments' = payments
      /\ \A d \in Debts, i \in Nat, s \in StatusValues : ShownRight(d, i, s)' = ShownRight(d, i, s)
  BY DEF OnRecord, PaidRows, ShownRight, Paid, Pending
<1>2. ASSUME UNCHANGED <<installments, paidBy>>, stage = "debts", debts' \subseteq OnRecord,
             stage' # "debts"
      PROVE  StatementInv'
  BY <1>1, <1>2 DEF StatementInv
<1>3. ASSUME NEW c \in Customers, SelectDebts(c) PROVE StatementInv'
  <2>1. stage' # "debts" /\ debts' \subseteq OnRecord
    BY <1>3 DEF SelectDebts, DebtsOf, Then
  <2> QED BY <1>2, <1>3, <2>1 DEF SelectDebts
<1>4. ASSUME NEW d \in OnRecord, SelectDebt(d) PROVE StatementInv'
  <2>1. stage' # "debts"
    BY <1>4 DEF SelectDebt, Then
  <2> QED BY <1>2, <1>4, <2>1 DEF SelectDebt
<1>5. CASE SelectInstallments
  <2>1. UNCHANGED <<debts, paidBy>> /\ stage' = "payments"
    BY <1>5 DEF SelectInstallments, Then
  <2>2. ASSUME NEW x \in installments'
        PROVE  \E d \in Debts, i \in Nat, s \in StatusValues : x = <<<<d, i>>, s>> /\ ShownRight(d, i, s)
    <3>1. PICK s \in StatusValues : x \in RowsOf(debts, s) \X {s}
      BY <1>5, <2>2 DEF SelectInstallments
    <3>2. PICK d \in debts : \E i \in DOMAIN schedule[d] :
            schedule[d][i].status = s /\ x = <<<<d, i>>, s>>
      BY <3>1 DEF RowsOf
    <3>3. d \in Debts /\ DOMAIN schedule[d] \subseteq Nat
      BY <3>2 DEF StatementInv, OnRecord, TablesTypeOK
    <3> QED BY <3>2, <3>3 DEF ShownRight, Paid, Pending
  <2> QED BY <1>1, <2>1, <2>2 DEF StatementInv
<1>6. CASE SelectPayments
  <2>1. /\ UNCHANGED <<debts, installments>> /\ stage' = "answered"
        /\ paidBy' = {r \in PaidRows : payments[r].debt \in debts}
    BY <1>6 DEF SelectPayments, Then
  <2> QED BY <1>1, <2>1 DEF StatementInv
<1> QED BY <1>3, <1>4, <1>5, <1>6 DEF SelectStatement

LEMMA StatementNext ==
  ASSUME ReportsInv, CreditInv, StatementInv, [ReportsNext]_<<vars, reportVars>>
  PROVE  StatementInv'
<1>1. HandlerInv /\ TablesTypeOK
  BY DEF ReportsInv, TablesInv
<1>2. CASE Serve \/ UNCHANGED <<vars, reportVars>>
  <2>1. [Next]_vars /\ UNCHANGED statementVars
    BY <1>2 DEF Serve, reportVars
  <2> QED BY <1>1, <2>1, TablesGrow, StatementGrows
<1>3. CASE SelectStatement /\ UNCHANGED <<vars, inserted>>
  <2>1. UNCHANGED <<agreements, schedule, payments>>
    BY <1>3 DEF vars
  <2> QED BY <1>1, <1>3, <2>1, SelectsRight
<1>4. ASSUME NEW d \in Debts, SelectDebt(d), UNCHANGED <<vars, inserted>> PROVE StatementInv'
  <2>1. UNCHANGED <<agreements, schedule, payments>> /\ d \in OnRecord
    BY <1>4 DEF vars, SelectDebt
  <2> QED BY <1>1, <1>4, <2>1, SelectsRight
<1> QED BY <1>2, <1>3, <1>4 DEF ReportsNext

\* What the statement credits is part of what is credited to its debts.
LEMMA CreditedAtMostRepaid ==
  ASSUME ReportsInv, CreditInv, StatementInv, debts \cap shared = {}, \A d \in debts : Lends(d)
  PROVE  totalPaid <= SumFunction([d \in debts |-> RepaidPrincipal(d)])
<1> DEFINE R == {r \in PaidRows : payments[r].debt \in debts}
           f == [r \in Requests |-> payments[r].principal_paid]
           key == [r \in Requests |-> payments[r].debt]
           of(d) == {r \in R : key[r] = d}
           credits == [d \in debts |-> SumFunctionOnSet(f, of(d))]
           repaid == [d \in debts |-> RepaidPrincipal(d)]
<1>1. IsFiniteSet(debts) /\ debts \subseteq Debts
  BY FS_Subset DEF StatementInv, ReportsInv, OnRecord
<1>2. IsFiniteSet(R)
  BY FS_Subset DEF CreditInv
<1>3. R \subseteq Requests /\ \A r \in R : f[r] \in Nat /\ f[r] \in Int /\ key[r] \in debts
  <2>1. \A r \in R : payments[r].principal_paid \in Int /\ Lends(payments[r].debt)
    BY DEF PaidRows, ReportsInv, HandlerInv, TypeOK, PaymentRow
  <2>3. \A r \in R : payments[r].principal_paid >= 0
    BY <2>1 DEF PaidRows, CreditInv, PaymentLocals
  <2>2. R \subseteq Requests
    BY DEF PaidRows
  <2> QED BY <2>1, <2>2, <2>3
<1>4. paidBy \in SUBSET R
  BY DEF StatementInv
<1>5. totalPaid = SumFunctionOnSet(f, paidBy)
  <2> DEFINE e == [r \in paidBy |-> payments[r].principal_paid]
  <2>1. totalPaid = SumFunctionOnSet(e, paidBy)
    BY DEF totalPaid, SumFunction, PrincipalPaid
  <2>2. IsFiniteSet(paidBy) /\ \A r \in paidBy : e[r] = f[r]
    BY <1>2, <1>3, <1>4, FS_Subset
  <2> HIDE DEF e, f
  <2> QED BY <2>1, <2>2, SumAgrees
<1>6. \A d \in debts : of(d) = CreditRows(d)
  BY <1>3 DEF CreditRows, PaidRows
<1>7. ASSUME NEW d \in debts PROVE credits[d] = Credited(d)
  <2> DEFINE e == [r \in CreditRows(d) |-> payments[r].principal_paid]
  <2>1. Credited(d) = SumFunctionOnSet(e, CreditRows(d))
    BY DEF Credited, CreditRows, SumFunction
  <2>2. IsFiniteSet(CreditRows(d)) /\ \A r \in CreditRows(d) : e[r] = f[r]
    BY <1>1, CreditsAreIntegers DEF CreditRows, ReportsInv, CreditInv
  <2> HIDE DEF e, f
  <2>3. SumFunctionOnSet(e, CreditRows(d)) = SumFunctionOnSet(f, CreditRows(d))
    BY <2>2, SumAgrees
  <2> QED BY <1>6, <2>1, <2>3
<1>8. ASSUME NEW d \in debts PROVE credits[d] \in Int /\ repaid[d] \in Int /\ credits[d] <= repaid[d]
  <2>1. Credited(d) \in Int /\ RepaidPrincipal(d) \in Int
    BY <1>1, CreditsAreIntegers, RepaidIsInteger DEF ReportsInv, CreditInv
  <2>2. Credited(d) <= RepaidPrincipal(d)
    BY <1>1 DEF CreditInv, Earned
  <2> QED BY <1>7, <2>1, <2>2
<1> HIDE DEF R, f, key
<1>9. SumFunctionOnSet(credits, debts) = SumFunctionOnSet(f, R)
  BY <1>1, <1>2, <1>3, SumByKey
<1>10. SumFunctionOnSet(f, paidBy) <= SumFunctionOnSet(f, R)
  BY <1>2, <1>3, <1>4, SumOfPart
<1> HIDE DEF credits, repaid
<1>11. SumFunctionOnSet(credits, debts) <= SumFunctionOnSet(repaid, debts)
  BY <1>1, <1>8, SumBounded
<1>12. SumFunction(repaid) = SumFunctionOnSet(repaid, debts)
  BY DEF SumFunction, repaid
<1>13. SumFunctionOnSet(f, paidBy) \in Int /\ SumFunctionOnSet(f, R) \in Int
       /\ SumFunctionOnSet(repaid, debts) \in Int
  <2>1. IsFiniteSet(paidBy) /\ \A r \in paidBy : f[r] \in Int
    BY <1>2, <1>3, <1>4, FS_Subset
  <2> QED BY <1>1, <1>2, <1>3, <1>8, <2>1, SumIsInt
<1> QED BY <1>5, <1>9, <1>10, <1>11, <1>12, <1>13 DEF repaid

\* A statement of any number of debts is never ahead of the tables, whichever
\* handlers run between its SELECTs: it credits no more than was repaid, and
\* shows as PAID what stays PAID.
THEOREM StatementsNotAhead == ReportsSpec => []StatementNotAhead
<1>1. ReportsInit => ReportsInv /\ CreditInv /\ StatementInv
  <2> SUFFICES ASSUME ReportsInit PROVE ReportsInv /\ CreditInv /\ StatementInv
    OBVIOUS
  <2>1. ReportsInv /\ CreditInv
    BY ReportsInitInv, CreditInit DEF ReportsInit
  <2> QED BY <2>1 DEF ReportsInit, StatementInit, StatementInv
<1>2. ReportsInv /\ CreditInv /\ StatementInv /\ [ReportsNext]_<<vars, reportVars>>
        => (ReportsInv /\ CreditInv /\ StatementInv)'
  <2> SUFFICES ASSUME ReportsInv, CreditInv, StatementInv, [ReportsNext]_<<vars, reportVars>>
               PROVE  (ReportsInv /\ CreditInv /\ StatementInv)'
    OBVIOUS
  <2>1. [Next]_vars
    BY DEF ReportsNext, Serve
  <2> QED BY <2>1, ReportsNextInv, CreditNext, StatementNext DEF ReportsInv
<1>3. ReportsInv /\ CreditInv /\ StatementInv => StatementNotAhead
  <2> SUFFICES ASSUME ReportsInv, CreditInv, StatementInv PROVE StatementNotAhead
    OBVIOUS
  <2>1. debts \cap shared = {} /\ (\A d \in debts : agreements[d].principalCents >= 0) =>
          summary.totalPaidCents <= SumFunction([d \in debts |-> RepaidPrincipal(d)])
    BY CreditedAtMostRepaid DEF summary, Lends
  <2>2. ASSUME NEW x \in installments
        PROVE  /\ x[2] = "PAID" => x[1][2] \in Paid(x[1][1])
               /\ x[1][2] \in Pending(x[1][1]) => x[2] = "PENDING"
    BY <2>2 DEF StatementInv, ShownRight
  <2> QED BY <2>1, <2>2 DEF StatementNotAhead
<1> QED BY <1>1, <1>2, <1>3, PTL DEF ReportsSpec

-----------------------------------------------------------------------------
\* The dates of the rows: every row on record has one, later rows later ones.
DatesInv ==
  /\ inserted \in Seq(Debts \cup Requests)
  /\ \A j, k \in DOMAIN inserted : inserted[j] = inserted[k] => j = k
  /\ \A k \in DOMAIN inserted : inserted[k] \in OnRecord \cup PaidRows
  /\ \A x \in OnRecord \cup PaidRows : \E k \in DOMAIN inserted : inserted[k] = x

LEMMA Dated ==
  ASSUME DatesInv
  PROVE  /\ \A x \in OnRecord \cup PaidRows :
              Date(x) \in DOMAIN inserted /\ Date(x) \in Nat /\ inserted[Date(x)] = x
         /\ \A k \in DOMAIN inserted : Date(inserted[k]) = k
<1>1. DOMAIN inserted = 1 .. Len(inserted) /\ Len(inserted) \in Nat
  BY DEF DatesInv
<1>2. ASSUME NEW x \in OnRecord \cup PaidRows
      PROVE  Date(x) \in DOMAIN inserted /\ inserted[Date(x)] = x
  <2>1. \E k \in DOMAIN inserted : inserted[k] = x
    BY DEF DatesInv
  <2> QED BY <2>1 DEF Date
<1>3. ASSUME NEW k \in DOMAIN inserted PROVE Date(inserted[k]) = k
  <2>1. Date(inserted[k]) \in DOMAIN inserted /\ inserted[Date(inserted[k])] = inserted[k]
    BY <1>3 DEF Date
  <2> QED BY <2>1 DEF DatesInv
<1> QED BY <1>1, <1>2, <1>3

\* A statement of a handler inserts one row at most.
LEMMA OneRowAtATime ==
  ASSUME HandlerInv, Next
  PROVE  NewRows = {} \/ \E x : NewRows = {x}
<1>1. /\ agreements \in [Debts -> Loans \cup {NoLoan}]
      /\ payments \in [Requests -> PaymentRow \cup {NoPayment}]
  BY DEF HandlerInv, TypeOK, TablesTypeOK
<1>2. \/ UNCHANGED <<agreements, payments>>
      \/ UNCHANGED payments /\ \E d \in Debts, l \in Loans :
           agreements[d] = NoLoan /\ agreements' = [agreements EXCEPT ![d] = l]
      \/ UNCHANGED agreements /\ \E r \in Requests, p \in PaymentRow \cup {NoPayment} :
           payments' = [payments EXCEPT ![r] = p]
  <2>1. ASSUME NEW r \in Requests, InsertPayment(r)
        PROVE  UNCHANGED agreements /\ \E p \in PaymentRow \cup {NoPayment} :
                 payments' = [payments EXCEPT ![r] = p]
    <3> DEFINE p == [debt |-> debtOf[r], amount |-> amount[r], interest_paid |-> ip[r],
                     principal_paid |-> pp[r], remaining |-> IF rem[r] < 0 THEN -rem[r] ELSE 0]
    <3>1. debtOf[r] \in Debts /\ amount[r] \in Int /\ ip[r] \in Int /\ pp[r] \in Int /\ rem[r] \in Int
      BY <2>1 DEF InsertPayment, HandlerInv, TypeOK, TablesTypeOK, SnapshotInv
    <3>2. p \in PaymentRow
      BY <3>1 DEF PaymentRow
    <3>3. UNCHANGED agreements /\ payments' = [payments EXCEPT ![r] = p]
      BY <2>1 DEF InsertPayment
    <3> HIDE DEF p
    <3> QED BY <3>2, <3>3
  <2> QED BY <2>1 DEF Next, CreateDebt, SelectPending, Handle, InsertInstallment,
                      SettleInstallment, Fail, MarkOverdue, serverVars
<1> DEFINE D == {d \in Debts : agreements[d] = NoLoan /\ agreements'[d] # NoLoan}
           P == {r \in Requests : payments[r] = NoPayment /\ payments'[r] # NoPayment}
<1>3. NewRows = D \cup P
  BY DEF NewRows
<1>4. CASE UNCHANGED <<agreements, payments>>
  BY <1>3, <1>4
<1>5. ASSUME UNCHANGED payments, NEW d \in Debts, NEW l \in Loans, agreements[d] = NoLoan,
             agreements' = [agreements EXCEPT ![d] = l]
      PROVE  NewRows = {d}
  <2>1. P = {}
    BY <1>5
  <2>2. D = {d}
    BY <1>1, <1>5, LoansAssumption
  <2> QED BY <1>3, <2>1, <2>2
<1>6. ASSUME UNCHANGED agreements, NEW r \in Requests, NEW p,
             payments' = [payments EXCEPT ![r] = p]
      PROVE  NewRows = {} \/ NewRows = {r}
  <2>1. D = {}
    BY <1>6
  <2>2. P \subseteq {r}
    BY <1>1, <1>6
  <2> QED BY <1>3, <2>1, <2>2
<1> QED BY <1>2, <1>4, <1>5, <1>6

\* Dates are kept, and a new row has the latest.
LEMMA ServeDates ==
  ASSUME ReportsInv, CreditInv, DatesInv, Serve
  PROVE  /\ DatesInv'
         /\ \A x \in OnRecord \cup PaidRows : Date(x)' = Date(x)
         /\ \A x \in OnRecord' \ OnRecord, y \in OnRecord : Date(y) < Date(x)'
<1>1. HandlerInv /\ Next
  BY DEF ReportsInv, Serve
<1>2. Grown
  BY <1>1, TablesGrow
<1> DEFINE Old == OnRecord \cup PaidRows
<1>3. NewRows \subseteq Debts \cup Requests /\ NewRows \cap Old = {} /\ Old' = Old \cup NewRows
  <2>1. OnRecord' = OnRecord \cup {d \in Debts : agreements[d] = NoLoan /\ agreements'[d] # NoLoan}
    BY <1>2 DEF Grown, OnRecord
  <2>2. PaidRows \subseteq PaidRows'
    BY <1>2 DEF Grown, PaidRows
  <2>3. PaidRows' = PaidRows \cup {r \in Requests : payments[r] = NoPayment /\ payments'[r] # NoPayment}
    BY <2>2 DEF PaidRows
  <2>4. NewRows \subseteq Debts \cup Requests /\ NewRows \cap Old = {}
    BY MovementsAssumption DEF NewRows, OnRecord, PaidRows
  <2> QED BY <2>1, <2>3, <2>4 DEF NewRows
<1>4. Old \subseteq Debts \cup Requests
  BY DEF OnRecord, PaidRows
<1>5. CASE NewRows = {}
  <2>1. inserted' = inserted
    BY <1>5 DEF Serve
  <2>2. OnRecord' = OnRecord /\ PaidRows' = PaidRows
    BY <1>2, <1>5 DEF Grown, NewRows, OnRecord, PaidRows
  <2>3. DatesInv'
    BY <2>1, <2>2 DEF DatesInv
  <2>4. \A x : Date(x)' = Date(x)
    BY <2>1 DEF Date
  <2> QED BY <2>2, <2>3, <2>4
<1>6. ASSUME NEW x, NewRows = {x}
      PROVE  /\ DatesInv'
             /\ \A y \in Old : Date(y)' = Date(y)
             /\ \A z \in OnRecord' \ OnRecord, y \in OnRecord : Date(y) < Date(z)'
  <2>1. inserted' = Append(inserted, x)
    BY <1>6 DEF Serve
  <2>2. x \in Debts \cup Requests /\ x \notin Old /\ Old' = Old \cup {x}
    BY <1>3, <1>6
  <2> DEFINE n == Len(inserted)
  <2>3. /\ n \in Nat /\ DOMAIN inserted = 1 .. n /\ DOMAIN inserted' = 1 .. n + 1
        /\ inserted' \in Seq(Debts \cup Requests)
        /\ inserted'[n + 1] = x /\ \A k \in 1 .. n : inserted'[k] = inserted[k]
    BY <2>1, <2>2 DEF DatesInv
  <2>4. \A k \in 1 .. n : inserted[k] \in Old /\ inserted[k] # x
    BY <2>2, <2>3 DEF DatesInv
  <2>5. DatesInv'
    <3>1. \A j, k \in DOMAIN inserted' : inserted'[j] = inserted'[k] => j = k
      <4> SUFFICES ASSUME NEW j \in 1 .. n + 1, NEW k \in 1 .. n + 1, inserted'[j] = inserted'[k]
                   PROVE  j = k
        BY <2>3
      <4>1. (j = n + 1 \/ j \in 1 .. n) /\ (k = n + 1 \/ k \in 1 .. n)
        BY <2>3
      <4> QED BY <2>3, <2>4, <4>1 DEF DatesInv
    <3>2. \A k \in DOMAIN inserted' : inserted'[k] \in Old'
      BY <2>2, <2>3, <2>4
    <3>3. \A y \in Old' : \E k \in DOMAIN inserted' : inserted'[k] = y
      <4> SUFFICES ASSUME NEW y \in Old' PROVE \E k \in 1 .. n + 1 : inserted'[k] = y
        BY <2>3
      <4>1. CASE y = x
        BY <2>3, <4>1
      <4>2. CASE y \in Old
        <5>1. PICK k \in 1 .. n : inserted[k] = y
          BY <2>3, <4>2 DEF DatesInv
        <5> QED BY <2>3, <5>1
      <4> QED BY <2>2, <4>1, <4>2
    <3> QED BY <2>3, <3>1, <3>2, <3>3 DEF DatesInv
  <2>6. ASSUME NEW y \in Old PROVE Date(y)' = Date(y) /\ Date(y) \in 1 .. n
    <3>1. Date(y) \in 1 .. n /\ inserted[Date(y)] = y
      BY <2>3, <2>6, Dated
    <3>2. Date(y) \in DOMAIN inserted' /\ inserted'[Date(y)] = y
      BY <2>3, <3>1
    <3>3. \E k \in DOMAIN inserted' : inserted'[k] = y
      BY <3>2
    <3>4. Date(y)' \in DOMAIN inserted' /\ inserted'[Date(y)'] = y
      BY <3>3 DEF Date
    <3> QED BY <2>5, <3>1, <3>2, <3>4 DEF DatesInv
  <2>7. ASSUME NEW z \in OnRecord' \ OnRecord, NEW y \in OnRecord PROVE Date(y) < Date(z)'
    <3>1. z = x
      BY <1>3, <1>6, <2>7, MovementsAssumption DEF OnRecord, PaidRows
    <3>2. n + 1 \in DOMAIN inserted' /\ inserted'[n + 1] = z
      BY <2>3, <3>1
    <3>3. Date(z)' \in DOMAIN inserted' /\ inserted'[Date(z)'] = z
      BY <3>2 DEF Date
    <3>4. Date(z)' = n + 1
      BY <2>5, <3>2, <3>3 DEF DatesInv
    <3> QED BY <2>3, <2>6, <3>4
  <2> QED BY <2>5, <2>6, <2>7
<1>7. NewRows = {} \/ \E x : NewRows = {x}
  BY <1>1, OneRowAtATime
<1> QED BY <1>5, <1>6, <1>7

\* Whoever's statement it is: his debts of that moment, all older than those he
\* has made since.
PageInv ==
  /\ stage = "debts" => customer = NoCustomer
  /\ customer # NoCustomer =>
       /\ debts \subseteq DebtsOf(customer)
       /\ \A d \in debts, e \in DebtsOf(customer) \ debts : Date(d) < Date(e)

LEMMA PageNext ==
  ASSUME ReportsInv, CreditInv, StatementInv, DatesInv, PageInv, [ReportsNext]_<<vars, reportVars>>
  PROVE  DatesInv' /\ PageInv'
<1>1. ASSUME Serve PROVE DatesInv' /\ PageInv'
  <2>1. /\ DatesInv'
        /\ \A x \in OnRecord \cup PaidRows : Date(x)' = Date(x)
        /\ \A x \in OnRecord' \ OnRecord, y \in OnRecord : Date(y) < Date(x)'
    BY <1>1, ServeDates
  <2>2. OnRecord \subseteq OnRecord'
    <3>1. HandlerInv /\ [Next]_vars
      BY <1>1 DEF ReportsInv, Serve
    <3> QED BY <3>1, TablesGrow DEF Grown
  <2>3. UNCHANGED <<customerOf, stage, customer, debts>> /\ debts \subseteq OnRecord
    BY <1>1 DEF Serve, statementVars, StatementInv
  <2>4. ASSUME customer # NoCustomer PROVE debts \subseteq DebtsOf(customer)'
    BY <2>2, <2>3, <2>4 DEF PageInv, DebtsOf
  <2>5. ASSUME customer # NoCustomer, NEW d \in debts, NEW e \in DebtsOf(customer)' \ debts
        PROVE  Date(d)' < Date(e)'
    <3>1. d \in OnRecord /\ Date(d)' = Date(d) /\ e \in OnRecord' /\ customerOf[e] = customer
      BY <2>1, <2>3, <2>5 DEF DebtsOf
    <3>2. CASE e \in OnRecord
      <4>1. e \in DebtsOf(customer) \ debts
        BY <2>5, <3>1, <3>2 DEF DebtsOf
      <4> QED BY <2>1, <2>5, <3>1, <3>2, <4>1 DEF PageInv
    <3>3. CASE e \notin OnRecord
      BY <2>1, <3>1, <3>3
    <3> QED BY <3>2, <3>3
  <2> QED BY <2>1, <2>3, <2>4, <2>5 DEF PageInv
<1>2. ASSUME UNCHANGED <<vars, customerOf, inserted>>
      PROVE  DatesInv' /\ (\A c : DebtsOf(c)' = DebtsOf(c)) /\ (\A x : Date(x)' = Date(x))
  BY <1>2 DEF vars, DatesInv, OnRecord, PaidRows, DebtsOf, Date
<1>3. ASSUME NEW c \in Customers, SelectDebts(c), UNCHANGED <<vars, inserted>>
      PROVE  DatesInv' /\ PageInv'
  <2>1. UNCHANGED <<vars, customerOf, inserted>> /\ stage' # "debts"
        /\ customer' = c /\ debts' = DebtsOf(c)
    BY <1>3 DEF SelectDebts, Then
  <2> QED BY <1>2, <2>1 DEF PageInv
<1>4. ASSUME NEW d \in Debts, SelectDebt(d), UNCHANGED <<vars, inserted>> PROVE DatesInv' /\ PageInv'
  <2>1. UNCHANGED <<vars, customerOf, inserted>> /\ stage' # "debts" /\ customer' = NoCustomer
    BY <1>4 DEF SelectDebt, PageInv, Then
  <2> QED BY <1>2, <2>1 DEF PageInv
<1>5. CASE \/ (SelectInstallments \/ SelectPayments) /\ UNCHANGED <<vars, inserted>>
           \/ UNCHANGED <<vars, reportVars>>
  <2>1. UNCHANGED <<vars, customerOf, inserted, customer, debts>>
    BY <1>5 DEF SelectInstallments, SelectPayments, reportVars, statementVars
  <2>2. stage' = "debts" => stage = "debts"
    BY <1>5 DEF SelectInstallments, SelectPayments, reportVars, statementVars, Then
  <2> QED BY <1>2, <2>1, <2>2 DEF PageInv
<1> QED BY <1>1, <1>3, <1>4, <1>5 DEF ReportsNext, SelectStatement

\* The sums of the balance column, as sums of one function.
Delta == [x \in debts \cup paidBy |->
            IF x \in debts THEN agreements[x].principalCents ELSE -payments[x].principal_paid]
Sum(S) == SumFunctionOnSet(Delta, S)

LEMMA ColumnSums ==
  ASSUME ReportsInv, CreditInv, StatementInv
  PROVE  /\ IsFiniteSet(debts) /\ IsFiniteSet(paidBy) /\ debts \cap paidBy = {}
         /\ \A x \in movements : Delta[x] \in Int /\ Change(x) = Delta[x]
         /\ \A S \in SUBSET movements : IsFiniteSet(S) /\ Sum(S) \in Int /\ ChangeOf(S) = Sum(S)
         /\ totalPrincipal = Sum(debts) /\ totalPaid = -Sum(paidBy)
<1>1. IsFiniteSet(debts) /\ IsFiniteSet(paidBy)
  BY FS_Subset DEF StatementInv, ReportsInv, CreditInv
<1>2. debts \subseteq OnRecord /\ paidBy \subseteq PaidRows /\ debts \cap paidBy = {}
  BY MovementsAssumption DEF StatementInv, OnRecord, PaidRows
<1>3. \A d \in debts : agreements[d].principalCents \in Int
  BY <1>2, LoansAssumption DEF ReportsInv, HandlerInv, TypeOK, TablesTypeOK, OnRecord
<1>4. \A r \in paidBy : payments[r].principal_paid \in Int
  BY <1>2 DEF ReportsInv, HandlerInv, TypeOK, PaymentRow, PaidRows
<1>5. \A x \in movements : Delta[x] \in Int /\ Change(x) = Delta[x]
  BY <1>3, <1>4 DEF Delta, Change, movements, PrincipalPaid
<1>6. ASSUME NEW S \in SUBSET movements
      PROVE  IsFiniteSet(S) /\ Sum(S) \in Int /\ ChangeOf(S) = Sum(S)
  <2>1. IsFiniteSet(S)
    <3>1. IsFiniteSet(movements)
      BY <1>1, FS_Union DEF movements
    <3> QED BY <3>1, FS_Subset
  <2> DEFINE g == [x \in S |-> Change(x)]
  <2>2. ChangeOf(S) = SumFunctionOnSet(g, S)
    BY DEF ChangeOf, SumFunction
  <2>3. \A x \in S : g[x] = Delta[x] /\ Delta[x] \in Int
    BY <1>5
  <2> HIDE DEF g
  <2>4. SumFunctionOnSet(g, S) = Sum(S)
    BY <2>1, <2>3, SumAgrees DEF Sum
  <2>5. Sum(S) \in Int
    BY <2>1, <2>3, SumIsInt DEF Sum
  <2> QED BY <2>1, <2>2, <2>4, <2>5
<1>7. totalPrincipal = Sum(debts)
  <2> DEFINE g == [d \in debts |-> agreements[d].principalCents]
  <2>1. totalPrincipal = SumFunctionOnSet(g, debts)
    BY DEF totalPrincipal, SumFunction
  <2>2. \A d \in debts : g[d] = Delta[d]
    BY DEF Delta
  <2> HIDE DEF g
  <2> QED BY <1>1, <2>1, <2>2, SumAgrees DEF Sum
<1>8. totalPaid = -Sum(paidBy)
  <2> DEFINE g == [r \in paidBy |-> PrincipalPaid(r)]
             z == [r \in paidBy |-> 0]
  <2>1. totalPaid = SumFunctionOnSet(g, paidBy)
    BY DEF totalPaid, SumFunction
  <2>2. \A r \in paidBy : g[r] \in Int /\ Delta[r] \in Int /\ z[r] = g[r] + Delta[r] /\ z[r] = 0
    BY <1>2, <1>4 DEF Delta, PrincipalPaid
  <2> HIDE DEF g, z
  <2>3. SumFunctionOnSet(z, paidBy) = SumFunctionOnSet(g, paidBy) + SumFunctionOnSet(Delta, paidBy)
    BY <1>1, <2>2, SumPlus
  <2>4. SumFunctionOnSet(z, paidBy) = 0
    BY <1>1, <2>2, SumOfZeros
  <2>5. SumFunctionOnSet(g, paidBy) \in Int /\ SumFunctionOnSet(Delta, paidBy) \in Int
    BY <1>1, <2>2, SumIsInt
  <2> QED BY <2>1, <2>3, <2>4, <2>5 DEF Sum
<1> QED BY <1>1, <1>2, <1>5, <1>6, <1>7, <1>8

\* A row of the column, when the payments come after the debts.
LEMMA BalanceIsSum ==
  ASSUME ReportsInv, CreditInv, StatementInv, DatesInv, ~BorrowedAgain, NEW y \in movements
  PROVE  Balance(y) = Sum(Upto(y))
<1>1. /\ IsFiniteSet(debts) /\ IsFiniteSet(paidBy) /\ debts \cap paidBy = {}
      /\ \A x \in movements : Delta[x] \in Int /\ Change(x) = Delta[x]
      /\ \A S \in SUBSET movements : IsFiniteSet(S) /\ Sum(S) \in Int /\ ChangeOf(S) = Sum(S)
      /\ totalPrincipal = Sum(debts)
  BY ColumnSums
<1>2. Upto(y) \subseteq movements /\ movements = debts \cup paidBy
  BY DEF Upto, movements
<1>3. \A x \in movements : Date(x) \in Nat
  BY Dated DEF movements, StatementInv
<1>4. CASE y \in debts
  <2>1. Upto(y) \cap paidBy = {}
    BY <1>4 DEF BorrowedAgain
  <2>2. debts \cap Upto(y) = Upto(y)
    BY <1>2, <2>1
  <2> QED BY <1>1, <1>2, <1>4, <2>2 DEF Balance
<1>5. CASE y \in paidBy
  <2>1. ASSUME NEW d \in debts PROVE d \in Upto(y)
    <3>1. y \notin Upto(d)
      BY <1>5, <2>1 DEF BorrowedAgain
    <3>2. ~(Date(y) <= Date(d))
      BY <1>2, <3>1 DEF Upto
    <3>3. Date(y) \in Nat /\ Date(d) \in Nat
      BY <1>2, <1>3, <2>1
    <3> QED BY <1>2, <3>2, <3>3 DEF Upto
  <2> DEFINE P == paidBy \cap Upto(y)
  <2>2. Upto(y) = debts \cup P /\ debts \cap P = {} /\ P \in SUBSET movements /\ IsFiniteSet(P)
    BY <1>1, <1>2, <2>1
  <2>3. \A x \in debts \cup P : Delta[x] \in Int
    BY <1>1, <1>2
  <2>4. Balance(y) = Sum(debts) + Sum(P)
    <3>1. y \notin debts /\ ChangeOf(P) = Sum(P)
      BY <1>1, <1>5, <2>2
    <3> QED BY <1>1, <3>1 DEF Balance
  <2> HIDE DEF P
  <2>5. SumFunctionOnSet(Delta, debts \cup P) = SumFunctionOnSet(Delta, debts) + SumFunctionOnSet(Delta, P)
    BY <1>1, <2>2, <2>3, SumOfUnion
  <2> QED BY <2>2, <2>4, <2>5 DEF Sum
<1> QED BY <1>2, <1>4, <1>5

LEMMA ColumnFollows ==
  ASSUME ReportsInv, CreditInv, StatementInv, DatesInv, ~BorrowedAgain
  PROVE  ColumnAddsUp
<1> SUFFICES ASSUME NEW y \in movements
             PROVE  /\ Upto(y) = {y} => Balance(y) = Change(y)
                    /\ \A x \in movements :
                         x # y /\ Upto(y) = Upto(x) \cup {y} => Balance(y) = Balance(x) + Change(y)
                    /\ Upto(y) = movements => Balance(y) = summary.remainingCents
  BY DEF ColumnAddsUp
<1>1. /\ IsFiniteSet(debts) /\ IsFiniteSet(paidBy) /\ debts \cap paidBy = {}
      /\ \A x \in movements : Delta[x] \in Int /\ Change(x) = Delta[x]
      /\ \A S \in SUBSET movements : IsFiniteSet(S) /\ Sum(S) \in Int /\ ChangeOf(S) = Sum(S)
      /\ totalPrincipal = Sum(debts) /\ totalPaid = -Sum(paidBy)
  BY ColumnSums
<1>2. \A x \in movements : Balance(x) = Sum(Upto(x))
  BY BalanceIsSum
<1>3. ASSUME NEW S \in SUBSET movements, y \notin S PROVE Sum(S \cup {y}) = Sum(S) + Change(y)
  <2>1. IsFiniteSet(S) /\ \A x \in S \cup {y} : Delta[x] \in Int
    BY <1>1
  <2>2. SumFunctionOnSet(Delta, S \cup {y}) = SumFunctionOnSet(Delta, S) + Delta[y]
    BY <1>3, <2>1, SumAdd
  <2> QED BY <1>1, <2>2 DEF Sum
<1>4. ASSUME Upto(y) = {y} PROVE Balance(y) = Change(y)
  <2>1. Sum({} \cup {y}) = Sum({}) + Change(y)
    BY <1>3
  <2>2. Sum({}) = 0 /\ {} \cup {y} = {y} /\ Change(y) \in Int
    BY <1>1, SumOfNone DEF Sum
  <2>3. Sum({y}) = Change(y)
    BY <2>1, <2>2
  <2> QED BY <1>2, <1>4, <2>3
<1>5. ASSUME NEW x \in movements, x # y, Upto(y) = Upto(x) \cup {y}
      PROVE  Balance(y) = Balance(x) + Change(y)
  <2>1. y \notin Upto(x)
    <3> SUFFICES ASSUME Date(y) <= Date(x) PROVE FALSE
      BY DEF Upto
    <3>1. x \in Upto(x) /\ x \in OnRecord \cup PaidRows /\ y \in OnRecord \cup PaidRows
      <4>1. x \in OnRecord \cup PaidRows /\ y \in OnRecord \cup PaidRows
        BY DEF movements, StatementInv
      <4>2. Date(x) <= Date(x)
        BY <4>1, Dated
      <4> QED BY <4>1, <4>2 DEF Upto
    <3>2. Date(x) <= Date(y)
      BY <1>5, <3>1 DEF Upto
    <3>3. Date(x) \in Nat /\ Date(y) \in Nat /\ inserted[Date(x)] = x /\ inserted[Date(y)] = y
      BY <3>1, Dated
    <3>4. Date(x) = Date(y)
      BY <3>2, <3>3
    <3> QED BY <1>5, <3>3, <3>4
  <2>2. Upto(x) \in SUBSET movements
    BY DEF Upto
  <2>3. Sum(Upto(x) \cup {y}) = Sum(Upto(x)) + Change(y)
    BY <1>3, <2>1, <2>2
  <2> QED BY <1>2, <1>5, <2>3
<1>6. ASSUME Upto(y) = movements PROVE Balance(y) = summary.remainingCents
  <2>1. Balance(y) = Sum(debts \cup paidBy)
    BY <1>2, <1>6 DEF movements
  <2>2. \A x \in debts \cup paidBy : Delta[x] \in Int
    BY <1>1 DEF movements
  <2>3. SumFunctionOnSet(Delta, debts \cup paidBy)
          = SumFunctionOnSet(Delta, debts) + SumFunctionOnSet(Delta, paidBy)
    BY <1>1, <2>2, SumOfUnion
  <2>4. Sum(debts) \in Int /\ Sum(paidBy) \in Int
    BY <1>1 DEF movements
  <2>5. summary.remainingCents = Sum(debts) - (-Sum(paidBy))
    BY <1>1 DEF summary
  <2>6. Sum(debts \cup paidBy) = Sum(debts) + Sum(paidBy)
    BY <2>3 DEF Sum
  <2> QED BY <2>1, <2>4, <2>5, <2>6
<1> QED BY <1>4, <1>5, <1>6

LEMMA PageAddsUp ==
  ASSUME ReportsInv, CreditInv, StatementInv, DatesInv, PageInv
  PROVE  StatementAddsUp
<1>1. ASSUME customer # NoCustomer
      PROVE  (DebtsOf(customer) \ debts) \X debts \subseteq CustomerDebts(customer)
  BY <1>1 DEF PageInv, CustomerDebts
<1> QED BY <1>1, ColumnFollows DEF StatementAddsUp, PageInv

\* Of any number of debts and payments: the customer's page and his statement
\* show the same debts, and the balance column follows from row to row up to
\* the remaining balance, for whoever did not borrow again after paying.
THEOREM StatementsAddUp == ReportsSpec => []StatementAddsUp
<1> DEFINE Inv == ReportsInv /\ CreditInv /\ StatementInv /\ DatesInv /\ PageInv
<1>1. ReportsInit => Inv
  <2> SUFFICES ASSUME ReportsInit PROVE Inv
    OBVIOUS
  <2>1. ReportsInv /\ CreditInv
    BY ReportsInitInv, CreditInit DEF ReportsInit
  <2>2. StatementInv /\ PageInv
    BY DEF ReportsInit, StatementInit, StatementInv, PageInv
  <2>3. OnRecord = {} /\ PaidRows = {} /\ inserted = <<>>
    BY DEF ReportsInit, Init, TablesInit, OnRecord, PaidRows
  <2>4. DatesInv
    BY <2>3 DEF DatesInv
  <2> QED BY <2>1, <2>2, <2>4
<1>2. Inv /\ [ReportsNext]_<<vars, reportVars>> => Inv'
  <2> SUFFICES ASSUME Inv, [ReportsNext]_<<vars, reportVars>> PROVE Inv'
    OBVIOUS
  <2>1. [Next]_vars
    BY DEF ReportsNext, Serve
  <2>2. (ReportsInv /\ CreditInv /\ StatementInv)'
    BY <2>1, ReportsNextInv, CreditNext, StatementNext DEF ReportsInv
  <2>3. (DatesInv /\ PageInv)'
    BY PageNext
  <2> QED BY <2>2, <2>3
<1>3. Inv => StatementAddsUp
  BY PageAddsUp
<1> HIDE DEF Inv
<1> QED BY <1>1, <1>2, <1>3, PTL DEF ReportsSpec

-----------------------------------------------------------------------------
\* POST /payments of the Fastify API, over the same tables.

\* What a handler of that API has in hand: its own payments row, and a list of
\* installments of which it has tried those that are not in `todo` any more.
RouteLocals ==
  /\ payments \in [Requests -> [debt : Debts, body : Bodies] \cup {NoPayment}]
  /\ pending \in [Requests -> SUBSET Nat] /\ todo \in [Requests -> SUBSET Nat]
  /\ IsFiniteSet({r \in Requests : payments[r] # NoPayment})
  /\ \A r \in Requests :
       /\ pc[r] \in {"idle", "creating"} => payments[r] = NoPayment
       /\ pc[r] \in {"selecting", "settling"} => payments[r] # NoPayment
       /\ pc[r] \in {"idle", "creating", "selecting"} => pending[r] = {} /\ todo[r] = {}
       /\ pc[r] = "done" /\ payments[r] # NoPayment => todo[r] = {} \/ rem[r] <= 0
       /\ payments[r] # NoPayment =>
            /\ payments[r].debt = debtOf[r] /\ debtOf[r] \in Debts
            /\ todo[r] \subseteq pending[r] /\ pending[r] \subseteq DOMAIN schedule[debtOf[r]]

\* What it tried and could not pay it could not pay now, either.
Skipped ==
  \A r \in Requests : payments[r] # NoPayment /\ NoneNegative(debtOf[r]) =>
    \A i \in (pending[r] \ todo[r]) \cap Pending(debtOf[r]) :
      rem[r] < schedule[debtOf[r]][i].total

PaidTotal(d) == SumFunction([i \in Paid(d) |-> schedule[d][i].total])
HeldTotal(d) == SumFunction([r \in Recorded(d) |-> IF rem[r] > 0 THEN rem[r] ELSE 0])
CreditTotal(d) ==
  SumFunction([r \in Recorded(d) |-> Credit(r)])
Covered(d) == NoneNegative(d) => PaidTotal(d) + HeldTotal(d) <= CreditTotal(d)

RouteInv == TablesInv /\ RouteLocals /\ Skipped /\ \A d \in Debts : Covered(d)

LEMMA NegativeStays ==
  ASSUME NEW d \in Debts, RowsKept(d), NoneNegative(d)'
  PROVE  NoneNegative(d)
BY DEF RowsKept, NoneNegative

\* A step that touches nothing of these keeps a debt covered.
LEMMA CoverStays ==
  ASSUME NEW d \in Debts, Covered(d), RowsKept(d), Paid(d)' = Paid(d), Recorded(d)' = Recorded(d),
         \A r \in Recorded(d) : rem'[r] = rem[r] /\ payments'[r] = payments[r]
  PROVE  Covered(d)'
<1>1. PaidTotal(d)' = PaidTotal(d)
  <2>1. \A i \in Paid(d) : schedule'[d][i].total = schedule[d][i].total
    BY DEF RowsKept, Paid
  <2> QED BY <2>1 DEF PaidTotal
<1>2. HeldTotal(d)' = HeldTotal(d) /\ CreditTotal(d)' = CreditTotal(d)
  BY DEF HeldTotal, CreditTotal, Credit
<1> QED BY <1>1, <1>2, NegativeStays DEF Covered

\* A request that has a row in `payments` keeps what it tried and could not pay,
\* whatever happens to the installments, unless it tries one more itself.
SkipStays(r) ==
  /\ payments[r] # NoPayment /\ debtOf'[r] = debtOf[r] /\ rem'[r] = rem[r]
  /\ pending'[r] = pending[r] /\ todo'[r] = todo[r]

LEMMA SkippedStays ==
  ASSUME TablesInv, RouteLocals, Skipped, NEW r \in Requests, SkipStays(r),
         RowsKept(debtOf[r]), NoneNegative(debtOf[r])'
  PROVE  \A i \in (pending'[r] \ todo'[r]) \cap Pending(debtOf[r])' :
           rem'[r] < schedule'[debtOf[r]][i].total
<1>1. debtOf[r] \in Debts /\ pending[r] \subseteq DOMAIN schedule[debtOf[r]]
  BY DEF RouteLocals, SkipStays
<1>2. NoneNegative(debtOf[r])
  BY <1>1 DEF RowsKept, NoneNegative, SkipStays
<1>3. \A i \in (pending[r] \ todo[r]) \cap Pending(debtOf[r]) :
        rem[r] < schedule[debtOf[r]][i].total
  BY <1>2 DEF Skipped, SkipStays
<1> QED BY <1>1, <1>3 DEF SkipStays, RowsKept

\* Steps of other requests, and steps on other tables.
LEMMA RouteStays ==
  ASSUME RouteInv, TablesInv', \A d \in Debts : RowsKept(d) /\ Paid(d)' = Paid(d),
         UNCHANGED <<payments, pending, todo>>,
         \A r \in Requests : payments[r] # NoPayment =>
           /\ debtOf'[r] = debtOf[r] /\ rem'[r] = rem[r]
           /\ pc'[r] \in {pc[r], "failed", "done"}
           /\ pc'[r] = "done" /\ pc[r] # "done" => todo[r] = {} \/ rem[r] <= 0,
         \A r \in Requests : payments[r] = NoPayment =>
           /\ pc'[r] \in {"idle", "creating"} => pc[r] \in {"idle", "creating"}
           /\ pc'[r] \in {pc[r], "creating", "failed", "done"}
  PROVE  RouteInv'
<1>0. TablesInv /\ RouteLocals /\ Skipped /\ \A d \in Debts : Covered(d)
  BY DEF RouteInv
<1>1. RouteLocals'
  <2>1. \A r \in Requests : payments[r] # NoPayment =>
           DOMAIN schedule[debtOf[r]] \subseteq DOMAIN schedule'[debtOf[r]]
    BY <1>0 DEF RouteLocals, RowsKept
  <2> QED BY <1>0, <2>1 DEF RouteLocals
<1>2. Skipped'
  <2> SUFFICES ASSUME NEW r \in Requests, payments'[r] # NoPayment, NoneNegative(debtOf[r])'
               PROVE  \A i \in (pending'[r] \ todo'[r]) \cap Pending(debtOf[r])' :
                        rem'[r] < schedule'[debtOf'[r]][i].total
    BY DEF Skipped
  <2>1. SkipStays(r) /\ debtOf[r] \in Debts /\ debtOf'[r] = debtOf[r]
    BY <1>0 DEF SkipStays, RouteLocals
  <2> QED BY <1>0, <2>1, SkippedStays
<1>3. ASSUME NEW d \in Debts PROVE Covered(d)'
  <2>1. Recorded(d)' = Recorded(d)
    BY DEF Recorded
  <2>2. \A r \in Recorded(d) : rem'[r] = rem[r] /\ payments'[r] = payments[r]
    BY DEF Recorded
  <2> QED BY <1>0, <2>1, <2>2, CoverStays
<1> QED BY <1>1, <1>2, <1>3 DEF RouteInv

\* The sums when one more term comes in.
LEMMA SumGrows ==
  ASSUME NEW f, NEW g, IsFiniteSet(DOMAIN f), NEW y, y \notin DOMAIN f,
         DOMAIN g = DOMAIN f \cup {y}, \A x \in DOMAIN f : g[x] = f[x] /\ f[x] \in Int,
         g[y] \in Int
  PROVE  SumFunction(g) = SumFunction(f) + g[y]
<1> DEFINE S == DOMAIN f
<1>1. IsFiniteSet(S) /\ y \notin S /\ \A x \in S \cup {y} : g[x] \in Int
  OBVIOUS
<1>2. \A x \in S : g[x] = f[x]
  OBVIOUS
<1>3. SumFunction(f) = SumFunctionOnSet(f, S) /\ SumFunction(g) = SumFunctionOnSet(g, S \cup {y})
  BY DEF SumFunction
<1> HIDE DEF S
<1>4. SumFunctionOnSet(g, S) = SumFunctionOnSet(f, S)
  BY <1>1, <1>2, SumAgrees
<1>5. SumFunctionOnSet(g, S \cup {y}) = SumFunctionOnSet(g, S) + g[y]
  BY <1>1, SumAdd
<1> QED BY <1>3, <1>4, <1>5

\* They are sums of integers over finite sets.
LEMMA TotalsAreIntegers ==
  ASSUME TablesInv, RouteLocals, NEW d \in Debts
  PROVE  /\ IsFiniteSet(Paid(d)) /\ \A i \in DOMAIN schedule[d] : schedule[d][i].total \in Int
         /\ IsFiniteSet(Recorded(d)) /\ Recorded(d) \subseteq Requests
         /\ \A r \in Requests : rem[r] \in Int
         /\ \A r \in Recorded(d) : Credit(r) \in Nat /\ debtOf[r] = d
         /\ PaidTotal(d) \in Int /\ HeldTotal(d) \in Int /\ CreditTotal(d) \in Int
<1>1. schedule[d] \in Seq(InstallmentRow) /\ rem \in [Requests -> Int]
  BY DEF TablesInv, TablesTypeOK
<1>2. \A i \in DOMAIN schedule[d] : schedule[d][i].total \in Int
  <2> SUFFICES ASSUME NEW i \in DOMAIN schedule[d] PROVE schedule[d][i].total \in Int
    OBVIOUS
  <2>1. schedule[d][i] \in InstallmentRow
    BY <1>1
  <2> QED BY <2>1 DEF InstallmentRow
<1>3. IsFiniteSet(Paid(d))
  <2>1. DOMAIN schedule[d] = 1 .. Len(schedule[d]) /\ Len(schedule[d]) \in Nat
    BY <1>1
  <2>2. IsFiniteSet(DOMAIN schedule[d])
    BY <2>1, FS_Interval
  <2> QED BY <2>2, FS_Subset DEF Paid
<1>4. IsFiniteSet(Recorded(d)) /\ Recorded(d) \subseteq Requests
  <2>1. Recorded(d) \subseteq {r \in Requests : payments[r] # NoPayment}
    BY DEF Recorded
  <2>2. IsFiniteSet({r \in Requests : payments[r] # NoPayment})
    BY DEF RouteLocals
  <2>3. IsFiniteSet(Recorded(d))
    BY <2>1, <2>2, FS_Subset
  <2> QED BY <2>3 DEF Recorded
<1>5. \A r \in Recorded(d) : Credit(r) \in Nat /\ debtOf[r] = d
  <2> SUFFICES ASSUME NEW r \in Recorded(d)
               PROVE  Credit(r) \in Nat /\ debtOf[r] = d
    OBVIOUS
  <2>1. payments[r] \in [debt : Debts, body : Bodies] /\ debtOf[r] = d
    BY DEF RouteLocals, Recorded
  <2>2. payments[r].body \in Bodies
    BY <2>1
  <2>3. payments[r].body.principal \in Int /\ payments[r].body.interest \in Int
    BY <2>2, BodiesAssumption
  <2> QED BY <2>1, <2>3 DEF Credit
<1>6. PaidTotal(d) \in Int
  <2> DEFINE f == [i \in Paid(d) |-> schedule[d][i].total]
  <2>1. IsFiniteSet(DOMAIN f) /\ \A i \in DOMAIN f : f[i] \in Int
    BY <1>2, <1>3 DEF Paid
  <2> HIDE DEF f
  <2>2. SumFunctionOnSet(f, DOMAIN f) \in Int
    BY <2>1, SumIsInt
  <2> QED BY <2>2 DEF f, PaidTotal, SumFunction
<1>7. HeldTotal(d) \in Int
  <2> DEFINE f == [r \in Recorded(d) |-> IF rem[r] > 0 THEN rem[r] ELSE 0]
  <2>1. IsFiniteSet(DOMAIN f) /\ \A r \in DOMAIN f : f[r] \in Int
    BY <1>1, <1>4
  <2> HIDE DEF f
  <2>2. SumFunctionOnSet(f, DOMAIN f) \in Int
    BY <2>1, SumIsInt
  <2> QED BY <2>2 DEF f, HeldTotal, SumFunction
<1>8. CreditTotal(d) \in Int
  <2> DEFINE f == [r \in Recorded(d) |-> Credit(r)]
  <2>1. IsFiniteSet(DOMAIN f) /\ \A r \in DOMAIN f : f[r] \in Int
    BY <1>4, <1>5
  <2> HIDE DEF f
  <2>2. SumFunctionOnSet(f, DOMAIN f) \in Int
    BY <2>1, SumIsInt
  <2> QED BY <2>2 DEF f, CreditTotal, SumFunction
<1> QED BY <1>1, <1>2, <1>3, <1>4, <1>5, <1>6, <1>7, <1>8

-----------------------------------------------------------------------------
LEMMA RouteInitInv == RouteInit => RouteInv
<1> SUFFICES ASSUME RouteInit PROVE RouteInv
  OBVIOUS
<1>1. TablesInit /\ payments = [r \in Requests |-> NoPayment]
      /\ pending = [r \in Requests |-> {}] /\ todo = [r \in Requests |-> {}]
  BY DEF RouteInit, TablesInit
<1>2. TablesInv
  BY <1>1, InitTables
<1>3. {r \in Requests : payments[r] # NoPayment} = {}
      /\ IsFiniteSet({r \in Requests : payments[r] # NoPayment})
  <2>1. {r \in Requests : payments[r] # NoPayment} = {}
    BY <1>1
  <2> QED BY <2>1, FS_EmptySet
<1>4. RouteLocals /\ Skipped
  <2>1. \A r \in Requests : payments[r] = NoPayment /\ pending[r] = {} /\ todo[r] = {}
                            /\ pc[r] = "idle"
    BY <1>1 DEF TablesInit
  <2>2. /\ payments \in [Requests -> [debt : Debts, body : Bodies] \cup {NoPayment}]
        /\ pending \in [Requests -> SUBSET Nat] /\ todo \in [Requests -> SUBSET Nat]
    BY <1>1
  <2> QED BY <1>3, <2>1, <2>2 DEF RouteLocals, Skipped
<1>5. ASSUME NEW d \in Debts PROVE Covered(d)
  <2>1. Paid(d) = {}
    BY <1>1 DEF Paid, TablesInit
  <2>2. Recorded(d) = {}
    BY <1>3 DEF Recorded
  <2>3. \A f : DOMAIN f = {} => SumFunction(f) = 0
    BY SumOfNone DEF SumFunction
  <2>4. PaidTotal(d) = 0
    BY <2>1, <2>3 DEF PaidTotal
  <2>5. HeldTotal(d) = 0 /\ CreditTotal(d) = 0
    BY <2>2, <2>3 DEF HeldTotal, CreditTotal
  <2> QED BY <2>4, <2>5 DEF Covered
<1> QED BY <1>2, <1>4, <1>5 DEF RouteInv

\* Rows are only appended and marked.
LEMMA SameRows ==
  ASSUME NEW d \in Debts, schedule'[d] = schedule[d]
  PROVE  RowsKept(d) /\ Paid(d)' = Paid(d)
BY DEF RowsKept, Paid, Pending

LEMMA RouteCreateDebt ==
  ASSUME RouteInv, NEW r \in Requests, NEW d \in Debts, NEW l \in Loans,
         CreateDebt(r, d, l), UNCHANGED handlerVars
  PROVE  RouteInv'
<1>1. CreateDebt(r, d, l) /\ TablesInv /\ RouteLocals /\ UNCHANGED <<payments, pending, todo>>
  BY DEF RouteInv, handlerVars
<1>2. TablesInv'
  BY <1>1, CreateDebtTables
<1>3. \A e \in Debts : RowsKept(e) /\ Paid(e)' = Paid(e)
  BY <1>1, SameRows DEF CreateDebt
<1>4. payments[r] = NoPayment /\ pc[r] = "idle"
  BY <1>1 DEF CreateDebt, RouteLocals
<1>5. /\ pc' = [pc EXCEPT ![r] = IF l.termMonths > 0 THEN "creating" ELSE "done"]
      /\ debtOf' = [debtOf EXCEPT ![r] = d]
      /\ rem' = [rem EXCEPT ![r] = l.principalCents]
      /\ pc \in [Requests -> PcValues] /\ rem \in [Requests -> Int]
      /\ debtOf \in [Requests -> Debts \cup {NoDebt}]
  BY <1>1 DEF CreateDebt, TablesInv, TablesTypeOK
<1> QED BY <1>1, <1>2, <1>3, <1>4, <1>5, RouteStays

LEMMA RouteInsertInstallment ==
  ASSUME RouteInv, NEW r \in Requests, InsertInstallment(r), UNCHANGED handlerVars
  PROVE  RouteInv'
<1>1. InsertInstallment(r) /\ TablesInv /\ RouteLocals /\ UNCHANGED <<payments, pending, todo>>
  BY DEF RouteInv, handlerVars
<1>2. TablesInv' /\ \A q \in Requests \ {r} : rem'[q] = rem[q]
  BY <1>1, InsertInstallmentTables, RowAppended DEF TablesInv
<1>3. ASSUME NEW e \in Debts PROVE RowsKept(e) /\ Paid(e)' = Paid(e)
  <2>1. /\ Len(schedule[e]) \in Nat /\ DOMAIN schedule[e] = 1 .. Len(schedule[e])
        /\ DOMAIN schedule[e] \subseteq DOMAIN schedule'[e]
        /\ \A k \in DOMAIN schedule[e] : schedule'[e][k] = schedule[e][k]
        /\ Paid(e)' = Paid(e)
        /\ Pending(e)' \subseteq Pending(e) \cup {Len(schedule[e]) + 1}
    BY <1>1, RowAppended DEF TablesInv
  <2> QED BY <2>1 DEF RowsKept
<1>4. payments[r] = NoPayment /\ pc[r] = "creating"
  BY <1>1 DEF InsertInstallment, RouteLocals
<1>5. pc' \in {pc, [pc EXCEPT ![r] = "done"]} /\ debtOf' = debtOf
      /\ pc \in [Requests -> PcValues]
  BY <1>1 DEF InsertInstallment, TablesInv, TablesTypeOK
<1> QED BY <1>1, <1>2, <1>3, <1>4, <1>5, RouteStays

LEMMA RouteFail ==
  ASSUME RouteInv, NEW r \in Requests, Fail(r), UNCHANGED handlerVars
  PROVE  RouteInv'
<1>1. Fail(r) /\ TablesInv /\ UNCHANGED <<payments, pending, todo>>
  BY DEF RouteInv, handlerVars
<1>2. pc' = [pc EXCEPT ![r] = "failed"] /\ UNCHANGED <<agreements, schedule, debtOf, rem>>
      /\ pc \in [Requests -> PcValues]
  BY <1>1 DEF Fail, TablesInv, TablesTypeOK
<1>3. TablesInv'
  BY <1>1, <1>2, OtherTables DEF TablesInv, TablesTypeOK, PcValues
<1>4. \A e \in Debts : RowsKept(e) /\ Paid(e)' = Paid(e)
  BY <1>2, SameRows
<1> QED BY <1>1, <1>2, <1>3, <1>4, RouteStays

LEMMA RouteMarkOverdue ==
  ASSUME RouteInv, NEW d \in Debts, NEW i \in DOMAIN schedule[d], MarkOverdue(d, i),
         UNCHANGED handlerVars
  PROVE  RouteInv'
<1>1. MarkOverdue(d, i) /\ TablesInv /\ UNCHANGED <<payments, pending, todo>>
  BY DEF RouteInv, handlerVars
<1>2. schedule' = [schedule EXCEPT ![d][i].status = "OVERDUE"] /\ schedule[d][i].status = "PENDING"
      /\ UNCHANGED <<agreements, pc, debtOf, rem>> /\ "OVERDUE" \in StatusValues
  BY <1>1 DEF MarkOverdue, StatusValues
<1>3. TablesInv'
  BY <1>1, <1>2, StatusTables DEF TablesInv, TablesTypeOK
<1>4. ASSUME NEW e \in Debts PROVE RowsKept(e) /\ Paid(e)' = Paid(e)
  <2>1. DOMAIN schedule'[e] = DOMAIN schedule[e]
        /\ \A k \in DOMAIN schedule[e] :
             /\ schedule'[e][k].status = IF e = d /\ k = i THEN "OVERDUE" ELSE schedule[e][k].status
             /\ schedule'[e][k].total = schedule[e][k].total
    BY <1>1, <1>2, StatusUpdate DEF TablesInv, TablesTypeOK, Same
  <2> QED BY <1>2, <2>1 DEF RowsKept, Paid, Pending
<1> QED BY <1>1, <1>2, <1>3, <1>4, RouteStays

LEMMA RouteInsertJournal ==
  ASSUME RouteInv, NEW r \in Requests, InsertJournal(r)
  PROVE  RouteInv'
<1>1. /\ pc[r] = "settling" /\ (todo[r] = {} \/ rem[r] <= 0)
      /\ pc' = [pc EXCEPT ![r] = "done"]
      /\ UNCHANGED <<agreements, schedule, debtOf, rem, pending, todo, payments>>
      /\ TablesInv /\ RouteLocals /\ pc \in [Requests -> PcValues]
  BY DEF InsertJournal, RouteInv, TablesInv, TablesTypeOK
<1>2. TablesInv'
  BY <1>1, OtherTables DEF TablesInv, TablesTypeOK, PcValues
<1>3. \A e \in Debts : RowsKept(e) /\ Paid(e)' = Paid(e)
  BY <1>1, SameRows
<1>4. payments[r] # NoPayment
  BY <1>1 DEF RouteLocals
<1> QED BY <1>1, <1>2, <1>3, <1>4, RouteStays

LEMMA RouteSelectPending ==
  ASSUME RouteInv, NEW r \in Requests, SelectUnpaid(r)
  PROVE  RouteInv'
<1>0. TablesInv /\ RouteLocals /\ Skipped /\ (\A d \in Debts : Covered(d))
      /\ pc \in [Requests -> PcValues]
  BY DEF RouteInv, TablesInv, TablesTypeOK
<1>1. pc[r] = "selecting" /\ payments[r] # NoPayment /\ debtOf[r] \in Debts
  BY <1>0 DEF SelectUnpaid, RouteLocals
<1>2. Pending(debtOf[r]) \in SUBSET Nat /\ Pending(debtOf[r]) \subseteq DOMAIN schedule[debtOf[r]]
  BY <1>0, <1>1 DEF TablesInv, TablesTypeOK, Pending
<1>3. /\ pending' = [pending EXCEPT ![r] = Pending(debtOf[r])]
      /\ todo' = [todo EXCEPT ![r] = Pending(debtOf[r])]
      /\ pc' = [pc EXCEPT ![r] = "settling"]
      /\ UNCHANGED <<agreements, schedule, debtOf, rem, payments>>
  BY <1>1 DEF SelectUnpaid
<1>4. TablesInv'
  BY <1>0, <1>3, OtherTables DEF TablesInv, TablesTypeOK, PcValues, InHandler
<1>5. RouteLocals'
  BY <1>0, <1>1, <1>2, <1>3 DEF RouteLocals
<1>6. Skipped'
  BY <1>0, <1>3 DEF Skipped, RouteLocals, NoneNegative, Pending
<1>7. ASSUME NEW d \in Debts PROVE Covered(d)'
  <2>1. RowsKept(d) /\ Paid(d)' = Paid(d) /\ Recorded(d)' = Recorded(d)
    BY <1>3, SameRows DEF Recorded
  <2> QED BY <1>0, <1>3, <2>1, CoverStays
<1> QED BY <1>4, <1>5, <1>6, <1>7 DEF RouteInv

\* INSERT INTO payments: the handler holds as much as the row gives.
LEMMA RouteInsertPayment ==
  ASSUME RouteInv, NEW r \in Requests, NEW d \in Debts, NEW b \in Bodies,
         RecordPayment(r, d, b)
  PROVE  RouteInv'
<1> DEFINE row == [debt |-> d, body |-> b]
           x == b.principal + b.interest
           gives == IF x > 0 THEN x ELSE 0
<1>0. TablesInv /\ RouteLocals /\ Skipped /\ (\A e \in Debts : Covered(e))
      /\ pc \in [Requests -> PcValues] /\ rem \in [Requests -> Int]
      /\ debtOf \in [Requests -> Debts \cup {NoDebt}]
      /\ payments \in [Requests -> [debt : Debts, body : Bodies] \cup {NoPayment}]
  BY DEF RouteInv, TablesInv, TablesTypeOK, RouteLocals
<1>1. pc[r] = "idle" /\ payments[r] = NoPayment /\ pending[r] = {} /\ todo[r] = {}
  BY <1>0 DEF RecordPayment, RouteLocals
<1>2. /\ payments' = [payments EXCEPT ![r] = row] /\ pc' = [pc EXCEPT ![r] = "selecting"]
      /\ debtOf' = [debtOf EXCEPT ![r] = d] /\ rem' = [rem EXCEPT ![r] = x]
      /\ UNCHANGED <<agreements, schedule, pending, todo>>
  BY DEF RecordPayment
<1>3. x \in Int /\ row \in [debt : Debts, body : Bodies] /\ row # NoPayment
  <2>1. b \in [total : Int, principal : Int, interest : Int, penalties : Int]
    BY BodiesAssumption
  <2>2. row \in [debt : Debts, body : Bodies]
    OBVIOUS
  <2>3. row # NoPayment
    BY <2>2, BodiesAssumption
  <2> QED BY <2>1, <2>2, <2>3
<1>4. row.debt = d /\ row.body.principal + row.body.interest = x
  OBVIOUS
<1> HIDE DEF row, x
<1>5. TablesInv'
  BY <1>0, <1>2, <1>3, OtherTables DEF PcValues, InHandler
<1>6. RouteLocals'
  <2>1. IsFiniteSet({q \in Requests : payments[q] # NoPayment}')
    <3>1. {q \in Requests : payments'[q] # NoPayment}
            = {q \in Requests : payments[q] # NoPayment} \cup {r}
      BY <1>0, <1>2, <1>3
    <3>2. IsFiniteSet({q \in Requests : payments[q] # NoPayment} \cup {r})
      BY <1>0, FS_AddElement DEF RouteLocals
    <3> QED BY <3>1, <3>2
  <2>2. payments' \in [Requests -> [debt : Debts, body : Bodies] \cup {NoPayment}]
    BY <1>0, <1>2, <1>3
  <2>3. \A q \in Requests \ {r} : /\ payments'[q] = payments[q] /\ pc'[q] = pc[q]
                                 /\ debtOf'[q] = debtOf[q] /\ rem'[q] = rem[q]
    BY <1>0, <1>2
  <2>4. payments'[r] = row /\ pc'[r] = "selecting" /\ debtOf'[r] = d
    BY <1>0, <1>2
  <2> QED BY <1>0, <1>1, <1>2, <1>3, <1>4, <2>1, <2>2, <2>3, <2>4 DEF RouteLocals
<1>7. Skipped'
  <2>1. \A q \in Requests \ {r} : /\ payments'[q] = payments[q] /\ debtOf'[q] = debtOf[q]
                                 /\ rem'[q] = rem[q]
    BY <1>0, <1>2
  <2>2. \A q \in Requests : pending'[q] = pending[q] /\ todo'[q] = todo[q] /\ schedule' = schedule
    BY <1>2
  <2> QED BY <1>0, <1>1, <2>1, <2>2 DEF Skipped, NoneNegative, Pending
<1>8. ASSUME NEW e \in Debts PROVE Covered(e)'
  <2>1. RowsKept(e) /\ Paid(e)' = Paid(e)
    BY <1>2, SameRows
  <2>2. CASE e # d
    <3>1. Recorded(e)' = Recorded(e) /\ r \notin Recorded(e)
      BY <1>0, <1>1, <1>2, <1>4, <2>2 DEF Recorded
    <3>2. \A q \in Recorded(e) : rem'[q] = rem[q] /\ payments'[q] = payments[q]
      BY <1>0, <1>2, <3>1 DEF Recorded
    <3> QED BY <1>0, <2>1, <3>1, <3>2, CoverStays
  <2>3. CASE e = d
    <3>1. Recorded(e)' = Recorded(e) \cup {r} /\ r \notin Recorded(e)
      BY <1>0, <1>1, <1>2, <1>3, <1>4, <2>3 DEF Recorded
    <3>2. PaidTotal(e)' = PaidTotal(e) /\ (NoneNegative(e)' => NoneNegative(e))
      BY <1>2, <2>1 DEF PaidTotal, NoneNegative
    <3>3. /\ IsFiniteSet(Recorded(e)) /\ \A q \in Requests : rem[q] \in Int
          /\ \A q \in Recorded(e) : Credit(q) \in Int
          /\ PaidTotal(e) \in Int /\ HeldTotal(e) \in Int /\ CreditTotal(e) \in Int
      BY <1>0, TotalsAreIntegers
    <3>0. gives \in Int
      BY <1>3
    <3>4. HeldTotal(e)' = HeldTotal(e) + gives
      <4> DEFINE f == [q \in Recorded(e) |-> IF rem[q] > 0 THEN rem[q] ELSE 0]
                 g == [q \in Recorded(e) \cup {r} |-> IF rem'[q] > 0 THEN rem'[q] ELSE 0]
      <4>1. \A q \in Recorded(e) : rem'[q] = rem[q]
        BY <1>0, <1>2, <3>1 DEF Recorded
      <4>2. rem'[r] = x
        BY <1>0, <1>2
      <4>3. /\ IsFiniteSet(DOMAIN f) /\ r \notin DOMAIN f /\ DOMAIN g = DOMAIN f \cup {r}
            /\ \A q \in DOMAIN f : g[q] = f[q] /\ f[q] \in Int
        BY <3>1, <3>3, <4>1 DEF Recorded
      <4>4. g[r] = gives /\ gives \in Int
        BY <3>0, <4>2
      <4> HIDE DEF f, g, gives
      <4>5. SumFunction(g) = SumFunction(f) + gives
        BY <4>3, <4>4, SumGrows
      <4>6. HeldTotal(e) = SumFunction(f)
        BY DEF f, HeldTotal
      <4>7. HeldTotal(e)' = SumFunction(g)
        BY <3>1 DEF g, HeldTotal
      <4> QED BY <4>5, <4>6, <4>7
    <3>5. CreditTotal(e)' = CreditTotal(e) + gives
      <4> DEFINE f == [q \in Recorded(e) |-> Credit(q)]
                 g == [q \in Recorded(e) \cup {r} |-> Credit(q)']
      <4>1. \A q \in Recorded(e) : payments'[q] = payments[q]
        BY <1>0, <1>2, <3>1 DEF Recorded
      <4>2. payments'[r] = row
        BY <1>0, <1>2
      <4>3. /\ IsFiniteSet(DOMAIN f) /\ r \notin DOMAIN f /\ DOMAIN g = DOMAIN f \cup {r}
            /\ \A q \in DOMAIN f : g[q] = f[q] /\ f[q] \in Int
        BY <3>1, <3>3, <4>1 DEF Credit
      <4>4. g[r] = gives /\ gives \in Int
        BY <1>4, <3>0, <4>2 DEF Credit
      <4> HIDE DEF f, g, gives
      <4>5. SumFunction(g) = SumFunction(f) + gives
        BY <4>3, <4>4, SumGrows
      <4>6. CreditTotal(e) = SumFunction(f)
        BY DEF f, CreditTotal
      <4>7. CreditTotal(e)' = SumFunction(g)
        BY <3>1 DEF g, CreditTotal
      <4> QED BY <4>5, <4>6, <4>7
    <3>6. Covered(e)
      BY <1>0
    <3> HIDE DEF gives
    <3>7. PaidTotal(e) + HeldTotal(e) <= CreditTotal(e)
            => PaidTotal(e) + (HeldTotal(e) + gives) <= CreditTotal(e) + gives
      BY <3>0, <3>3
    <3> QED BY <3>2, <3>4, <3>5, <3>6, <3>7 DEF Covered
  <2> QED BY <2>2, <2>3
<1> QED BY <1>5, <1>6, <1>7, <1>8 DEF RouteInv

\* One turn of the loop: what the handler pays out, the installment settles.
LEMMA RouteTryInstallment ==
  ASSUME RouteInv, NEW r \in Requests, TryInstallment(r)
  PROVE  RouteInv'
<1> DEFINE d == debtOf[r]
           i == First(todo[r])
           t == schedule[d][i].total
<1>0. TablesInv /\ RouteLocals /\ Skipped /\ (\A e \in Debts : Covered(e))
      /\ pc \in [Requests -> PcValues] /\ rem \in [Requests -> Int]
      /\ debtOf \in [Requests -> Debts \cup {NoDebt}]
      /\ todo \in [Requests -> SUBSET Nat] /\ schedule \in [Debts -> Seq(InstallmentRow)]
  BY DEF RouteInv, TablesInv, TablesTypeOK, RouteLocals
<1>1. /\ pc[r] = "settling" /\ todo[r] # {} /\ rem[r] > 0
      /\ todo' = [todo EXCEPT ![r] = @ \ {i}]
      /\ IF rem[r] >= t THEN schedule' = [schedule EXCEPT ![d][i].status = "PAID"]
                              /\ rem' = [rem EXCEPT ![r] = @ - t]
                         ELSE UNCHANGED <<schedule, rem>>
      /\ UNCHANGED <<agreements, pc, debtOf, pending, payments>>
  BY DEF TryInstallment, Covers, MarkPaid
<1>2. payments[r] # NoPayment /\ d \in Debts /\ i \in todo[r] /\ i \in DOMAIN schedule[d]
      /\ payments[r].debt = d
  <2>1. payments[r] # NoPayment
    BY <1>0, <1>1 DEF RouteLocals
  <2>2. i \in todo[r]
    BY <1>0, <1>1, FirstIsOldest
  <2> QED BY <1>0, <2>1, <2>2 DEF RouteLocals
<1>3. \A e \in Debts : \A k \in DOMAIN schedule[e] : schedule[e][k].total \in Int
  BY <1>0, TotalsAreIntegers
<1>4. t \in Int
  BY <1>2, <1>3
<1> HIDE DEF i
<1>5. TablesInv' /\ \A e \in Debts : RowsKept(e)
  <2>1. CASE rem[r] >= t
    <3>1. schedule' = [schedule EXCEPT ![d][i].status = "PAID"] /\ "PAID" \in StatusValues
          /\ rem' = [rem EXCEPT ![r] = @ - t]
      BY <1>1, <2>1 DEF StatusValues
    <3> HIDE DEF t
    <3>2. rem' \in [Requests -> Int]
      BY <1>0, <1>4, <3>1
    <3>3. TablesInv'
      BY <1>0, <1>1, <1>2, <3>1, <3>2, StatusTables
    <3>4. ASSUME NEW e \in Debts PROVE RowsKept(e)
      <4>1. DOMAIN schedule'[e] = DOMAIN schedule[e]
            /\ \A k \in DOMAIN schedule[e] :
                 /\ schedule'[e][k].status = IF e = d /\ k = i THEN "PAID" ELSE schedule[e][k].status
                 /\ schedule'[e][k].total = schedule[e][k].total
        BY <1>0, <1>2, <3>1, StatusUpdate DEF Same
      <4> QED BY <4>1 DEF RowsKept, Pending
    <3> QED BY <3>3, <3>4
  <2>2. CASE ~(rem[r] >= t)
    <3>1. UNCHANGED <<agreements, schedule, pc, debtOf, rem>>
      BY <1>1, <2>2
    <3>2. TablesInv'
      BY <1>0, <3>1, OtherTables
    <3> QED BY <3>1, <3>2, SameRows
  <2> QED BY <2>1, <2>2
<1>6. rem' \in [Requests -> Int] /\ (\A q \in Requests \ {r} : rem'[q] = rem[q])
      /\ rem'[r] = IF rem[r] >= t THEN rem[r] - t ELSE rem[r]
  <2> HIDE DEF t
  <2> QED BY <1>0, <1>1, <1>4
<1>7. RouteLocals'
  <2>1. \A q \in Requests : payments[q] # NoPayment =>
           DOMAIN schedule[debtOf[q]] \subseteq DOMAIN schedule'[debtOf[q]]
    BY <1>0, <1>5 DEF RouteLocals, RowsKept
  <2>2. todo' \in [Requests -> SUBSET Nat]
        /\ \A q \in Requests : todo'[q] \subseteq todo[q] /\ (q # r => todo'[q] = todo[q])
    BY <1>0, <1>1
  <2> HIDE DEF t
  <2> QED BY <1>0, <1>1, <1>2, <1>6, <2>1, <2>2 DEF RouteLocals
<1>8. Skipped'
  <2> SUFFICES ASSUME NEW q \in Requests, payments'[q] # NoPayment, NoneNegative(debtOf[q])',
                      NEW j \in (pending'[q] \ todo'[q]) \cap Pending(debtOf[q])'
               PROVE  rem'[q] < schedule'[debtOf'[q]][j].total
    BY DEF Skipped
  <2>1. payments[q] # NoPayment /\ debtOf'[q] = debtOf[q] /\ debtOf[q] \in Debts
        /\ pending'[q] = pending[q] /\ pending[q] \subseteq DOMAIN schedule[debtOf[q]]
    BY <1>0, <1>1 DEF RouteLocals
  <2>2. CASE q # r
    <3>1. SkipStays(q)
      BY <1>0, <1>1, <1>6, <2>1, <2>2 DEF SkipStays
    <3> QED BY <1>0, <1>5, <2>1, <3>1, SkippedStays
  <2>3. CASE q = r
    <3>1. j \in DOMAIN schedule[d] /\ schedule'[d][j].total = schedule[d][j].total
          /\ j \in Pending(d) /\ NoneNegative(d) /\ j \in pending[r] /\ j \notin todo[r] \ {i}
      <4>1. j \in pending[r] /\ j \notin todo[r] \ {i} /\ j \in Pending(d)'
        BY <1>0, <1>1, <2>1, <2>3
      <4>2. RowsKept(d) /\ NoneNegative(d)'
        BY <1>2, <1>5, <2>1, <2>3
      <4> QED BY <1>2, <2>1, <2>3, <4>1, <4>2, NegativeStays DEF RowsKept
    <3>2. t >= 0 /\ schedule[d][j].total \in Int /\ rem[r] \in Int
      BY <1>0, <1>2, <1>3, <3>1 DEF NoneNegative
    <3>3. CASE j \notin todo[r]
      <4>1. rem[r] < schedule[d][j].total
        BY <1>0, <1>2, <3>1, <3>3 DEF Skipped
      <4> HIDE DEF t
      <4>2. rem'[r] < schedule[d][j].total
        BY <1>4, <1>6, <3>2, <4>1
      <4> QED BY <2>1, <2>3, <3>1, <4>2
    <3>4. CASE j \in todo[r]
      <4>1. j = i
        BY <3>1, <3>4
      <4>2. ~(rem[r] >= t)
        <5> SUFFICES ASSUME rem[r] >= t PROVE FALSE
          OBVIOUS
        <5>1. schedule'[d][i].status = "PAID"
          <6>1. schedule' = [schedule EXCEPT ![d][i].status = "PAID"] /\ "PAID" \in StatusValues
            BY <1>1 DEF StatusValues
          <6> QED BY <1>0, <1>2, <6>1, StatusUpdate
        <5>2. j \in Pending(d)'
          BY <2>1, <2>3
        <5> QED BY <4>1, <5>1, <5>2, <2>1, <2>3 DEF Pending
      <4>3. t = schedule[d][j].total
        BY <4>1
      <4> HIDE DEF t
      <4>4. rem'[r] < schedule[d][j].total
        BY <1>4, <1>6, <3>2, <4>2, <4>3
      <4> QED BY <2>1, <2>3, <3>1, <4>4
    <3> QED BY <3>3, <3>4
  <2> QED BY <2>2, <2>3
<1>9. ASSUME NEW e \in Debts PROVE Covered(e)'
  <2>1. Recorded(e)' = Recorded(e) /\ UNCHANGED payments
    BY <1>1 DEF Recorded
  <2>2. CASE e # d \/ ~(rem[r] >= t)
    <3>1. Paid(e)' = Paid(e)
      <4>1. CASE ~(rem[r] >= t)
        BY <1>1, <4>1 DEF Paid
      <4>2. CASE rem[r] >= t /\ e # d
        <5>1. schedule'[e] = schedule[e]
          BY <1>0, <1>1, <4>2
        <5> QED BY <5>1 DEF Paid
      <4> QED BY <2>2, <4>1, <4>2
    <3>2. \A q \in Recorded(e) : rem'[q] = rem[q]
      <4>1. e # d => r \notin Recorded(e)
        BY <1>2 DEF Recorded
      <4> QED BY <1>6, <2>2, <4>1 DEF Recorded
    <3> QED BY <1>0, <1>5, <2>1, <3>1, <3>2, CoverStays
  <2>3. CASE e = d /\ rem[r] >= t
    <3> SUFFICES ASSUME NoneNegative(e)'
                 PROVE  PaidTotal(e)' + HeldTotal(e)' <= CreditTotal(e)'
      BY DEF Covered
    <3>1. NoneNegative(e) /\ RowsKept(e)
      BY <1>5, NegativeStays
    <3>2. t >= 0 /\ t \in Int /\ rem[r] \in Int /\ r \in Recorded(e)
      BY <1>0, <1>2, <1>4, <2>3, <3>1 DEF NoneNegative, Recorded
    <3>3. DOMAIN schedule'[e] = DOMAIN schedule[e]
          /\ \A k \in DOMAIN schedule[e] :
               /\ schedule'[e][k].status = IF k = i THEN "PAID" ELSE schedule[e][k].status
               /\ schedule'[e][k].total = schedule[e][k].total
      <4>1. schedule' = [schedule EXCEPT ![e][i].status = "PAID"] /\ "PAID" \in StatusValues
        BY <1>1, <2>3 DEF StatusValues
      <4> QED BY <1>0, <1>2, <2>3, <4>1, StatusUpdate DEF Same
    <3>4. /\ IsFiniteSet(Paid(e)) /\ IsFiniteSet(Recorded(e)) /\ Recorded(e) \subseteq Requests
          /\ \A q \in Recorded(e) : rem[q] \in Int
          /\ PaidTotal(e) \in Int /\ HeldTotal(e) \in Int /\ CreditTotal(e) \in Int
      BY <1>0, TotalsAreIntegers
    <3>5. Paid(e)' = Paid(e) \cup {i}
      BY <1>2, <2>3, <3>3 DEF Paid
    <3>6. PaidTotal(e)' = PaidTotal(e) \/ PaidTotal(e)' = PaidTotal(e) + t
      <4> DEFINE f == [k \in Paid(e) |-> schedule[e][k].total]
                 g == [k \in Paid(e) \cup {i} |-> schedule[e][k].total]
      <4>1. PaidTotal(e) = SumFunction(f)
        BY DEF PaidTotal
      <4>2. PaidTotal(e)' = SumFunction(g)
        <5>1. \A k \in Paid(e) \cup {i} : schedule'[e][k].total = schedule[e][k].total
          BY <1>2, <2>3, <3>3 DEF Paid
        <5> QED BY <3>5, <5>1 DEF PaidTotal
      <4>3. CASE i \in Paid(e)
        <5>1. Paid(e) \cup {i} = Paid(e)
          BY <4>3
        <5> QED BY <4>1, <4>2, <5>1
      <4>4. CASE i \notin Paid(e)
        <5>1. /\ IsFiniteSet(DOMAIN f) /\ i \notin DOMAIN f /\ DOMAIN g = DOMAIN f \cup {i}
              /\ \A k \in DOMAIN f : g[k] = f[k] /\ f[k] \in Int
          BY <1>3, <3>4, <4>4 DEF Paid
        <5>2. g[i] = t /\ t \in Int
          BY <1>4, <2>3
        <5> HIDE DEF f, g, t
        <5>3. SumFunction(g) = SumFunction(f) + t
          BY <5>1, <5>2, SumGrows
        <5> QED BY <4>1, <4>2, <5>3
      <4> QED BY <4>3, <4>4
    <3>7. HeldTotal(e)' = HeldTotal(e) - t
      <4> DEFINE f == [q \in Recorded(e) |-> IF rem[q] > 0 THEN rem[q] ELSE 0]
                 g == [q \in Recorded(e) |-> IF rem'[q] > 0 THEN rem'[q] ELSE 0]
                 S == Recorded(e)
      <4>1. HeldTotal(e) = SumFunctionOnSet(f, S) /\ HeldTotal(e)' = SumFunctionOnSet(g, S)
        BY <1>1, <2>1, <2>3 DEF HeldTotal, SumFunction
      <4>2. \A q \in S : q # r => g[q] = f[q]
        BY <1>6, <3>4
      <4>3. f[r] = rem[r]
        BY <1>1, <3>2
      <4> HIDE DEF t
      <4>4. rem'[r] = rem[r] - t /\ rem'[r] >= 0 /\ rem'[r] \in Int
        BY <1>6, <2>3, <3>2
      <4>5. g[r] = rem'[r]
        BY <3>2, <4>4
      <4>6. \A q \in S : f[q] \in Int
        BY <3>4
      <4>7. g[r] \in Int /\ IsFiniteSet(S) /\ r \in S
        BY <3>2, <3>4, <4>4, <4>5
      <4> HIDE DEF f, g, S
      <4>8. SumFunctionOnSet(g, S) = SumFunctionOnSet(f, S) + g[r] - f[r]
        BY <4>2, <4>6, <4>7, SumChange
      <4>9. SumFunctionOnSet(f, S) \in Int
        BY <4>6, <4>7, SumIsInt
      <4> QED BY <3>2, <4>1, <4>3, <4>4, <4>5, <4>8, <4>9
    <3>8. CreditTotal(e)' = CreditTotal(e)
      BY <1>1, <2>1, <2>3 DEF CreditTotal, Credit
    <3>9. PaidTotal(e) + HeldTotal(e) <= CreditTotal(e)
      BY <1>0, <3>1 DEF Covered
    <3> HIDE DEF t
    <3> QED BY <3>2, <3>4, <3>6, <3>7, <3>8, <3>9
  <2> QED BY <2>2, <2>3
<1> QED BY <1>5, <1>7, <1>8, <1>9 DEF RouteInv

LEMMA RouteNextInv ==
  ASSUME RouteInv, [RouteNext]_routeVars
  PROVE  RouteInv'
<1>1. CASE UNCHANGED routeVars
  <2>1. UNCHANGED <<agreements, schedule, pc, debtOf, rem, payments, pending, todo>>
    BY <1>1 DEF routeVars
  <2>2. TablesInv' /\ \A d \in Debts : RowsKept(d) /\ Paid(d)' = Paid(d)
    BY <2>1, OtherTables, SameRows DEF RouteInv, TablesInv, TablesTypeOK
  <2> QED BY <2>1, <2>2, RouteStays
<1>2. ASSUME NEW r \in Requests, HandleRoute(r) PROVE RouteInv'
  BY <1>2, RouteInsertInstallment, RouteSelectPending, RouteTryInstallment, RouteInsertJournal
     DEF HandleRoute
<1>3. ASSUME NEW d \in Debts, NEW i \in DOMAIN schedule[d], MarkOverdue(d, i),
             UNCHANGED handlerVars
      PROVE  RouteInv'
  BY <1>3, RouteMarkOverdue
<1> QED BY <1>1, <1>2, <1>3, RouteCreateDebt, RouteInsertPayment, RouteFail DEF RouteNext

\* RouteInv is an inductive invariant of POST /payments of the Fastify API.
THEOREM RouteInvariant == RouteSpec => []RouteInv
<1>1. RouteInv /\ [RouteNext]_routeVars => RouteInv'
  BY RouteNextInv
<1> QED BY <1>1, RouteInitInv, PTL DEF RouteSpec

\* Whatever is paid and marked over the Fastify API, a complete schedule repays
\* the principal to half a cent a month there, too.
THEOREM RouteRepaysPrincipal == RouteSpec => []ScheduleRepaysPrincipal
<1>1. RouteInv => ScheduleRepaysPrincipal
  BY PartsRepay DEF RouteInv
<1> QED BY <1>1, RouteInvariant, PTL

\* The rows of `payments` cover all installments that are PAID and all the money
\* the handlers still hold, on every debt without a negative installment.
THEOREM CreditCovers == RouteSpec => []CreditCoversPaid
<1>1. RouteInv => CreditCoversPaid
  <2> SUFFICES ASSUME RouteInv, NEW d \in Debts, NoneNegative(d)
               PROVE  SumFunction([i \in Paid(d) |-> schedule[d][i].total])
                          + SumFunction([r \in Recorded(d) |-> Held(r)])
                        <= SumFunction([r \in Recorded(d) |-> Credit(r)])
    BY DEF CreditCoversPaid
  <2>1. SumFunction([r \in Recorded(d) |-> Held(r)]) = HeldTotal(d)
    BY DEF HeldTotal, Held
  <2>2. SumFunction([r \in Recorded(d) |-> Credit(r)]) = CreditTotal(d)
    BY DEF CreditTotal
  <2> QED BY <2>1, <2>2 DEF RouteInv, Covered, PaidTotal
<1> QED BY <1>1, RouteInvariant, PTL

\* A payment that has answered has no money left that a PENDING installment of
\* its list would have taken.
THEOREM NothingLeftToCover == RouteSpec => []LeftoverCoversNothing
<1>1. RouteInv => LeftoverCoversNothing
  <2> SUFFICES ASSUME RouteInv, NEW r \in Requests, pc[r] = "done", payments[r] # NoPayment,
                      rem[r] > 0, NoneNegative(debtOf[r]),
                      NEW i \in pending[r] \cap Pending(debtOf[r])
               PROVE  rem[r] < schedule[debtOf[r]][i].total
    BY DEF LeftoverCoversNothing
  <2>1. debtOf[r] \in Debts /\ (todo[r] = {} \/ rem[r] <= 0) /\ rem[r] \in Int
    BY DEF RouteInv, RouteLocals, TablesInv, TablesTypeOK
  <2>2. todo[r] = {} /\ NoneNegative(debtOf[r]) /\ i \in Pending(debtOf[r])
    BY <2>1
  <2> QED BY <2>2 DEF RouteInv, Skipped
<1> QED BY <1>1, RouteInvariant, PTL

-----------------------------------------------------------------------------
\* The statement of the Fastify API, over the same tables.

\* A step of its handlers keeps what a statement saw.
LEMMA RouteGrows ==
  ASSUME RouteInv, [RouteNext]_routeVars
  PROVE  Grown /\ \A d \in Debts : RowsKept(d)
<1>1. /\ TablesTypeOK /\ CreatingInv /\ RouteLocals
      /\ agreements \in [Debts -> Loans \cup {NoLoan}]
      /\ payments \in [Requests -> [debt : Debts, body : Bodies] \cup {NoPayment}]
  BY DEF RouteInv, RouteLocals, TablesInv, TablesTypeOK
<1>2. OnRecord \subseteq OnRecord'
  <2>1. UNCHANGED agreements
          \/ \E d \in Debts, l \in Loans : agreements' = [agreements EXCEPT ![d] = l]
    BY DEF RouteNext, routeVars, CreateDebt, RecordPayment, HandleRoute, InsertInstallment,
           SelectUnpaid, TryInstallment, InsertJournal, Fail, MarkOverdue
  <2> QED BY <1>1, <2>1, LoansAssumption DEF OnRecord
<1>3. ASSUME NEW r \in PaidRows PROVE payments'[r] = payments[r]
  <2>1. UNCHANGED payments
          \/ \E q \in Requests, d \in Debts, b \in Bodies : RecordPayment(q, d, b)
    BY DEF RouteNext, routeVars, handlerVars, HandleRoute, SelectUnpaid, TryInstallment,
           InsertJournal
  <2>2. ASSUME NEW q \in Requests, NEW d \in Debts, NEW b \in Bodies, RecordPayment(q, d, b)
        PROVE  payments'[r] = payments[r]
    <3>1. payments[q] = NoPayment /\ payments[r] # NoPayment
      BY <1>1, <2>2 DEF RecordPayment, RouteLocals, PaidRows
    <3> QED BY <1>1, <2>2, <3>1 DEF RecordPayment
  <2> QED BY <2>1, <2>2
<1>4. RowsChange
  <2>1. ASSUME NEW r \in Requests, TryInstallment(r), schedule' # schedule
        PROVE  \E e \in Debts, i \in Nat :
                 i \in DOMAIN schedule[e] /\ schedule' = [schedule EXCEPT ![e][i].status = "PAID"]
    <3>1. /\ debtOf[r] \in Debts /\ todo[r] \in SUBSET Nat /\ todo[r] # {}
          /\ todo[r] \subseteq DOMAIN schedule[debtOf[r]]
      BY <1>1, <2>1 DEF RouteLocals, TryInstallment
    <3>2. First(todo[r]) \in DOMAIN schedule[debtOf[r]] /\ First(todo[r]) \in Nat
      BY <3>1, FirstIsOldest
    <3>3. MarkPaid(debtOf[r], First(todo[r]))
      BY <2>1 DEF TryInstallment
    <3> QED BY <3>1, <3>2, <3>3 DEF MarkPaid
  <2>2. \A e \in Debts : \A i \in DOMAIN schedule[e] : MarkOverdue(e, i) =>
          /\ i \in Nat /\ schedule[e][i].status = "PENDING"
          /\ schedule' = [schedule EXCEPT ![e][i].status = "OVERDUE"]
    BY <1>1 DEF MarkOverdue, TablesTypeOK
  <2> QED BY <2>1, <2>2 DEF RowsChange, RouteNext, routeVars, CreateDebt, RecordPayment,
                            HandleRoute, SelectUnpaid, InsertJournal, Fail
<1>5. \A d \in Debts : RowsKept(d) /\ Paid(d) \subseteq Paid(d)'
  BY <1>1, <1>4, RowsOnlyMarked
<1> QED BY <1>2, <1>3, <1>5 DEF Grown, RowsKept

\* What an answered statement adds up stays, whatever the handlers do then.
LEMMA ShownStays ==
  ASSUME StatementInv, Grown, \A d \in Debts : RowsKept(d), UNCHANGED statementVars,
         ShownPaidIsCovered
  PROVE  ShownPaidIsCovered'
<1> SUFFICES ASSUME stage = "answered", NEW d \in debts, NoneNegative(d)'
             PROVE  (SumFunction([i \in ShownPaid(d) |-> schedule[d][i].total])
                       <= SumFunction([r \in ShownPayments(d) |-> Credit(r)]))'
  BY DEF ShownPaidIsCovered, statementVars
<1>1. d \in Debts /\ RowsKept(d) /\ installments' = installments /\ paidBy' = paidBy
  BY DEF StatementInv, OnRecord, statementVars
<1>2. ShownPaid(d)' = ShownPaid(d)
  <2>1. ASSUME NEW i, <<<<d, i>>, "PAID">> \in installments PROVE i \in DOMAIN schedule[d]
    BY <2>1 DEF StatementInv, ShownRight
  <2> QED BY <1>1, <2>1 DEF ShownPaid, RowsKept
<1>3. \A i \in ShownPaid(d) : schedule'[d][i].total = schedule[d][i].total
  BY <1>1 DEF ShownPaid, RowsKept
<1>4. \A r \in paidBy : payments'[r] = payments[r]
  BY DEF StatementInv, Grown
<1>5. ShownPayments(d)' = ShownPayments(d)
  BY <1>1, <1>4 DEF ShownPayments
<1>6. \A r \in ShownPayments(d) : Credit(r)' = Credit(r)
  BY <1>4 DEF ShownPayments, Credit
<1>7. SumFunction([i \in ShownPaid(d) |-> schedule[d][i].total])
        <= SumFunction([r \in ShownPayments(d) |-> Credit(r)])
  BY <1>1, NegativeStays DEF ShownPaidIsCovered
<1>8. SumFunction([i \in ShownPaid(d) |-> schedule[d][i].total])'
        = SumFunction([i \in ShownPaid(d) |-> schedule[d][i].total])
  BY <1>2, <1>3
<1>9. SumFunction([r \in ShownPayments(d) |-> Credit(r)])'
        = SumFunction([r \in ShownPayments(d) |-> Credit(r)])
  BY <1>5, <1>6
<1> QED BY <1>7, <1>8, <1>9

\* The payments a statement selects are all that a debt has then, and cover the
\* installments that were PAID before.
LEMMA PaymentsCoverShown ==
  ASSUME RouteInv, StatementInv, SelectPayments, UNCHANGED routeVars
  PROVE  ShownPaidIsCovered'
<1>1. /\ TablesInv /\ RouteLocals /\ UNCHANGED <<schedule, payments, debts, installments>>
      /\ paidBy' = {r \in PaidRows : payments[r].debt \in debts}
  BY DEF RouteInv, routeVars, SelectPayments
<1> SUFFICES ASSUME NEW d \in debts, NoneNegative(d)
             PROVE  (SumFunction([i \in ShownPaid(d) |-> schedule[d][i].total])
                       <= SumFunction([r \in ShownPayments(d) |-> Credit(r)]))'
  BY <1>1 DEF ShownPaidIsCovered, NoneNegative
<1> DEFINE f == [i \in DOMAIN schedule[d] |-> schedule[d][i].total]
           shown == [i \in ShownPaid(d) |-> schedule[d][i].total]
           paid == [i \in Paid(d) |-> schedule[d][i].total]
<1>2. d \in Debts
  BY DEF StatementInv, OnRecord
<1>3. /\ IsFiniteSet(Paid(d)) /\ \A i \in DOMAIN schedule[d] : schedule[d][i].total \in Int
      /\ IsFiniteSet(Recorded(d)) /\ \A r \in Requests : rem[r] \in Int
      /\ Recorded(d) \subseteq Requests
      /\ PaidTotal(d) \in Int /\ HeldTotal(d) \in Int /\ CreditTotal(d) \in Int
  BY <1>1, <1>2, TotalsAreIntegers
<1>4. ShownPaid(d) \in SUBSET Paid(d)
  BY DEF ShownPaid, StatementInv, ShownRight
<1>5. \A i \in Paid(d) : f[i] \in Nat
  BY <1>3 DEF Paid, NoneNegative
<1> HIDE DEF f
<1>6. SumFunctionOnSet(f, ShownPaid(d)) <= SumFunctionOnSet(f, Paid(d))
  BY <1>3, <1>4, <1>5, SumOfPart
<1>7. SumFunction(shown) = SumFunctionOnSet(f, ShownPaid(d))
  <2>1. IsFiniteSet(ShownPaid(d)) /\ \A i \in ShownPaid(d) : shown[i] = f[i]
    BY <1>3, <1>4, FS_Subset DEF f, ShownPaid
  <2>2. SumFunction(shown) = SumFunctionOnSet(shown, ShownPaid(d))
    BY DEF SumFunction
  <2> HIDE DEF shown
  <2> QED BY <2>1, <2>2, SumAgrees
<1>8. PaidTotal(d) = SumFunctionOnSet(f, Paid(d))
  <2>1. \A i \in Paid(d) : paid[i] = f[i]
    BY DEF f, Paid
  <2>2. PaidTotal(d) = SumFunctionOnSet(paid, Paid(d))
    BY DEF PaidTotal, SumFunction
  <2> HIDE DEF paid
  <2> QED BY <1>3, <2>1, <2>2, SumAgrees
<1>9. HeldTotal(d) >= 0
  <2> DEFINE h == [r \in Recorded(d) |-> IF rem[r] > 0 THEN rem[r] ELSE 0]
  <2>1. \A r \in Recorded(d) : h[r] \in Nat
    BY <1>3
  <2>2. HeldTotal(d) = SumFunctionOnSet(h, Recorded(d))
    BY DEF HeldTotal, SumFunction
  <2> HIDE DEF h
  <2>3. SumFunctionOnSet(h, Recorded(d)) \in Nat
    BY <1>3, <2>1, SumIsNat
  <2> QED BY <2>2, <2>3
<1>10. PaidTotal(d) + HeldTotal(d) <= CreditTotal(d)
  BY <1>2 DEF RouteInv, Covered
<1>11. ShownPayments(d)' = Recorded(d)
  BY <1>1 DEF ShownPayments, Recorded, PaidRows
<1>12. SumFunction([r \in ShownPayments(d) |-> Credit(r)])' = CreditTotal(d)
  BY <1>1, <1>11 DEF CreditTotal, Credit
<1>13. SumFunction([i \in ShownPaid(d) |-> schedule[d][i].total])' = SumFunction(shown)
  BY <1>1 DEF ShownPaid
<1>14. SumFunctionOnSet(f, ShownPaid(d)) <= CreditTotal(d)
  <2>1. SumFunctionOnSet(f, ShownPaid(d)) \in Int
    <3>1. IsFiniteSet(ShownPaid(d)) /\ \A i \in ShownPaid(d) : f[i] \in Int
      BY <1>3, <1>4, <1>5, FS_Subset
    <3> QED BY <3>1, SumIsInt
  <2> QED BY <1>3, <1>6, <1>8, <1>9, <1>10, <2>1
<1> QED BY <1>7, <1>12, <1>13, <1>14

\* What a statement of the Fastify API shows as PAID, the payments it shows have
\* paid for, wherever its SELECTs fall between the statements of the handlers.
THEOREM ShownPaidCovered == RouteStatementSpec => []ShownPaidIsCovered
<1> DEFINE Inv == RouteInv /\ StatementInv /\ ShownPaidIsCovered
           all == <<routeVars, customerOf, statementVars>>
<1>1. RouteStatementInit => Inv
  <2> SUFFICES ASSUME RouteStatementInit PROVE Inv
    OBVIOUS
  <2>1. RouteInv
    BY RouteInitInv DEF RouteStatementInit
  <2> QED BY <2>1 DEF RouteStatementInit, StatementInit, StatementInv, ShownPaidIsCovered
<1>2. Inv /\ [RouteStatementNext]_all => Inv'
  <2> SUFFICES ASSUME RouteInv, StatementInv, ShownPaidIsCovered, [RouteStatementNext]_all
               PROVE  (RouteInv /\ StatementInv /\ ShownPaidIsCovered)'
    OBVIOUS
  <2>1. CASE [RouteNext]_routeVars /\ UNCHANGED statementVars
    <3>1. RouteInv'
      BY <2>1, RouteNextInv
    <3>2. Grown /\ \A d \in Debts : RowsKept(d)
      BY <2>1, RouteGrows
    <3>3. StatementInv'
      BY <2>1, <3>2, StatementGrows
    <3>4. ShownPaidIsCovered'
      BY <2>1, <3>2, ShownStays
    <3> QED BY <3>1, <3>3, <3>4
  <2>2. CASE SelectStatement /\ UNCHANGED routeVars
    <3>1. RouteInv'
      BY <2>2, RouteNextInv
    <3>2. TablesTypeOK /\ UNCHANGED <<agreements, schedule, payments>>
      BY <2>2 DEF RouteInv, TablesInv, routeVars
    <3>3. StatementInv'
      BY <2>2, <3>2, SelectsRight
    <3>4. ShownPaidIsCovered'
      <4>1. ASSUME NEW c \in Customers, SelectDebts(c) PROVE ShownPaidIsCovered'
        <5>1. stage' = "answered" => debts' = {}
          BY <4>1 DEF SelectDebts, Then
        <5> QED BY <5>1 DEF ShownPaidIsCovered
      <4>2. CASE SelectInstallments
        <5>1. stage' = "payments"
          BY <4>2 DEF SelectInstallments, Then
        <5> QED BY <5>1 DEF ShownPaidIsCovered
      <4>3. CASE SelectPayments
        BY <2>2, <4>3, PaymentsCoverShown
      <4> QED BY <2>2, <4>1, <4>2, <4>3 DEF SelectStatement
    <3> QED BY <3>1, <3>3, <3>4
  <2> QED BY <2>1, <2>2 DEF RouteStatementNext
<1> HIDE DEF Inv
<1>3. Inv => ShownPaidIsCovered
  BY DEF Inv
<1> QED BY <1>1, <1>2, <1>3, PTL DEF RouteStatementSpec
=============================================================================
