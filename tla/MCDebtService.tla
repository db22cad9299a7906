----------------------------- MODULE MCDebtService -----------------------------
EXTENDS DebtService

CONSTANTS t1, t2, ana, bob, q1

L(a, d, c) == [account |-> a, debit |-> d, credit |-> c]

\* A debt that can be booked; debts of nothing and of less, whose entries the
\* engine rejects after the debt was inserted; and an unknown customer.
MCCalls == {
  [tenant |-> t1, customer |-> ana, principal |-> 3, period |-> q1],
  [tenant |-> t1, customer |-> ana, principal |-> 0, period |-> q1],
  [tenant |-> t1, customer |-> ana, principal |-> -2, period |-> q1],
  [tenant |-> t1, customer |-> bob, principal |-> 3, period |-> q1]}
MCCustomersOf == [t \in Tenants |-> IF t = t1 THEN {ana} ELSE {bob}]
MCChartOf == [t \in Tenants |-> IF t = t1 THEN {AR, Revenue} ELSE {AR}]

\* An entry of another tenant, with a negative line, and an unbalanced one, which
\* validation must stop.
MCDirect == {
  [tenant |-> t2, period |-> q1, lines |-> <<L(AR, 3, 0), L(Revenue, -1, 2)>>],
  [tenant |-> t1, period |-> q1, lines |-> <<L(AR, 2, 0), L(Revenue, 0, 1)>>]}
MCJournals == {DebtJournal(c) : c \in MCCalls} \cup MCDirect
=============================================================================
