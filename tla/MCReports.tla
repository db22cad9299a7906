------------------------------- MODULE MCReports -------------------------------
EXTENDS Reports, TLC

CONSTANTS d1, d2, c1

\* One customer with both debts, or with one of them.
MCOwners == {[d \in Debts |-> c1], [d \in Debts |-> IF d = d1 THEN c1 ELSE NoCustomer]}
Symmetry == Permutations(Requests)
\* Rounds up to 3 + 3; the rate makes interest large enough to be seen in cents.
\* A debt of less than nothing, and of no months, is taken like any other.
MCLoans == {[principalCents |-> 5, annualRateBps |-> 240000, termMonths |-> 2],
            [principalCents |-> -5, annualRateBps |-> 0, termMonths |-> 1],
            [principalCents |-> 4, annualRateBps |-> 0, termMonths |-> 0]}
\* One amount that settles nothing, one and both installments of the first.
MCAmounts == {-2, 3, 9}
=============================================================================
