--------------------------- MODULE MCRouteStatement ---------------------------
EXTENDS RouteStatement, TLC

CONSTANT c1

MCOwners == {[d \in Debts |-> c1]}

\* Totals 5, 4, 4: with 4 left the first installment is skipped for the second.
\* The second rounds its principal up, to 3 + 3. Then a debt of no months, and
\* one of less than nothing, with negative installments.
MCLoans == {[principalCents |-> 10, annualRateBps |-> 24000, termMonths |-> 3],
            [principalCents |-> 5, annualRateBps |-> 0, termMonths |-> 2],
            [principalCents |-> 7, annualRateBps |-> 24000, termMonths |-> 0],
            [principalCents |-> -7, annualRateBps |-> 0, termMonths |-> 2]}

\* Two payments, with and without penalties, and one of less than nothing.
MCBodies == {[total |-> 9, principal |-> 6, interest |-> 3, penalties |-> 0],
             [total |-> 6, principal |-> 3, interest |-> 1, penalties |-> 2],
             [total |-> -2, principal |-> -3, interest |-> 1, penalties |-> 0]}

MCSymmetry == Permutations(Requests)
=============================================================================
