--------------------------- MODULE MCServerPayments ---------------------------
EXTENDS ServerPayments

\* 10 cents over 3 months round down (3+3+3), 5 over 2 round up (3+3); the
\* rate makes interest large enough to be seen in cents.
MCLoans == {[principalCents |-> 10, annualRateBps |-> 240000, termMonths |-> 3],
            [principalCents |-> 5, annualRateBps |-> 0, termMonths |-> 2]}
=============================================================================
