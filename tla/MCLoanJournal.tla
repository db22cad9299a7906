----------------------------- MODULE MCLoanJournal -----------------------------
EXTENDS LoanJournal

\* The waterfall's inputs come from the loan.
MCDemands == {}
=============================================================================
