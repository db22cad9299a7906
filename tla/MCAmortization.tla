---------------------------- MODULE MCAmortization ----------------------------
EXTENDS SavedSchedules

\* Principals smaller than, equal to and not divided by the term; no interest,
\* interest below and above one cent a month; a term of nothing, and one that is
\* longer than the annuity accepts.
MCInputs == [type : Types, principal : {0, 1, 5, 12}, annualRateBps : {0, 9600, 60000},
             termMonths : {0, 1, 3, 5}]
  \cup [type : {"PMT"}, principal : {12}, annualRateBps : {0}, termMonths : {361}]
MCOriginals ==
  [principal : {7}, interest : {0, 5}, penalties : {0, 3},
   interestWaiverBps : {0, 4000, 10000}, penaltyWaiverBps : {0, 10000},
   newType : Types \ {"PMT"}, newRateBps : {0, 60000}, newTermMonths : {2}]
=============================================================================
