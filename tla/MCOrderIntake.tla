----------------------------- MODULE MCOrderIntake -----------------------------
EXTENDS OrderIntake, TLC

CONSTANTS k1, k2, ph1, ph2, p1, s1, c1, c2

\* An order of two items for a salesman, and one of another customer that has
\* neither.
MCOrderOf ==
  k1 :> [customerPhone |-> ph1, items |-> <<p1, p1>>, salesmanId |-> s1, totalAmount |-> 3] @@
  k2 :> [customerPhone |-> ph2, items |-> <<>>, salesmanId |-> NoSalesman, totalAmount |-> 2]
MCSalesmen == s1 :> 5
MCPhoneOf == c1 :> ph1 @@ c2 :> ph1
=============================================================================
