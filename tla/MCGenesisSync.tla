---------------------------- MODULE MCGenesisSync ----------------------------
EXTENDS GenesisSync

Pay(f, t, x) == [from |-> f, to |-> t, amount |-> x]

\* Accounts start empty, so it takes a negative amount to fill one: transfers
\* whose outcome depends on the order, and one to oneself.
MCPayload == <<Pay("x", "y", -1), Pay("x", "x", 1), Pay("x", "y", 1)>>
=============================================================================
