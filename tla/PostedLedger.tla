----------------------------- MODULE PostedLedger -----------------------------
(***************************************************************************)
(* What LedgerEngine promises its callers, LEDGER_RULES.md rules 1 and 2:  *)
(* the book is the set of posted entries; an entry enters it whole and     *)
(* balanced, in one step, and never changes or leaves it afterwards.       *)
(***************************************************************************)
CONSTANTS
  Entries,          \* entry ids
  Journals,         \* what an entry may hold
  Unposted,         \* the entry is not in the book
  Balanced(_)       \* the double-entry rule

VARIABLE book

Init == book = [e \in Entries |-> Unposted]

Post(e, j) ==
  /\ book[e] = Unposted
  /\ Balanced(j)
  /\ book' = [book EXCEPT ![e] = j]

Next == \E e \in Entries, j \in Journals : Post(e, j)

Spec == Init /\ [][Next]_book
=============================================================================
