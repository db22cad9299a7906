-------------------------------- MODULE EventLog --------------------------------
(***************************************************************************)
(* What SqlEventStore promises its callers for a stream that is on record: *)
(* a log that grows at its end only, one whole batch at a time, and only   *)
(* for a caller who knew how long it was.                                  *)
(***************************************************************************)
EXTENDS Naturals, Sequences

CONSTANTS
  LogStreams,
  Authors,     \* who appends
  Batches      \* the sizes a batch may have

VARIABLE log   \* by stream, the author of every event

Init == log = [s \in LogStreams |-> <<>>]

AppendBatch(s, a, expected, n) ==
  /\ Len(log[s]) = expected
  /\ log' = [log EXCEPT ![s] = @ \o [i \in 1 .. n |-> a]]

Next ==
  \E s \in LogStreams, a \in Authors, n \in Batches :
    \E expected \in {Len(log[s])} : AppendBatch(s, a, expected, n)

Spec == Init /\ [][Next]_log
=============================================================================
