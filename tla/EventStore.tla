------------------------------- MODULE EventStore -------------------------------
(***************************************************************************)
(* SqlEventStore.append (core/storage/implementation/SqlEventStore.ts)     *)
(* called concurrently. Each call is one READ COMMITTED transaction: it    *)
(* reads the event_streams row FOR UPDATE, compares versions, inserts the  *)
(* events and updates the row. FOR UPDATE locks a row that exists; a       *)
(* stream without one has version 0 and nothing that could be locked, and  *)
(* append inserts no row for it: `unguarded` remembers such streams.       *)
(***************************************************************************)
EXTENDS Integers, FiniteSets

CONSTANTS
  Streams,
  Registered,   \* streams with an event_streams row from the start
  Writers,      \* calls of append
  Versions,     \* the expectedVersions callers pass
  Batches,      \* the numbers of events they append
  NoRow,        \* the stream has no event_streams row
  Nobody, NoCall

ASSUME StoreAssumption ==
  /\ Registered \subseteq Streams
  /\ Versions \subseteq Nat /\ Batches \subseteq Nat \ {0}
  /\ NoRow \notin Nat /\ Nobody \notin Writers
  /\ NoCall \notin [stream : Streams, expectedVersion : Versions, size : Batches]

VARIABLES
  stream,      \* event_streams: the committed version of each stream
  holder,      \* the transaction that has the row locked
  events,      \* the committed rows of events
  pc,
  call,        \* the arguments of each call
  base,        \* currentVersion
  updated,     \* the transaction's UPDATE has met a row
  unguarded    \* history: streams that were appended to without a row

vars == <<stream, holder, events, pc, call, base, updated, unguarded>>

InTransaction == {"locking", "inserting", "updating", "committing"}
PcValues == InTransaction \cup {"idle", "appended", "conflict", "failed"}
Call == [stream : Streams, expectedVersion : Versions, size : Batches]
Event == [stream : Streams, sequence : Nat, writer : Writers]

-----------------------------------------------------------------------------
Init ==
  /\ stream = [s \in Streams |-> IF s \in Registered THEN 0 ELSE NoRow]
  /\ holder = [s \in Streams |-> Nobody]
  /\ events = {}
  /\ pc = [w \in Writers |-> "idle"]
  /\ call = [w \in Writers |-> NoCall]
  /\ base = [w \in Writers |-> 0]
  /\ updated = [w \in Writers |-> FALSE]
  /\ unguarded = {}

Begin(w, c) ==
  /\ pc[w] = "idle"
  /\ call' = [call EXCEPT ![w] = c]
  /\ pc' = [pc EXCEPT ![w] = "locking"]
  /\ UNCHANGED <<stream, holder, events, base, updated, unguarded>>

Free(s, w) == holder[s] \in {Nobody, w}

\* A transaction that ends gives its row lock back.
Unlocked(w) == [s \in Streams |-> IF holder[s] = w THEN Nobody ELSE holder[s]]

\* SELECT ... FOR UPDATE waits for the lock and then reads what its last
\* holder committed. The comparison follows without an await; a mismatch
\* throws, which rolls back.
NotForUpdate(s, w) == TRUE                                        \* mutant
Lockable(s, w)     == Free(s, w)
currentVersion(s) == IF stream[s] = NoRow THEN 0 ELSE stream[s]
SelectForUpdate(w) ==
  LET s == call[w].stream
      version == currentVersion(s)
      matches == version = call[w].expectedVersion
  IN  /\ pc[w] = "locking"
      /\ Lockable(s, w)
      /\ base' = [base EXCEPT ![w] = version]
      /\ holder' = IF matches /\ stream[s] # NoRow THEN [holder EXCEPT ![s] = w] ELSE holder
      /\ unguarded' = IF matches /\ stream[s] = NoRow THEN unguarded \cup {s} ELSE unguarded
      /\ pc' = [pc EXCEPT ![w] = IF matches THEN "inserting" ELSE "conflict"]
      /\ UNCHANGED <<stream, events, call, updated>>

\* INSERT INTO events: nobody else sees the rows before the commit.
InsertEvents(w) ==
  /\ pc[w] = "inserting"
  /\ pc' = [pc EXCEPT ![w] = "updating"]
  /\ UNCHANGED <<stream, holder, events, call, base, updated, unguarded>>

\* UPDATE event_streams: of no row, when there is still none.
UpdateStream(w) ==
  LET s == call[w].stream
  IN  /\ pc[w] = "updating"
      /\ Free(s, w)
      /\ holder' = IF stream[s] = NoRow THEN holder ELSE [holder EXCEPT ![s] = w]
      /\ updated' = [updated EXCEPT ![w] = stream[s] # NoRow]
      /\ pc' = [pc EXCEPT ![w] = "committing"]
      /\ UNCHANGED <<stream, events, call, base, unguarded>>

\* The rows of the batch, and the version they leave the stream with.
SequenceOf(w, i) == base[w] + i
BatchOf(w) ==
  {[stream |-> call[w].stream, sequence |-> SequenceOf(w, i), writer |-> w] : i \in 1 .. call[w].size}
OneEvent(w) == base[w] + 1                                        \* mutant
newVersion(w) == base[w] + call[w].size

\* COMMIT. The answer may be lost: the caller then only knows that the call
\* failed, although everything it wrote is there.
Commit(w) ==
  /\ pc[w] = "committing"
  /\ events' = events \cup BatchOf(w)
  /\ stream' = IF updated[w] THEN [stream EXCEPT ![call[w].stream] = newVersion(w)] ELSE stream
  /\ holder' = Unlocked(w)
  /\ \E answer \in {"appended", "failed"} : pc' = [pc EXCEPT ![w] = answer]
  /\ UNCHANGED <<call, base, updated, unguarded>>

\* A statement is rejected or the process dies: rolled back, the lock is freed.
KeepLock(w) ==                                                    \* mutant
  /\ pc[w] \in InTransaction
  /\ pc' = [pc EXCEPT ![w] = "failed"]
  /\ UNCHANGED <<stream, holder, events, call, base, updated, unguarded>>
Rollback(w) ==
  /\ pc[w] \in InTransaction
  /\ holder' = Unlocked(w)
  /\ pc' = [pc EXCEPT ![w] = "failed"]
  /\ UNCHANGED <<stream, events, call, base, updated, unguarded>>

\* Whoever puts a stream on record (no file of the repository does).
RegisterStream(s) ==
  /\ stream[s] = NoRow
  /\ stream' = [stream EXCEPT ![s] = 0]
  /\ UNCHANGED <<holder, events, pc, call, base, updated, unguarded>>

Continue(w) == SelectForUpdate(w) \/ InsertEvents(w) \/ UpdateStream(w) \/ Commit(w)

Next ==
  \/ \E w \in Writers, c \in Call : Begin(w, c)
  \/ \E w \in Writers : Continue(w)
  \/ \E w \in Writers : Rollback(w)
  \/ \E s \in Streams : RegisterStream(s)

\* A transaction goes on while its statements succeed and their locks are free.
Spec == Init /\ [][Next]_vars /\ \A w \in Writers : WF_vars(Continue(w))

-----------------------------------------------------------------------------
EventsOf(s) == {e \in events : e.stream = s}
HasCommitted(w) == \E e \in events : e.writer = w

TypeOK ==
  /\ stream \in [Streams -> Nat \cup {NoRow}]
  /\ holder \in [Streams -> Writers \cup {Nobody}]
  /\ events \subseteq Event
  /\ pc \in [Writers -> PcValues]
  /\ call \in [Writers -> Call \cup {NoCall}]
  /\ base \in [Writers -> Nat]
  /\ updated \in [Writers -> BOOLEAN]
  /\ unguarded \subseteq Streams

\* A stream that was on record before its first append is a gapless numbering:
\* one event at each position up to the version of its row, and none beyond,
\* whatever calls overlapped, failed or were rolled back.
VersionCountsEvents ==
  \A s \in Streams \ unguarded : stream[s] # NoRow =>
    /\ {e.sequence : e \in EventsOf(s)} = 1 .. stream[s]
    /\ \A e, f \in EventsOf(s) : e.sequence = f.sequence => e = f

\* An append whose answer was lost can be repeated safely: of all the calls
\* that expected the same version of a stream at most one is ever committed.
OneWinnerPerVersion ==
  \A v, w \in Writers :
    (v # w /\ HasCommitted(v) /\ HasCommitted(w) /\ call[v].stream = call[w].stream
       /\ call[v].stream \notin unguarded)
      => call[v].expectedVersion # call[w].expectedVersion

\* getStream(id, fromVersion) may be polled with the last sequence seen: what
\* is committed later always comes after what could be read before.
ReadersMissNothing ==
  [][\A e \in events' \ events, f \in events :
       (e.stream = f.stream /\ e.stream \notin unguarded) => f.sequence < e.sequence]_vars

\* Nobody waits for a lock for ever: every append comes to an end.
AppendsFinish ==
  \A w \in Writers : pc[w] \in InTransaction ~> pc[w] \in {"appended", "conflict", "failed"}

\* The streams on record implement the abstract log.
AuthorOf(s, i) == (CHOOSE e \in EventsOf(s) : e.sequence = i).writer
Log == INSTANCE EventLog WITH
  LogStreams <- Registered,
  Authors    <- Writers,
  log        <- [s \in Registered |-> [i \in 1 .. stream[s] |-> AuthorOf(s, i)]]
ImplementsLog == Log!Spec
=============================================================================
