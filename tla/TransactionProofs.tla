--------------------------- MODULE TransactionProofs ---------------------------
(***************************************************************************)
(* Proofs about the transactions the repository runs concurrently: those   *)
(* of SqlEventStore.append (EventStore), for any writers, streams and      *)
(* batches, and, in the second half, those of orders (OrderIntake), for    *)
(* any requests, keys and pools.                                           *)
(***************************************************************************)
EXTENDS EventStore, OrderIntake, SequenceTheorems, TLAPS

(***************************************************************************)
(* Optimistic concurrency: on a stream that was on record before its first *)
(* append, the row lock makes version and events move together.            *)
(***************************************************************************)
Writing == {"inserting", "updating", "committing"}

\* A transaction past its comparison still sees the version it compared with.
Guarded(w) ==
  (pc[w] \in Writing /\ call[w].stream \notin unguarded) =>
    /\ stream[call[w].stream] = base[w] /\ holder[call[w].stream] = w
    /\ base[w] = call[w].expectedVersion
    /\ pc[w] = "committing" => updated[w]

FirstOf(w) == [stream |-> call[w].stream, sequence |-> call[w].expectedVersion + 1, writer |-> w]

\* An event is its writer's, whose call is over, and begins where it expected.
Placed(e) ==
  /\ pc[e.writer] \in {"appended", "failed"} /\ e.stream = call[e.writer].stream
  /\ e.stream \notin unguarded => FirstOf(e.writer) \in events

StoreInv ==
  /\ TypeOK /\ VersionCountsEvents
  /\ \A w \in Writers : Guarded(w) /\ (pc[w] \in InTransaction => call[w] \in Call)
  /\ \A e \in events : Placed(e)
  /\ \A s \in Streams \ unguarded : stream[s] = NoRow => EventsOf(s) = {}
  /\ \A s \in Registered : stream[s] # NoRow /\ s \notin unguarded

-----------------------------------------------------------------------------
LEMMA InitStoreInv == Init => StoreInv
<1> SUFFICES ASSUME Init PROVE StoreInv
  OBVIOUS
<1>1. TypeOK
  BY StoreAssumption DEF Init, TypeOK, PcValues
<1>2. VersionCountsEvents
  BY StoreAssumption DEF Init, VersionCountsEvents, EventsOf
<1>3. \A w \in Writers : Guarded(w) /\ (pc[w] \in InTransaction => call[w] \in Call)
  BY DEF Init, Guarded, Writing, InTransaction
<1>4. \A s \in Registered : stream[s] # NoRow /\ s \notin unguarded
  BY StoreAssumption DEF Init
<1> QED BY <1>1, <1>2, <1>3, <1>4 DEF StoreInv, Init, EventsOf

\* Steps that write no event and no version.
LEMMA QuietStoreInv ==
  ASSUME StoreInv, NEW w \in Writers, TypeOK', UNCHANGED <<stream, events>>,
         unguarded' = unguarded \/ \E s \in Streams : unguarded' = unguarded \cup {s} /\ stream[s] = NoRow,
         \A v \in Writers \ {w} :
           /\ pc'[v] = pc[v] /\ call'[v] = call[v] /\ base'[v] = base[v] /\ updated'[v] = updated[v]
           /\ \A s \in Streams : holder[s] = v => holder'[s] = v,
         Guarded(w)', pc'[w] \in InTransaction => call'[w] \in Call,
         pc[w] \in InTransaction \cup {"idle"}
  PROVE  StoreInv'
<1>1. unguarded \subseteq unguarded' /\ \A s \in Registered : stream'[s] # NoRow /\ s \notin unguarded'
  BY DEF StoreInv
<1>2. VersionCountsEvents' /\ \A s \in Streams \ unguarded' : stream'[s] = NoRow => EventsOf(s)' = {}
  BY <1>1 DEF StoreInv, VersionCountsEvents, EventsOf
<1>3. ASSUME NEW v \in Writers PROVE Guarded(v)' /\ (pc'[v] \in InTransaction => call'[v] \in Call)
  <2>1. CASE v = w
    BY <2>1
  <2>2. CASE v # w
    <3>1. Guarded(v) /\ (pc[v] \in InTransaction => call[v] \in Call)
      BY DEF StoreInv
    <3>2. pc[v] \in Writing => call[v].stream \in Streams
      BY <3>1 DEF Writing, InTransaction, Call
    <3> QED BY <1>1, <2>2, <3>1, <3>2 DEF Guarded
  <2> QED BY <2>1, <2>2
<1>4. ASSUME NEW e \in events' PROVE Placed(e)'
  <2>1. Placed(e) /\ e.writer \in Writers
    BY DEF StoreInv, TypeOK, Event
  <2>2. e.writer # w
    BY <2>1 DEF Placed, InTransaction
  <2> QED BY <1>1, <2>1, <2>2 DEF Placed, FirstOf
<1> QED BY <1>1, <1>2, <1>3, <1>4 DEF StoreInv

LEMMA BeginStoreInv == ASSUME StoreInv, NEW w \in Writers, NEW c \in Call, Begin(w, c) PROVE StoreInv'
<1>1. TypeOK'
  BY DEF StoreInv, TypeOK, Begin, PcValues, InTransaction
<1>2. pc'[w] = "locking" /\ call'[w] = c
  BY DEF StoreInv, TypeOK, Begin
<1> QED BY <1>1, <1>2, QuietStoreInv DEF Begin, Guarded, Writing, StoreInv, TypeOK

LEMMA SelectStoreInv == ASSUME StoreInv, NEW w \in Writers, SelectForUpdate(w) PROVE StoreInv'
<1> DEFINE s == call[w].stream
<1>0. TypeOK /\ pc[w] = "locking" /\ call[w] \in Call /\ s \in Streams
      /\ call[w].expectedVersion \in Nat
  BY StoreAssumption DEF StoreInv, SelectForUpdate, InTransaction, Call
<1>1. currentVersion(s) \in Nat
  BY <1>0 DEF currentVersion, TypeOK
<1>2. TypeOK'
  BY <1>0, <1>1 DEF TypeOK, SelectForUpdate, PcValues, InTransaction
<1>3. Guarded(w)'
  BY <1>0, <1>1, <1>2 DEF Guarded, SelectForUpdate, TypeOK, Writing, currentVersion
<1>4. \A v \in Writers \ {w}, r \in Streams : holder[r] = v => holder'[r] = v
  BY <1>0, StoreAssumption DEF SelectForUpdate, Lockable, Free, TypeOK
<1>5. unguarded' = unguarded \/ \E r \in Streams : unguarded' = unguarded \cup {r} /\ stream[r] = NoRow
  BY <1>0 DEF SelectForUpdate
<1>6. \A v \in Writers \ {w} : pc'[v] = pc[v] /\ base'[v] = base[v]
  BY <1>0 DEF SelectForUpdate, TypeOK
<1>7. UNCHANGED <<stream, events, call, updated>>
  BY DEF SelectForUpdate
<1> HIDE DEF s
<1> QED BY <1>0, <1>2, <1>3, <1>4, <1>5, <1>6, <1>7, QuietStoreInv DEF InTransaction

LEMMA InsertStoreInv == ASSUME StoreInv, NEW w \in Writers, InsertEvents(w) PROVE StoreInv'
<1>1. TypeOK' /\ pc[w] = "inserting" /\ pc'[w] = "updating" /\ call[w] \in Call
  BY DEF StoreInv, TypeOK, InsertEvents, PcValues, InTransaction
<1>2. Guarded(w)'
  BY <1>1 DEF StoreInv, Guarded, Writing, InsertEvents
<1> QED BY <1>1, <1>2, QuietStoreInv DEF InsertEvents, InTransaction, StoreInv, TypeOK

LEMMA UpdateStoreInv == ASSUME StoreInv, NEW w \in Writers, UpdateStream(w) PROVE StoreInv'
<1> DEFINE s == call[w].stream
<1>0. /\ TypeOK /\ Guarded(w) /\ pc[w] = "updating" /\ call[w] \in Call /\ s \in Streams
      /\ pc' = [pc EXCEPT ![w] = "committing"] /\ Free(s, w)
      /\ holder' = IF stream[s] = NoRow THEN holder ELSE [holder EXCEPT ![s] = w]
      /\ updated' = [updated EXCEPT ![w] = stream[s] # NoRow]
      /\ UNCHANGED <<stream, events, call, base, unguarded>>
  BY DEF StoreInv, UpdateStream, InTransaction, Call
<1> HIDE DEF s
<1>1. TypeOK'
  <2>1. (stream[s] # NoRow) \in BOOLEAN
    OBVIOUS
  <2> QED BY <1>0, <2>1 DEF TypeOK, PcValues, InTransaction
<1>2. Guarded(w)'
  <2> SUFFICES ASSUME s \notin unguarded
               PROVE  /\ stream[s] = base[w] /\ holder'[s] = w
                      /\ base[w] = call[w].expectedVersion /\ updated'[w]
    BY <1>0 DEF Guarded, s
  <2>1. stream[s] = base[w] /\ holder[s] = w /\ base[w] = call[w].expectedVersion
    BY <1>0 DEF Guarded, Writing, s
  <2>2. stream[s] # NoRow
    BY <1>0, <2>1, StoreAssumption DEF TypeOK
  <2>3. updated'[w] = TRUE
    BY <1>0, <2>2 DEF TypeOK
  <2> QED BY <1>0, <2>1, <2>2, <2>3 DEF TypeOK
<1>3. \A v \in Writers \ {w}, r \in Streams : holder[r] = v => holder'[r] = v
  BY <1>0, StoreAssumption DEF Free, TypeOK
<1>4. \A v \in Writers \ {w} : pc'[v] = pc[v] /\ updated'[v] = updated[v]
  BY <1>0 DEF TypeOK
<1> QED BY <1>0, <1>1, <1>2, <1>3, <1>4, QuietStoreInv DEF InTransaction

LEMMA RollbackStoreInv == ASSUME StoreInv, NEW w \in Writers, Rollback(w) PROVE StoreInv'
<1>1. TypeOK' /\ pc'[w] = "failed"
  BY DEF StoreInv, TypeOK, Rollback, PcValues, Unlocked
<1>2. \A v \in Writers \ {w}, r \in Streams : holder[r] = v => holder'[r] = v
  BY DEF Rollback, Unlocked
<1> QED BY <1>1, <1>2, QuietStoreInv DEF Rollback, Guarded, Writing, InTransaction, StoreInv, TypeOK

LEMMA RegisterStoreInv == ASSUME StoreInv, NEW s \in Streams, RegisterStream(s) PROVE StoreInv'
<1>0. /\ TypeOK /\ stream[s] = NoRow /\ stream' = [stream EXCEPT ![s] = 0]
      /\ UNCHANGED <<holder, events, pc, call, base, updated, unguarded>>
  BY DEF StoreInv, RegisterStream
<1>1. TypeOK'
  BY <1>0 DEF TypeOK
<1>2. VersionCountsEvents' /\ \A r \in Streams \ unguarded : stream'[r] = NoRow => EventsOf(r) = {}
  BY <1>0, StoreAssumption DEF StoreInv, VersionCountsEvents, EventsOf, TypeOK
<1>3. ASSUME NEW w \in Writers PROVE Guarded(w)'
  BY <1>0, StoreAssumption DEF StoreInv, Guarded, TypeOK
<1>4. \A r \in Registered : stream'[r] # NoRow
  BY <1>0, StoreAssumption DEF StoreInv, TypeOK
<1> QED BY <1>0, <1>1, <1>2, <1>3, <1>4 DEF StoreInv, Placed, FirstOf, EventsOf

-----------------------------------------------------------------------------
\* What a commit adds to a stream on record, and where.
LEMMA CommitExtends ==
  ASSUME StoreInv, NEW w \in Writers, Commit(w), call[w].stream \notin unguarded
  PROVE  LET s == call[w].stream IN
         /\ s \in Streams /\ stream[s] = base[w] /\ base[w] \in Nat /\ stream[s] # NoRow
         /\ base[w] = call[w].expectedVersion
         /\ call[w].size \in Nat \ {0} /\ call[w].size \in Batches
         /\ stream' = [stream EXCEPT ![s] = base[w] + call[w].size]
         /\ EventsOf(s)' = EventsOf(s) \cup BatchOf(w)
         /\ {e.sequence : e \in EventsOf(s)} = 1 .. base[w]
         /\ \A e \in BatchOf(w) : e \in Event /\ e.sequence \in base[w] + 1 .. base[w] + call[w].size
                                  /\ e.writer = w
         /\ \A i \in base[w] + 1 .. base[w] + call[w].size :
              [stream |-> s, sequence |-> i, writer |-> w] \in BatchOf(w)
<1> DEFINE s == call[w].stream
<1>0. TypeOK /\ Guarded(w) /\ pc[w] = "committing" /\ call[w] \in Call
  BY DEF StoreInv, Commit, InTransaction
<1>1. /\ s \in Streams /\ call[w].size \in Nat \ {0} /\ call[w].size \in Batches
      /\ base[w] \in Nat /\ stream[s] = base[w] /\ base[w] = call[w].expectedVersion
      /\ updated[w]
  BY <1>0, StoreAssumption DEF Call, Guarded, Writing, TypeOK
<1>2. stream[s] # NoRow
  BY <1>1, StoreAssumption
<1>3. {e.sequence : e \in EventsOf(s)} = 1 .. base[w]
  BY <1>1, <1>2 DEF StoreInv, VersionCountsEvents
<1>4. stream' = [stream EXCEPT ![s] = base[w] + call[w].size]
  BY <1>1 DEF Commit, newVersion
<1>5. EventsOf(s)' = EventsOf(s) \cup BatchOf(w)
  BY DEF Commit, EventsOf, BatchOf
<1>6. \A e \in BatchOf(w) : e \in Event /\ e.sequence \in base[w] + 1 .. base[w] + call[w].size
                           /\ e.writer = w
  BY <1>1 DEF BatchOf, SequenceOf, Event
<1>7. ASSUME NEW i \in base[w] + 1 .. base[w] + call[w].size
      PROVE  [stream |-> s, sequence |-> i, writer |-> w] \in BatchOf(w)
  <2>1. i - base[w] \in 1 .. call[w].size /\ base[w] + (i - base[w]) = i
    BY <1>1
  <2> QED BY <2>1 DEF BatchOf, SequenceOf
<1> QED BY <1>1, <1>2, <1>3, <1>4, <1>5, <1>6, <1>7

LEMMA CommitStoreInv == ASSUME StoreInv, NEW w \in Writers, Commit(w) PROVE StoreInv'
<1> DEFINE s == call[w].stream
<1>0. /\ TypeOK /\ Guarded(w) /\ pc[w] = "committing" /\ call[w] \in Call /\ s \in Streams
      /\ call[w].size \in Nat \ {0} /\ base[w] \in Nat
      /\ UNCHANGED <<call, base, updated, unguarded>>
      /\ events' = events \cup BatchOf(w) /\ holder' = Unlocked(w)
      /\ stream' = IF updated[w] THEN [stream EXCEPT ![s] = newVersion(w)] ELSE stream
  BY StoreAssumption DEF StoreInv, Commit, InTransaction, Call, TypeOK
<1>1. /\ pc' \in [Writers -> PcValues] /\ pc'[w] \in {"appended", "failed"}
      /\ \A v \in Writers \ {w} : pc'[v] = pc[v]
  BY <1>0 DEF Commit, TypeOK, PcValues
<1>2. \A e \in BatchOf(w) : e \in Event /\ e.stream = s /\ e.writer = w
  BY <1>0 DEF BatchOf, SequenceOf, Event
<1>3. newVersion(w) \in Nat
  BY <1>0 DEF newVersion
<1>4. TypeOK'
  BY <1>0, <1>1, <1>2, <1>3 DEF TypeOK, Unlocked
<1>c. s' = s
  BY <1>0
<1>5. ASSUME NEW r \in Streams, r # s PROVE stream'[r] = stream[r] /\ EventsOf(r)' = EventsOf(r)
  <2>1. \A e \in BatchOf(w) : e.stream # r
    BY <1>2, <1>5
  <2> QED BY <1>0, <1>5, <2>1 DEF TypeOK, EventsOf
<1>6. ASSUME s \notin unguarded
      PROVE  /\ {e.sequence : e \in EventsOf(s)'} = 1 .. stream'[s] /\ stream'[s] # NoRow
             /\ \A e, f \in EventsOf(s)' : e.sequence = f.sequence => e = f
             /\ FirstOf(w) \in events'
  <2> DEFINE b == base[w]
             n == call[w].size
  <2>1. /\ stream[s] = b /\ b \in Nat /\ stream[s] # NoRow /\ b = call[w].expectedVersion
        /\ n \in Nat \ {0} /\ stream' = [stream EXCEPT ![s] = b + n]
        /\ EventsOf(s)' = EventsOf(s) \cup BatchOf(w)
        /\ {e.sequence : e \in EventsOf(s)} = 1 .. b
        /\ \A e \in BatchOf(w) : e.sequence \in b + 1 .. b + n
        /\ \A i \in b + 1 .. b + n : [stream |-> s, sequence |-> i, writer |-> w] \in BatchOf(w)
    BY <1>6, CommitExtends
  <2>2. stream'[s] = b + n /\ stream'[s] # NoRow
    BY <1>0, <2>1, StoreAssumption DEF TypeOK
  <2>3. \A e, f \in EventsOf(s) : e.sequence = f.sequence => e = f
    BY <1>0, <1>6, <2>1 DEF StoreInv, VersionCountsEvents
  <2>4. \A e \in EventsOf(s) : e.sequence \in 1 .. b
    BY <2>1
  <2>5. \A e, f \in BatchOf(w) : e.sequence = f.sequence => e = f
    BY DEF BatchOf
  <2> HIDE DEF b, n
  <2>6. \A e, f \in EventsOf(s)' : e.sequence = f.sequence => e = f
    BY <2>1, <2>3, <2>4, <2>5
  <2>7. \A e \in EventsOf(s)' : e.sequence \in 1 .. b + n
    BY <2>1, <2>4
  <2>8. ASSUME NEW i \in 1 .. b + n PROVE \E e \in EventsOf(s)' : e.sequence = i
    <3>1. CASE i \in 1 .. b
      BY <2>1, <3>1
    <3>2. CASE i \in b + 1 .. b + n
      <4>1. [stream |-> s, sequence |-> i, writer |-> w] \in EventsOf(s)'
        BY <2>1, <3>2
      <4> QED BY <4>1
    <3> QED BY <2>1, <3>1, <3>2
  <2>9. FirstOf(w) \in events'
    <3>1. b + 1 \in b + 1 .. b + n
      BY <2>1
    <3> QED BY <1>0, <2>1, <3>1 DEF FirstOf
  <2>10. {e.sequence : e \in EventsOf(s)'} = 1 .. b + n
    BY <2>7, <2>8
  <2> QED BY <2>2, <2>6, <2>9, <2>10
<1> HIDE DEF s
<1>7. VersionCountsEvents'
  <2> SUFFICES ASSUME NEW r \in Streams \ unguarded, stream'[r] # NoRow
               PROVE  /\ {e.sequence : e \in EventsOf(r)'} = 1 .. stream'[r]
                      /\ \A e, f \in EventsOf(r)' : e.sequence = f.sequence => e = f
    BY <1>0 DEF VersionCountsEvents
  <2>1. CASE r = s
    BY <1>6, <1>c, <2>1 DEF EventsOf
  <2>2. CASE r # s
    BY <1>5, <2>2 DEF StoreInv, VersionCountsEvents
  <2> QED BY <2>1, <2>2
<1>8. \A r \in Streams \ unguarded' : stream'[r] = NoRow => EventsOf(r)' = {}
  <2> SUFFICES ASSUME NEW r \in Streams \ unguarded, stream'[r] = NoRow PROVE EventsOf(r)' = {}
    BY <1>0
  <2> QED BY <1>5, <1>6 DEF StoreInv
<1>9. ASSUME NEW v \in Writers PROVE Guarded(v)' /\ (pc'[v] \in InTransaction => call'[v] \in Call)
  <2>1. CASE v = w
    BY <1>1, <2>1 DEF Guarded, Writing, InTransaction
  <2>2. CASE v # w
    <3>1. Guarded(v) /\ (pc[v] \in InTransaction => call[v] \in Call) /\ pc'[v] = pc[v]
      BY <1>1, <2>2 DEF StoreInv
    <3> SUFFICES ASSUME pc[v] \in Writing, call[v].stream \notin unguarded
                 PROVE  stream'[call[v].stream] = base[v] /\ holder'[call[v].stream] = v
      BY <1>0, <3>1 DEF Guarded
    <3>2. /\ call[v].stream \in Streams /\ stream[call[v].stream] = base[v]
          /\ holder[call[v].stream] = v
      BY <3>1 DEF Guarded, Writing, InTransaction, Call
    <3>3. call[v].stream # s
      BY <1>0, <2>2, <3>2 DEF Guarded, Writing, s
    <3> QED BY <1>0, <1>5, <2>2, <3>2, <3>3 DEF Unlocked
  <2> QED BY <2>1, <2>2
<1>10. ASSUME NEW e \in events' PROVE Placed(e)'
  <2>1. CASE e \in BatchOf(w)
    BY <1>0, <1>1, <1>2, <1>6, <2>1 DEF Placed, s, FirstOf
  <2>2. CASE e \in events
    <3>1. Placed(e) /\ e.writer \in Writers
      BY <2>2 DEF StoreInv, TypeOK, Event
    <3>2. e.writer # w
      BY <1>0, <3>1 DEF Placed
    <3> QED BY <1>0, <1>1, <3>1, <3>2 DEF Placed, FirstOf
  <2> QED BY <1>0, <2>1, <2>2
<1>11. \A r \in Registered : stream'[r] # NoRow /\ r \notin unguarded'
  <2> SUFFICES ASSUME NEW r \in Registered PROVE stream'[r] # NoRow /\ r \notin unguarded
    BY <1>0
  <2>1. stream[r] # NoRow /\ r \notin unguarded /\ r \in Streams
    BY StoreAssumption DEF StoreInv
  <2> QED BY <1>5, <1>6, <2>1
<1> QED BY <1>4, <1>7, <1>8, <1>9, <1>10, <1>11 DEF StoreInv

-----------------------------------------------------------------------------
THEOREM StoreInvariant == Spec => []StoreInv
<1>1. StoreInv /\ [Next]_vars => StoreInv'
  <2>1. ASSUME StoreInv, UNCHANGED vars PROVE StoreInv'
    BY <2>1 DEF vars, StoreInv, TypeOK, VersionCountsEvents, EventsOf, Guarded, Placed, FirstOf
  <2> QED BY <2>1, BeginStoreInv, SelectStoreInv, InsertStoreInv, UpdateStoreInv, CommitStoreInv,
             RollbackStoreInv, RegisterStoreInv DEF Next, Continue
<1> QED BY <1>1, InitStoreInv, PTL DEF Spec

\* A stream on record before its first append is a gapless numbering.
THEOREM VersionsCount == Spec => []VersionCountsEvents
<1>1. StoreInv => VersionCountsEvents
  BY DEF StoreInv
<1> QED BY <1>1, StoreInvariant, PTL

\* Of all calls that expect one version of a stream at most one is committed.
THEOREM OnlyOneWinner == Spec => []OneWinnerPerVersion
<1>1. StoreInv => OneWinnerPerVersion
  <2> SUFFICES ASSUME StoreInv, NEW v \in Writers, NEW w \in Writers, v # w,
                      HasCommitted(v), HasCommitted(w), call[v].stream = call[w].stream,
                      call[v].stream \notin unguarded,
                      call[v].expectedVersion = call[w].expectedVersion
               PROVE  FALSE
    BY DEF OneWinnerPerVersion
  <2> DEFINE s == call[v].stream
  <2>1. FirstOf(v) \in events /\ FirstOf(w) \in events
    BY DEF HasCommitted, StoreInv, Placed
  <2>2. FirstOf(v) \in EventsOf(s) /\ FirstOf(w) \in EventsOf(s) /\ s \in Streams
    BY <2>1 DEF EventsOf, FirstOf, StoreInv, TypeOK, Event
  <2>3. stream[s] # NoRow
    BY <2>2 DEF StoreInv
  <2>4. FirstOf(v) = FirstOf(w)
    <3>1. \A e, f \in EventsOf(s) : e.sequence = f.sequence => e = f
      BY <2>2, <2>3 DEF StoreInv, VersionCountsEvents
    <3>2. FirstOf(v).sequence = FirstOf(w).sequence
      BY DEF FirstOf
    <3> QED BY <2>2, <3>1, <3>2
  <2>5. FirstOf(v).writer = v /\ FirstOf(w).writer = w
    BY DEF FirstOf
  <2> QED BY <2>4, <2>5
<1> QED BY <1>1, StoreInvariant, PTL

\* A reader who polls from the last sequence seen misses no event.
THEOREM NothingIsMissed == Spec => ReadersMissNothing
<1> DEFINE Later == \A e \in events' \ events, f \in events :
             (e.stream = f.stream /\ e.stream \notin unguarded) => f.sequence < e.sequence
<1>1. ASSUME StoreInv, [Next]_vars PROVE Later
  <2>1. ASSUME NEW w \in Writers, Commit(w) PROVE Later
    <3> SUFFICES ASSUME NEW e \in events' \ events, NEW f \in events,
                        e.stream = f.stream, e.stream \notin unguarded
                 PROVE  f.sequence < e.sequence
      OBVIOUS
    <3>1. e \in BatchOf(w) /\ e.stream = call[w].stream
      BY <2>1 DEF Commit, BatchOf
    <3>2. /\ base[w] \in Nat /\ call[w].size \in Nat
          /\ e.sequence \in base[w] + 1 .. base[w] + call[w].size
          /\ {x.sequence : x \in EventsOf(call[w].stream)} = 1 .. base[w]
      BY <1>1, <2>1, <3>1, CommitExtends
    <3>3. f.sequence \in 1 .. base[w]
      BY <3>1, <3>2 DEF EventsOf
    <3> QED BY <3>2, <3>3
  <2>2. CASE UNCHANGED events
    BY <2>2
  <2>3. ASSUME NEW w \in Writers, NEW c \in Call, Begin(w, c) PROVE UNCHANGED events
    BY <2>3 DEF Begin
  <2>4. ASSUME NEW w \in Writers,
               SelectForUpdate(w) \/ InsertEvents(w) \/ UpdateStream(w) \/ Rollback(w)
        PROVE  UNCHANGED events
    BY <2>4 DEF SelectForUpdate, InsertEvents, UpdateStream, Rollback
  <2>5. ASSUME NEW s \in Streams, RegisterStream(s) PROVE UNCHANGED events
    BY <2>5 DEF RegisterStream
  <2> QED BY <1>1, <2>1, <2>2, <2>3, <2>4, <2>5 DEF Next, Continue, vars
<1>2. StoreInv /\ [Next]_vars => [Later]_vars
  BY <1>1
<1> QED BY <1>2, StoreInvariant, PTL DEF Spec, ReadersMissNothing

-----------------------------------------------------------------------------
shown == [s \in Registered |-> [i \in 1 .. stream[s] |-> AuthorOf(s, i)]]

\* The author of a position is the writer of its one event.
LEMMA AuthorIs ==
  ASSUME VersionCountsEvents, NEW s \in Streams \ unguarded, stream[s] # NoRow,
         NEW e \in EventsOf(s)
  PROVE  AuthorOf(s, e.sequence) = e.writer
<1>1. \A f \in EventsOf(s) : f.sequence = e.sequence => f = e
  BY DEF VersionCountsEvents
<1>2. (CHOOSE f \in EventsOf(s) : f.sequence = e.sequence) = e
  BY <1>1
<1> QED BY <1>2 DEF AuthorOf

\* A commit to a stream on record appends its whole batch to the log.
LEMMA CommitAppends ==
  ASSUME StoreInv, StoreInv', NEW w \in Writers, Commit(w), call[w].stream \in Registered
  PROVE  Log!Next
<1> DEFINE s == call[w].stream
           b == base[w]
           n == call[w].size
<1>1. s \in Streams /\ s \notin unguarded /\ unguarded' = unguarded /\ s' = s
  BY StoreAssumption DEF StoreInv, Commit
<1>2. /\ stream[s] = b /\ b \in Nat /\ stream[s] # NoRow /\ n \in Nat \ {0} /\ n \in Batches
      /\ stream' = [stream EXCEPT ![s] = b + n]
      /\ EventsOf(s)' = EventsOf(s) \cup BatchOf(w)
      /\ {e.sequence : e \in EventsOf(s)} = 1 .. b
      /\ \A i \in b + 1 .. b + n : [stream |-> s, sequence |-> i, writer |-> w] \in BatchOf(w)
  BY <1>1, CommitExtends
<1>3. stream \in [Streams -> Nat \cup {NoRow}]
  BY DEF StoreInv, TypeOK
<1>4. VersionCountsEvents /\ VersionCountsEvents' /\ stream'[s] = b + n /\ stream'[s] # NoRow
  BY <1>1, <1>2, <1>3, StoreAssumption DEF StoreInv
<1>5. ASSUME NEW i \in 1 .. b PROVE AuthorOf(s, i)' = AuthorOf(s, i)
  <2>1. PICK e \in EventsOf(s) : e.sequence = i
    BY <1>2
  <2>2. AuthorOf(s, i) = e.writer
    BY <1>1, <1>2, <1>4, <2>1, AuthorIs
  <2>3. e \in EventsOf(s)' /\ s \in (Streams \ unguarded)'
    BY <1>1, <1>2, <2>1
  <2>4. (CHOOSE f \in EventsOf(s)' : f.sequence = i) = e
    <3>1. \A f \in EventsOf(s)' : f.sequence = i => f = e
      BY <1>1, <1>4, <2>1, <2>3 DEF VersionCountsEvents
    <3> QED BY <2>1, <2>3, <3>1
  <2> QED BY <2>2, <2>4 DEF AuthorOf
<1>6. ASSUME NEW i \in b + 1 .. b + n PROVE AuthorOf(s, i)' = w
  <2> DEFINE e == [stream |-> s, sequence |-> i, writer |-> w]
  <2>1. e \in EventsOf(s)'
    BY <1>2
  <2>2. (CHOOSE f \in EventsOf(s)' : f.sequence = i) = e
    <3>1. \A f \in EventsOf(s)' : f.sequence = i => f = e
      BY <1>1, <1>4, <2>1 DEF VersionCountsEvents
    <3> QED BY <2>1, <3>1
  <2>3. e.writer = w
    OBVIOUS
  <2> QED BY <2>2, <2>3 DEF AuthorOf
<1>7. ASSUME NEW r \in Registered, r # s PROVE shown'[r] = shown[r]
  <2>1. stream'[r] = stream[r]
    BY <1>2, <1>3, <1>7, StoreAssumption
  <2>2. EventsOf(r)' = EventsOf(r)
    <3>1. \A e \in BatchOf(w) : e.stream # r
      BY <1>7 DEF BatchOf
    <3> QED BY <3>1 DEF Commit, EventsOf
  <2> QED BY <2>1, <2>2 DEF shown, AuthorOf
<1> HIDE DEF s, b, n
<1>8. shown[s] = [i \in 1 .. b |-> AuthorOf(s, i)] /\ Len(shown[s]) = b /\ s \in Registered
  BY <1>2 DEF shown, s
<1>9. shown'[s] = [i \in 1 .. b + n |-> AuthorOf(s, i)']
  BY <1>1, <1>4, <1>8 DEF shown
<1>10. shown'[s] = shown[s] \o [i \in 1 .. n |-> w]
  <2> DEFINE t == [i \in 1 .. n |-> w]
  <2>1. Len(t) = n /\ n \in Nat
    BY <1>2
  <2>2. shown[s] \o t = [i \in 1 .. b + n |-> IF i <= b THEN shown[s][i] ELSE t[i - b]]
    BY <1>2, <1>8, <2>1
  <2>3. ASSUME NEW i \in 1 .. b + n
        PROVE  AuthorOf(s, i)' = IF i <= b THEN shown[s][i] ELSE t[i - b]
    BY <1>2, <1>5, <1>6, <1>8, <2>3
  <2> QED BY <1>9, <2>2, <2>3
<1>11. shown' = [shown EXCEPT ![s] = @ \o [i \in 1 .. n |-> w]]
  BY <1>7, <1>8, <1>10 DEF shown
<1>12. PICK r \in Registered, k \in Batches, x \in Nat : r = s /\ k = n /\ x = b
  BY <1>2, <1>8
<1>13. Log!AppendBatch(r, w, x, k) /\ x \in {Len(shown[r])}
  BY <1>8, <1>11, <1>12 DEF Log!AppendBatch, shown
<1> QED BY <1>13 DEF Log!Next, shown

\* The streams on record implement the abstract log: to a reader of committed
\* rows an append happens at once, at the end, and wholly.
THEOREM StoreImplementsLog == Spec => ImplementsLog
<1>1. Init => Log!Init
  <2> SUFFICES ASSUME Init PROVE shown = [s \in Registered |-> <<>>]
    BY DEF Log!Init, shown
  <2>1. \A s \in Registered : stream[s] = 0
    BY StoreAssumption DEF Init
  <2> QED BY <2>1 DEF shown
<1>2. ASSUME StoreInv, StoreInv', [Next]_vars PROVE [Log!Next]_shown
  <2>1. CASE \A s \in Registered : stream'[s] = stream[s] /\ EventsOf(s)' = EventsOf(s)
    <3>1. ASSUME NEW s \in Registered PROVE shown'[s] = shown[s]
      <4>1. stream'[s] = stream[s] /\ EventsOf(s)' = EventsOf(s)
        BY <2>1
      <4>2. \A i : AuthorOf(s, i)' = AuthorOf(s, i)
        BY <4>1 DEF AuthorOf
      <4> QED BY <4>1, <4>2 DEF shown
    <3>2. shown' = shown
      BY <3>1 DEF shown
    <3> QED BY <3>2
  <2>2. ASSUME NEW w \in Writers, Commit(w), call[w].stream \notin Registered
        PROVE  \A s \in Registered : stream'[s] = stream[s] /\ EventsOf(s)' = EventsOf(s)
    <3> SUFFICES ASSUME NEW s \in Registered
                 PROVE  stream'[s] = stream[s] /\ EventsOf(s)' = EventsOf(s)
      OBVIOUS
    <3>1. \A e \in BatchOf(w) : e.stream # s
      BY <2>2 DEF BatchOf
    <3> QED BY <1>2, <2>2, <3>1, StoreAssumption DEF Commit, EventsOf, StoreInv, TypeOK
  <2>3. CASE UNCHANGED <<stream, events>>
    BY <2>1, <2>3 DEF EventsOf
  <2>4. ASSUME NEW w \in Writers, NEW c \in Call, Begin(w, c) PROVE UNCHANGED <<stream, events>>
    BY <2>4 DEF Begin
  <2>5. ASSUME NEW w \in Writers,
               SelectForUpdate(w) \/ InsertEvents(w) \/ UpdateStream(w) \/ Rollback(w)
        PROVE  UNCHANGED <<stream, events>>
    BY <2>5 DEF SelectForUpdate, InsertEvents, UpdateStream, Rollback
  <2>6. ASSUME NEW s \in Streams, RegisterStream(s)
        PROVE  \A r \in Registered : stream'[r] = stream[r] /\ EventsOf(r)' = EventsOf(r)
    BY <1>2, <2>6, StoreAssumption DEF RegisterStream, EventsOf, StoreInv, TypeOK
  <2>7. CASE UNCHANGED vars
    BY <2>3, <2>7 DEF vars
  <2> QED BY <1>2, <2>1, <2>2, <2>3, <2>4, <2>5, <2>6, <2>7, CommitAppends DEF Next, Continue
<1>3. shown = [s \in Registered |-> [i \in 1 .. stream[s] |-> AuthorOf(s, i)]]
  BY DEF shown
<1>4. StoreInv /\ StoreInv' /\ [Next]_vars
        => [Log!Next]_([s \in Registered |-> [i \in 1 .. stream[s] |-> AuthorOf(s, i)]])
  BY <1>2 DEF shown
<1> QED BY <1>1, <1>4, StoreInvariant, PTL DEF Spec, ImplementsLog, Log!Spec

-----------------------------------------------------------------------------
\* Orders, their keys and their customers.

OpenTx == {"upsert", "order", "items", "sale", "commission", "commit"}
Places == OpenTx \cup {"idle", "refused", "allowed", "register", "done", "failed"}
TypeInv ==
  /\ at \in [Requests -> Places]
  /\ DOMAIN keyOf = Requests /\ DOMAIN tx = Requests
  /\ item \in [Requests -> Nat]
  /\ post \in [Calls -> {"idle", "connected", "created", "persisted: false"}]

\* What a transaction has written so far, by the statement it is at.
Buyer(r) == CustomerRow(Order(r).customerPhone)
Sale(r) == EntryRow(r, "SALE", 100 * Order(r).totalAmount)
Items(r, n) == {ItemRow(r, i) : i \in 1 .. n}
AllItems(r) == Items(r, Len(Order(r).items))
Written(r) ==
  /\ at[r] # "idle" => keyOf[r] \in Keys
  /\ at[r] \in {"idle", "allowed", "upsert", "order"} => item[r] = 1
  /\ at[r] = "upsert" => tx[r] = {}
  /\ at[r] \notin OpenTx => tx[r] = {}
  /\ at[r] = "order" => tx[r] = {Buyer(r)}
  /\ at[r] = "items" => /\ item[r] \in 1 .. Len(Order(r).items)
                        /\ tx[r] = {Buyer(r), OrderRow(r)} \cup Items(r, item[r] - 1)
  /\ at[r] = "sale" => tx[r] = {Buyer(r), OrderRow(r)} \cup AllItems(r)
  /\ at[r] = "commission" => /\ Order(r).salesmanId # NoSalesman
                             /\ tx[r] = {Buyer(r), OrderRow(r), Sale(r)} \cup AllItems(r)
  /\ at[r] = "commit" => tx[r] = {Buyer(r)} \cup Whole(r)

\* What is committed of a request: nothing, or all of it.
Recorded(r) ==
  /\ \/ Rows(r) = {} /\ at[r] \notin {"register", "done"}
     \/ /\ Rows(r) = Whole(r) /\ Buyer(r) \in db
        /\ at[r] \in {"register", "done"} \/ (at[r] = "failed" /\ keyOf[r] \in excused)
  /\ at[r] = "done" => KeyRow(keyOf[r]) \in db

\* A key that is not excused is in the hands of one request, from allow on.
KeyInv(k) ==
  /\ isDuplicate(k) => Ordered(k) # {}
  /\ k \notin excused => \A q, r \in Busy(k) \cup Ordered(k) : q = r

CallInv ==
  \A c, d \in Calls : post[c] = "created" =>
    /\ CustomerRow(PhoneOf[c]) \in db
    /\ c # d /\ post[d] = "created" => PhoneOf[d] # PhoneOf[c]

AllWritten == \A r \in Requests : Written(r)
AllRecorded == \A r \in Requests : Recorded(r)
KeysInv == \A k \in Keys : KeyInv(k)
OrderInv == TypeInv /\ AllWritten /\ AllRecorded /\ KeysInv /\ CallInv

-----------------------------------------------------------------------------
\* Rows of different tables, and of different requests, are different.
LEMMA RowFields ==
  /\ \A k : KeyRow(k)[1] = "idempotency_keys" /\ KeyRow(k)[2] = k
  /\ \A p : CustomerRow(p)[1] = "customers" /\ CustomerRow(p)[2] = p
  /\ \A r : OrderRow(r)[1] = "orders" /\ OrderRow(r)[2] = r
  /\ \A r, i : ItemRow(r, i)[1] = "order_items" /\ ItemRow(r, i)[2] = r
  /\ \A r, t, a : EntryRow(r, t, a)[1] = "ledger_entries" /\ EntryRow(r, t, a)[2] = r
BY DEF KeyRow, CustomerRow, OrderRow, ItemRow, EntryRow

LEMMA WholeIsOwn ==
  ASSUME NEW r
  PROVE  /\ OrderRow(r) \in Whole(r)
         /\ \A x \in Whole(r) :
              x[1] \in {"orders", "order_items", "ledger_entries"} /\ x[2] = r
BY RowFields DEF Whole

LEMMA ItemsOfOrder ==
  ASSUME NEW r \in Requests, keyOf[r] \in Keys
  PROVE  /\ Len(Order(r).items) \in Nat
         /\ Order(r).items = <<>> <=> Len(Order(r).items) = 0
         /\ DOMAIN Order(r).items = 1 .. Len(Order(r).items)
<1>1. Order(r).items \in Seq(Products)
  BY OrdersAssumption DEF Order
<1> QED BY <1>1, EmptySeq, LenProperties

\* What others do leaves the transaction and the rows of a request alone.
LEMMA OtherRequest ==
  ASSUME NEW q \in Requests, Written(q), Recorded(q),
         at'[q] = at[q], keyOf'[q] = keyOf[q], item'[q] = item[q], tx'[q] = tx[q],
         db \subseteq db', Rows(q)' = Rows(q), excused \subseteq excused'
  PROVE  Written(q)' /\ Recorded(q)'
<1>1. Order(q)' = Order(q)
  BY DEF Order
<1>2. /\ Buyer(q)' = Buyer(q) /\ Sale(q)' = Sale(q) /\ AllItems(q)' = AllItems(q)
      /\ Whole(q)' = Whole(q)
  BY <1>1 DEF Buyer, Sale, AllItems, Whole
<1>3. Written(q)'
  BY <1>1, <1>2 DEF Written, Items
<1>4. Recorded(q)'
  BY <1>1, <1>2 DEF Recorded
<1> QED BY <1>3, <1>4

\* A statement of a transaction: nothing is committed, and its request stays busy.
LEMMA StatementKeeps ==
  ASSUME OrderInv, NEW r \in Requests, TypeInv', Written(r)',
         UNCHANGED <<db, keyOf, excused, post>>,
         at[r] \in OpenTx \cup {"allowed"}, at'[r] \in OpenTx,
         \A q \in Requests \ {r} :
           at'[q] = at[q] /\ item'[q] = item[q] /\ tx'[q] = tx[q]
  PROVE  OrderInv'
<1>1. \A q \in Requests : Rows(q)' = Rows(q)
  BY DEF Rows
<1>2. \A q \in Requests \ {r} : Written(q)' /\ Recorded(q)'
  BY <1>1, OtherRequest DEF OrderInv, AllWritten, AllRecorded
<1>3. Recorded(r)'
  BY <1>1 DEF OrderInv, AllRecorded, Recorded, OpenTx
<1>4. KeysInv'
  <2> SUFFICES ASSUME NEW k \in Keys PROVE KeyInv(k)'
    BY DEF KeysInv
  <2>1. Busy(k)' = Busy(k)
    BY DEF Busy, InTx, OpenTx
  <2>2. Ordered(k)' = Ordered(k)
    BY DEF Ordered
  <2> QED BY <2>1, <2>2 DEF OrderInv, KeysInv, KeyInv, isDuplicate
<1>5. CallInv'
  BY DEF OrderInv, CallInv
<1> QED BY <1>2, <1>3, <1>4, <1>5 DEF OrderInv, AllWritten, AllRecorded

LEMMA StatementInv ==
  ASSUME OrderInv, NEW r \in Requests,
         \/ begin(r) \/ UpsertCustomer(r) \/ InsertOrder(r) \/ InsertItem(r)
         \/ InsertSale(r) \/ InsertCommission(r)
  PROVE  OrderInv'
<1>1. TypeInv /\ Written(r)
  BY DEF OrderInv, AllWritten
<1>2. /\ UNCHANGED <<db, keyOf, excused, post>>
      /\ at[r] \in OpenTx \cup {"allowed"} /\ at'[r] \in OpenTx
      /\ \A q \in Requests \ {r} :
           at'[q] = at[q] /\ item'[q] = item[q] /\ tx'[q] = tx[q]
  BY <1>1 DEF TypeInv, OpenTx, begin, UpsertCustomer, InsertOrder, InsertItem, InsertSale,
     InsertCommission, Insert, To
<1>3. TypeInv'
  <2>1. at' \in [Requests -> Places]
    BY <1>1 DEF TypeInv, Places, OpenTx, begin, UpsertCustomer, InsertOrder, InsertItem,
       InsertSale, InsertCommission, To
  <2>2. DOMAIN tx' = Requests
    BY <1>1 DEF TypeInv, begin, UpsertCustomer, InsertOrder, InsertItem, InsertSale,
       InsertCommission, Insert
  <2>3. item' \in [Requests -> Nat]
    <3>1. item' = item \/ item' = [item EXCEPT ![r] = item[r] + 1]
      BY DEF begin, UpsertCustomer, InsertOrder, InsertItem, InsertSale, InsertCommission
    <3>2. item \in [Requests -> Nat]
      BY <1>1 DEF TypeInv
    <3>3. item[r] + 1 \in Nat
      BY <3>2
    <3> QED BY <3>1, <3>2, <3>3
  <2> QED BY <1>1, <1>2, <2>1, <2>2, <2>3 DEF TypeInv
<1>4. /\ keyOf[r] \in Keys /\ Order(r)' = Order(r) /\ Buyer(r)' = Buyer(r)
      /\ Sale(r)' = Sale(r) /\ Whole(r)' = Whole(r) /\ AllItems(r)' = AllItems(r)
  BY <1>1, <1>2 DEF Written, Order, Buyer, Sale, Whole, AllItems, OpenTx
<1> DEFINE n == Len(Order(r).items)
<1>5. /\ n \in Nat /\ Order(r).items = <<>> <=> n = 0
      /\ DOMAIN Order(r).items = 1 .. n
  BY <1>4, ItemsOfOrder
<1>6. Written(r)'
  <2>1. CASE UpsertCustomer(r)
    <3>1. at'[r] = "order" /\ item'[r] = 1 /\ tx'[r] = {Buyer(r)}
      BY <1>1, <2>1 DEF TypeInv, Written, UpsertCustomer, Insert, To, OpenTx, Buyer
    <3> QED BY <1>2, <1>4, <3>1 DEF Written, OpenTx
  <2>2. CASE InsertOrder(r)
    <3>1. /\ at'[r] = IF Order(r).items = <<>> THEN "sale" ELSE "items"
          /\ item'[r] = 1 /\ tx'[r] = {Buyer(r), OrderRow(r)}
      BY <1>1, <2>2 DEF TypeInv, Written, InsertOrder, Insert, To, OpenTx
    <3>2. Items(r, 0) = {}
      BY DEF Items
    <3>3. CASE n = 0
      BY <1>2, <1>4, <1>5, <3>1, <3>2, <3>3 DEF Written, OpenTx, AllItems
    <3>4. CASE n # 0
      <4>1. item'[r] \in 1 .. n /\ item'[r] - 1 = 0 /\ at'[r] = "items"
        BY <1>5, <3>1, <3>4
      <4> QED BY <1>2, <1>4, <3>1, <3>2, <4>1 DEF Written, OpenTx
    <3> QED BY <3>3, <3>4
  <2>3. CASE InsertItem(r)
    <3>1. /\ item[r] \in 1 .. n /\ item'[r] = item[r] + 1
          /\ at'[r] = IF item[r] = n THEN "sale" ELSE "items"
          /\ tx'[r] = {Buyer(r), OrderRow(r)} \cup Items(r, item[r] - 1)
                        \cup {ItemRow(r, item[r])}
      BY <1>1, <2>3 DEF TypeInv, Written, InsertItem, Insert, To
    <3>2. Items(r, item[r]) = Items(r, item[r] - 1) \cup {ItemRow(r, item[r])}
      BY <1>5, <3>1 DEF Items
    <3>3. item'[r] - 1 = item[r] /\ (item[r] # n => item'[r] \in 1 .. n)
      BY <1>5, <3>1
    <3> QED BY <1>2, <1>4, <3>1, <3>2, <3>3 DEF Written, OpenTx, AllItems
  <2>6. CASE begin(r)
    <3>1. at'[r] = "upsert" /\ item'[r] = 1 /\ tx'[r] = {}
      BY <1>1, <2>6 DEF TypeInv, Written, begin, To, OpenTx
    <3> QED BY <1>2, <1>4, <3>1 DEF Written, OpenTx
  <2>4. CASE InsertSale(r)
    <3>1. /\ at'[r] = IF Order(r).salesmanId = NoSalesman THEN "commit" ELSE "commission"
          /\ tx'[r] = {Buyer(r), OrderRow(r), Sale(r)} \cup AllItems(r)
      BY <1>1, <2>4 DEF TypeInv, Written, InsertSale, Insert, To, Sale
    <3>2. Order(r).salesmanId = NoSalesman =>
            {Buyer(r), OrderRow(r), Sale(r)} \cup AllItems(r) = {Buyer(r)} \cup Whole(r)
      BY <1>5 DEF Whole, AllItems, Items, Sale
    <3>3. CASE Order(r).salesmanId = NoSalesman
      <4>1. at'[r] = "commit" /\ tx'[r] = {Buyer(r)} \cup Whole(r)
        BY <3>1, <3>2, <3>3
      <4> QED BY <1>2, <1>4, <4>1 DEF Written, OpenTx
    <3>4. CASE Order(r).salesmanId # NoSalesman
      <4>1. at'[r] = "commission"
        BY <3>1, <3>4
      <4> QED BY <1>2, <1>4, <3>1, <3>4, <4>1 DEF Written, OpenTx
    <3> QED BY <3>3, <3>4
  <2>5. CASE InsertCommission(r)
    <3> DEFINE s == Order(r).salesmanId
    <3>1. /\ at'[r] = "commit" /\ s # NoSalesman
          /\ tx'[r] = {Buyer(r), OrderRow(r), Sale(r)} \cup AllItems(r)
                        \cup {EntryRow(r, "COMMISSION", Order(r).totalAmount * Salesmen[s])}
      BY <1>1, <2>5 DEF TypeInv, Written, InsertCommission, Insert, To
    <3>2. {s} \ {NoSalesman} = {s}
      BY <3>1
    <3>3. tx'[r] = {Buyer(r)} \cup Whole(r)
      BY <1>5, <3>1, <3>2 DEF Whole, AllItems, Items, Sale
    <3> QED BY <1>2, <1>4, <3>1, <3>3 DEF Written, OpenTx
  <2> QED BY <2>1, <2>2, <2>3, <2>4, <2>5, <2>6
<1> QED BY <1>2, <1>3, <1>6, StatementKeeps

\* COMMIT puts the whole order on record, and nothing of anybody else's.
LEMMA CommitInv ==
  ASSUME OrderInv, NEW r \in Requests, CommitOrder(r)
  PROVE  OrderInv'
<1>1. /\ TypeInv /\ Written(r) /\ Recorded(r) /\ at[r] = "commit"
      /\ UNCHANGED <<keyOf, item, post, excused>>
      /\ tx[r] = {Buyer(r)} \cup Whole(r) /\ db' = db \cup tx[r]
      /\ at'[r] = "register" /\ tx'[r] = {}
      /\ \A q \in Requests \ {r} : at'[q] = at[q] /\ tx'[q] = tx[q]
  BY DEF OrderInv, TypeInv, AllWritten, AllRecorded, CommitOrder, To, Written
<1>2. TypeInv'
  <2>1. at' \in [Requests -> Places]
    BY <1>1 DEF TypeInv, Places, CommitOrder, To
  <2>2. DOMAIN tx' = Requests
    BY <1>1 DEF TypeInv, CommitOrder
  <2> QED BY <1>1, <2>1, <2>2 DEF TypeInv
<1>3. \A x \in tx[r] : \/ x[1] = "customers"
                       \/ x[1] \in {"orders", "order_items", "ledger_entries"} /\ x[2] = r
  BY <1>1, RowFields, WholeIsOwn DEF Buyer
<1>4. \A q \in Requests \ {r} : Rows(q)' = Rows(q)
  BY <1>1, <1>3 DEF Rows
<1>5. Rows(r)' = Whole(r)
  <2>1. Rows(r) = {}
    BY <1>1 DEF Recorded
  <2>2. {x \in tx[r] : x[1] \in {"orders", "order_items", "ledger_entries"} /\ x[2] = r} =
         Whole(r)
    BY <1>1, RowFields, WholeIsOwn DEF Buyer
  <2> QED BY <1>1, <2>1, <2>2 DEF Rows
<1>6. \A q \in Requests \ {r} : Written(q)' /\ Recorded(q)'
  BY <1>1, <1>4, OtherRequest DEF OrderInv, AllWritten, AllRecorded
<1>7. Buyer(r)' = Buyer(r) /\ Whole(r)' = Whole(r)
  BY <1>1 DEF Buyer, Whole, Order
<1>8. Written(r)' /\ Recorded(r)'
  BY <1>1, <1>5, <1>7 DEF Written, Recorded, OpenTx
<1>9. KeysInv'
  <2> SUFFICES ASSUME NEW k \in Keys PROVE KeyInv(k)'
    BY DEF KeysInv
  <2>1. Busy(k)' = Busy(k)
    BY <1>1 DEF Busy, InTx
  <2>2. Ordered(k)' = IF keyOf[r] = k THEN Ordered(k) \cup {r} ELSE Ordered(k)
    <3>1. \A q \in Requests \ {r} : OrderRow(q) \notin tx[r]
      BY <1>3, RowFields
    <3>2. OrderRow(r) \in tx[r]
      BY <1>1, WholeIsOwn
    <3> QED BY <1>1, <3>1, <3>2 DEF Ordered
  <2>3. keyOf[r] = k => r \in Busy(k)
    BY <1>1 DEF Busy, InTx
  <2>4. isDuplicate(k)' = isDuplicate(k)
    BY <1>1, <1>3, RowFields DEF isDuplicate
  <2> QED BY <1>1, <2>1, <2>2, <2>3, <2>4 DEF OrderInv, KeysInv, KeyInv
<1>10. CallInv'
  BY <1>1 DEF OrderInv, CallInv
<1> QED BY <1>2, <1>6, <1>8, <1>9, <1>10 DEF OrderInv, AllWritten, AllRecorded

\* The keys are registered for orders on record.
LEMMA RegisterInv ==
  ASSUME OrderInv, NEW r \in Requests, register(r)
  PROVE  OrderInv'
<1>1. /\ TypeInv /\ Written(r) /\ Recorded(r) /\ at[r] = "register"
      /\ UNCHANGED <<tx, keyOf, item, post, excused>>
      /\ db' = db \cup {KeyRow(keyOf[r])} /\ at'[r] = "done"
      /\ \A q \in Requests \ {r} : at'[q] = at[q]
  BY DEF OrderInv, TypeInv, AllWritten, AllRecorded, register, To
<1>2. TypeInv'
  BY <1>1 DEF TypeInv, Places, register, To
<1>3. \A q \in Requests : Rows(q)' = Rows(q)
  BY <1>1, RowFields DEF Rows
<1>4. \A q \in Requests \ {r} : Written(q)' /\ Recorded(q)'
  BY <1>1, <1>3, OtherRequest DEF OrderInv, AllWritten, AllRecorded
<1>5. Buyer(r)' = Buyer(r) /\ Whole(r)' = Whole(r)
  BY <1>1 DEF Buyer, Whole, Order
<1>6. Written(r)' /\ Recorded(r)'
  BY <1>1, <1>3, <1>5 DEF Written, Recorded, OpenTx
<1>7. KeysInv'
  <2> SUFFICES ASSUME NEW k \in Keys PROVE KeyInv(k)'
    BY DEF KeysInv
  <2>1. Ordered(k)' = Ordered(k)
    BY <1>1, RowFields DEF Ordered
  <2>2. Busy(k)' \subseteq Busy(k)
    BY <1>1 DEF Busy, InTx
  <2>3. isDuplicate(k)' => isDuplicate(k) \/ k = keyOf[r]
    BY <1>1, RowFields DEF isDuplicate
  <2>4. OrderRow(r) \in db
    BY <1>1, WholeIsOwn DEF Recorded, Rows
  <2> QED BY <1>1, <2>1, <2>2, <2>3, <2>4 DEF OrderInv, KeysInv, KeyInv, Ordered
<1>8. CallInv'
  BY <1>1 DEF OrderInv, CallInv
<1> QED BY <1>2, <1>4, <1>6, <1>7, <1>8 DEF OrderInv, AllWritten, AllRecorded

\* Whatever ends early is rolled back; past its COMMIT its key is excused.
LEMMA FailInv ==
  ASSUME OrderInv, NEW r \in Requests, Fail(r)
  PROVE  OrderInv'
<1>1. /\ TypeInv /\ Written(r) /\ Recorded(r) /\ at[r] \in OpenTx \cup {"allowed", "register"}
      /\ UNCHANGED <<db, keyOf, item, post>>
      /\ at'[r] = "failed" /\ tx'[r] = {}
      /\ excused' = IF at[r] = "register" THEN excused \cup {keyOf[r]} ELSE excused
      /\ \A q \in Requests \ {r} : at'[q] = at[q] /\ tx'[q] = tx[q]
  BY DEF OrderInv, TypeInv, AllWritten, AllRecorded, Fail, To, InTx, OpenTx
<1>2. TypeInv'
  <2>1. at' \in [Requests -> Places]
    BY <1>1 DEF TypeInv, Places, Fail, To
  <2>2. DOMAIN tx' = Requests
    BY <1>1 DEF TypeInv, Fail
  <2> QED BY <1>1, <2>1, <2>2 DEF TypeInv
<1>3. \A q \in Requests : Rows(q)' = Rows(q)
  BY <1>1 DEF Rows
<1>4. \A q \in Requests \ {r} : Written(q)' /\ Recorded(q)'
  BY <1>1, <1>3, OtherRequest DEF OrderInv, AllWritten, AllRecorded
<1>5. Buyer(r)' = Buyer(r) /\ Whole(r)' = Whole(r)
  BY <1>1 DEF Buyer, Whole, Order
<1>6. Written(r)' /\ Recorded(r)'
  BY <1>1, <1>3, <1>5 DEF Written, Recorded, OpenTx
<1>7. KeysInv'
  <2> SUFFICES ASSUME NEW k \in Keys PROVE KeyInv(k)'
    BY DEF KeysInv
  <2>1. Ordered(k)' = Ordered(k) /\ Busy(k)' \subseteq Busy(k)
    BY <1>1 DEF Ordered, Busy, InTx
  <2> QED BY <1>1, <2>1 DEF OrderInv, KeysInv, KeyInv, isDuplicate
<1>8. CallInv'
  BY <1>1 DEF OrderInv, CallInv
<1> QED BY <1>2, <1>4, <1>6, <1>7, <1>8 DEF OrderInv, AllWritten, AllRecorded

\* A key that is neither registered nor busy nor excused has no order yet.
LEMMA AllowInv ==
  ASSUME OrderInv, NEW r \in Requests, NEW k \in Keys, allow(r, k)
  PROVE  OrderInv'
<1>1. /\ TypeInv /\ Written(r) /\ Recorded(r) /\ at[r] = "idle"
      /\ UNCHANGED <<db, tx, item, post>>
      /\ at'[r] = IF isDuplicate(k) THEN "refused" ELSE "allowed"
      /\ keyOf'[r] = k
      /\ excused' = IF Busy(k) = {} THEN excused ELSE excused \cup {k}
      /\ \A q \in Requests \ {r} : at'[q] = at[q] /\ keyOf'[q] = keyOf[q]
  BY DEF OrderInv, TypeInv, AllWritten, AllRecorded, allow, To
<1>2. TypeInv'
  <2>1. at' \in [Requests -> Places]
    BY <1>1 DEF TypeInv, Places, allow, To
  <2>2. DOMAIN keyOf' = Requests
    BY <1>1 DEF TypeInv, allow
  <2> QED BY <1>1, <2>1, <2>2 DEF TypeInv
<1>3. \A q \in Requests : Rows(q)' = Rows(q)
  BY <1>1 DEF Rows
<1>4. \A q \in Requests \ {r} : Written(q)' /\ Recorded(q)'
  BY <1>1, <1>3, OtherRequest DEF OrderInv, AllWritten, AllRecorded
<1>5. Rows(r) = {}
  BY <1>1 DEF Recorded
<1>6. Written(r)' /\ Recorded(r)'
  BY <1>1, <1>3, <1>5 DEF Written, Recorded, OpenTx
<1>7. KeysInv'
  <2> SUFFICES ASSUME NEW j \in Keys PROVE KeyInv(j)'
    BY DEF KeysInv
  <2>1. OrderRow(r) \notin db
    BY <1>5, RowFields DEF Rows
  <2>2. r \notin Busy(j) \cup Ordered(j)
    BY <1>1, <2>1 DEF Busy, InTx, Ordered
  <2>3. Ordered(j)' = Ordered(j)
    BY <1>1, <2>1 DEF Ordered
  <2>4. isDuplicate(j)' = isDuplicate(j) /\ excused \subseteq excused'
    BY <1>1 DEF isDuplicate
  <2>5. CASE j # k \/ isDuplicate(k)
    <3>1. Busy(j)' = Busy(j)
      BY <1>1, <2>5 DEF Busy, InTx
    <3> QED BY <2>3, <2>4, <3>1 DEF OrderInv, KeysInv, KeyInv
  <2>6. CASE j = k /\ ~isDuplicate(k) /\ k \notin excused'
    <3>1. Busy(k) = {} /\ k \notin excused
      BY <1>1, <2>6
    <3>2. Ordered(k) = {}
      <4> SUFFICES ASSUME NEW q \in Ordered(k) PROVE FALSE
        OBVIOUS
      <4>1. q \in Requests /\ keyOf[q] = k /\ Rows(q) # {} /\ Recorded(q)
        BY RowFields DEF Ordered, Rows, OrderInv, AllRecorded
      <4>2. at[q] = "done"
        BY <3>1, <4>1 DEF Recorded, Busy
      <4> QED BY <2>6, <4>1, <4>2 DEF Recorded, isDuplicate
    <3>3. Busy(k)' \subseteq {r}
      BY <1>1, <3>1 DEF Busy, InTx
    <3> QED BY <2>3, <2>4, <2>6, <3>2, <3>3 DEF KeyInv
  <2>7. CASE j = k /\ ~isDuplicate(k) /\ k \in excused'
    BY <2>3, <2>4, <2>7 DEF OrderInv, KeysInv, KeyInv
  <2> QED BY <2>5, <2>6, <2>7
<1>8. CallInv'
  BY <1>1 DEF OrderInv, CallInv
<1> QED BY <1>2, <1>4, <1>6, <1>7, <1>8 DEF OrderInv, AllWritten, AllRecorded

\* Customers inserted beside the orders.
LEMMA CustomerInv ==
  ASSUME OrderInv, NEW c \in Calls, Connect(c) \/ createCustomer(c)
  PROVE  OrderInv'
<1>1. /\ TypeInv /\ UNCHANGED <<tx, at, keyOf, item, excused>>
      /\ \A d \in Calls \ {c} : post'[d] = post[d]
  BY DEF OrderInv, TypeInv, Connect, createCustomer
<1>2. TypeInv'
  BY <1>1 DEF TypeInv, Connect, createCustomer
<1>3. \/ db' = db /\ post'[c] # "created"
      \/ /\ post'[c] = "created" /\ CustomerRow(PhoneOf[c]) \notin db
         /\ db' = db \cup {CustomerRow(PhoneOf[c])}
  BY <1>1 DEF TypeInv, Connect, createCustomer, Insertable
<1>4. \A q \in Requests : Rows(q)' = Rows(q)
  BY <1>3, RowFields DEF Rows
<1>5. \A q \in Requests : Written(q)' /\ Recorded(q)'
  BY <1>1, <1>3, <1>4, OtherRequest DEF OrderInv, AllWritten, AllRecorded
<1>6. KeysInv'
  <2> SUFFICES ASSUME NEW k \in Keys PROVE KeyInv(k)'
    BY DEF KeysInv
  <2>1. Ordered(k)' = Ordered(k) /\ isDuplicate(k)' = isDuplicate(k)
    BY <1>1, <1>3, RowFields DEF Ordered, isDuplicate
  <2>2. Busy(k)' = Busy(k)
    BY <1>1 DEF Busy, InTx
  <2> QED BY <1>1, <2>1, <2>2 DEF OrderInv, KeysInv, KeyInv
<1>7. CallInv'
  BY <1>1, <1>3, RowFields DEF OrderInv, CallInv
<1> QED BY <1>2, <1>5, <1>6, <1>7 DEF OrderInv, AllWritten, AllRecorded

LEMMA OrderStutter ==
  ASSUME OrderInv, UNCHANGED <<db, tx, at, keyOf, item, post, excused>>
  PROVE  OrderInv'
<1>1. \A q \in Requests : Rows(q)' = Rows(q)
  BY DEF Rows
<1>2. \A q \in Requests : Written(q)' /\ Recorded(q)'
  BY <1>1, OtherRequest DEF OrderInv, AllWritten, AllRecorded
<1>3. KeysInv'
  BY DEF OrderInv, KeysInv, KeyInv, Busy, InTx, Ordered, isDuplicate
<1> QED BY <1>2, <1>3 DEF OrderInv, TypeInv, CallInv, AllWritten, AllRecorded

\* The inductive invariant of orders, keys and customers.
THEOREM OrdersInvariant == IntakeSpec => []OrderInv
<1>1. IntakeInit => OrderInv
  <2> SUFFICES ASSUME IntakeInit PROVE OrderInv
    OBVIOUS
  <2>1. TypeInv
    BY DEF IntakeInit, TypeInv, Places
  <2>2. AllWritten
    BY DEF IntakeInit, AllWritten, Written, OpenTx
  <2>3. AllRecorded
    BY DEF IntakeInit, AllRecorded, Recorded, Rows
  <2>4. KeysInv
    BY DEF IntakeInit, KeysInv, KeyInv, isDuplicate, Busy, InTx, Ordered
  <2>5. CallInv
    BY DEF IntakeInit, CallInv
  <2> QED BY <2>1, <2>2, <2>3, <2>4, <2>5 DEF OrderInv
<1>2. OrderInv /\ [IntakeNext]_intakeVars => OrderInv'
  <2> SUFFICES ASSUME OrderInv, [IntakeNext]_intakeVars PROVE OrderInv'
    OBVIOUS
  <2>1. ASSUME NEW r \in Requests, ContinueOrder(r) \/ Fail(r) PROVE OrderInv'
    BY <2>1, StatementInv, CommitInv, RegisterInv, FailInv DEF ContinueOrder
  <2>2. ASSUME NEW r \in Requests, NEW k \in Keys, allow(r, k) PROVE OrderInv'
    BY <2>2, AllowInv
  <2>3. ASSUME NEW c \in Calls, Connect(c) \/ createCustomer(c) PROVE OrderInv'
    BY <2>3, CustomerInv
  <2>4. CASE UNCHANGED <<db, tx, at, keyOf, item, post, excused>>
    BY <2>4, OrderStutter
  <2> QED BY <2>1, <2>2, <2>3, <2>4 DEF IntakeNext, AddProduct, intakeVars
<1> QED BY <1>1, <1>2, PTL DEF IntakeSpec

\* Others see all rows of an order or none, whatever fails in the middle of it;
\* a customer created by a call is on record, and was created by no other.
THEOREM OrdersAreWhole == IntakeSpec => []OrdersWhole
<1>1. OrderInv => OrdersWhole
  BY DEF OrderInv, AllRecorded, Recorded, CallInv, OrdersWhole, Buyer
<1> QED BY <1>1, OrdersInvariant, PTL

\* A registered key has an order, and a key that is not excused one at most.
THEOREM KeysAreSpentOnce == IntakeSpec => []OneOrderPerKey
<1>1. OrderInv => OneOrderPerKey
  BY DEF OrderInv, KeysInv, KeyInv, OneOrderPerKey
<1> QED BY <1>1, OrdersInvariant, PTL
=============================================================================
