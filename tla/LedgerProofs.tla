------------------------------ MODULE LedgerProofs ------------------------------
(***************************************************************************)
(* What holds of the ledger engine, and of the debt service around it, for *)
(* any number of calls, tenants, periods and journals. CallInv is the      *)
(* inductive invariant of the engine: it ties the rows a call has written  *)
(* to how far the call has come. Whatever DebtService does, the engine's   *)
(* steps inside it are steps of LedgerEngine, so that every theorem about  *)
(* the engine is one about the service; ServiceInv and BackedInv then tie  *)
(* the debts and the events to the entries.                                *)
(***************************************************************************)
EXTENDS DebtService, SumTheorems

Written(p) ==
  CASE pc[p] \in {"idle", "rejected", "numbering", "inserting"} ->
         entries[p] = NoEntry /\ lines[p] = <<>>
    [] pc[p] = "lining" ->
         /\ entries[p] \in EntryRow /\ entries[p].status = "DRAFT"
         /\ Len(lines[p]) <= Len(data[p].lines)
         /\ \A i \in 1 .. Len(lines[p]) : lines[p][i] = data[p].lines[i]
    [] pc[p] = "posted" ->
         entries[p] \in EntryRow /\ entries[p].status = "POSTED" /\ lines[p] = data[p].lines
    [] pc[p] = "failed" ->
         entries[p] = NoEntry \/ (entries[p] \in EntryRow /\ entries[p].status = "DRAFT")

Validated(p) ==
  pc[p] \in InCall \cup {"posted", "failed"} =>
    data[p] \in Journals /\ validateDoubleEntry(data[p].lines)

CallInv == TypeOK /\ \A p \in Posters : Written(p) /\ Validated(p)

-----------------------------------------------------------------------------
\* A finite set of numbers that is not empty has a greatest element: a set
\* without one that is minimal among those would have one.
LEMMA FiniteMax ==
  ASSUME NEW S \in SUBSET Nat, IsFiniteSet(S), S # {}
  PROVE  Max(S) \in S /\ \A y \in S : Max(S) >= y
<1> DEFINE HasMax(T) == \E x \in T : \A y \in T : x >= y
           Bad == {T \in FiniteSubsetsOf(Nat) : T # {} /\ ~HasMax(T)}
<1>1. Bad = {}
  <2> SUFFICES ASSUME Bad # {} PROVE FALSE
    OBVIOUS
  <2>1. PICK T \in Bad : \A U \in Bad : <<U, T>> \notin StrictSubsetOrdering(Nat)
    <3>1. IsWellFoundedOn(StrictSubsetOrdering(Nat), FiniteSubsetsOf(Nat))
      BY FS_StrictSubsetOrderingWellFounded
    <3>2. Bad \subseteq FiniteSubsetsOf(Nat)
      OBVIOUS
    <3> QED BY <3>1, <3>2, WFMin
  <2>2. T \in SUBSET Nat /\ IsFiniteSet(T) /\ T # {} /\ ~HasMax(T)
    BY DEF FiniteSubsetsOf
  <2>3. PICK x \in T : TRUE
    BY <2>2
  <2>4. T \ {x} \in FiniteSubsetsOf(Nat)
    BY <2>2, FS_RemoveElement DEF FiniteSubsetsOf
  <2>5. <<T \ {x}, T>> \in StrictSubsetOrdering(Nat)
    BY <2>2, <2>3 DEF StrictSubsetOrdering
  <2>6. CASE T \ {x} = {}
    BY <2>2, <2>3, <2>6
  <2>7. CASE T \ {x} # {}
    <3>1. HasMax(T \ {x})
      BY <2>1, <2>4, <2>5, <2>7
    <3>2. PICK m \in T \ {x} : \A y \in T \ {x} : m >= y
      BY <3>1
    <3> QED BY <2>2, <2>3, <3>2
  <2> QED BY <2>6, <2>7
<1>2. S \in FiniteSubsetsOf(Nat)
  BY DEF FiniteSubsetsOf
<1>3. HasMax(S)
  BY <1>1, <1>2
<1> QED BY <1>3 DEF Max

\* The next number of a tenant is a positive number above all of its numbers,
\* and just above one of them unless it is 1.
LEMMA NextNumberAbove ==
  ASSUME TypeOK, NEW t \in Tenants
  PROVE  /\ Numbers(t) \subseteq Nat
         /\ NextNumber(t) \in Nat /\ NextNumber(t) >= 1
         /\ \A n \in Numbers(t) : n < NextNumber(t)
         /\ NextNumber(t) - 1 \in Numbers(t) \cup {0}
<1>1. Rows(t) \in SUBSET Posters /\ \A p \in Rows(t) : entries[p].number \in Nat
  BY LedgerAssumption DEF TypeOK, Rows, EntryRow
<1>2. Numbers(t) \subseteq Nat
  BY <1>1 DEF Numbers
<1>3. IsFiniteSet(Numbers(t))
  <2> DEFINE f == [p \in Rows(t) |-> entries[p].number]
  <2>1. f \in Surjection(Rows(t), Numbers(t))
    BY DEF Surjection, Numbers
  <2>2. IsFiniteSet(Rows(t))
    BY <1>1, LedgerAssumption, FS_Subset
  <2> HIDE DEF f
  <2> QED BY <2>1, <2>2, FS_Surjection
<1>4. IsFiniteSet(Numbers(t) \cup {0})
  BY <1>3, FS_AddElement
<1>5. /\ Max(Numbers(t) \cup {0}) \in Numbers(t) \cup {0}
      /\ \A y \in Numbers(t) \cup {0} : Max(Numbers(t) \cup {0}) >= y
  <2> DEFINE S == Numbers(t) \cup {0}
  <2>1. S \in SUBSET Nat /\ S # {}
    BY <1>2
  <2> HIDE DEF S
  <2>2. IsFiniteSet(S)
    BY <1>4 DEF S
  <2>3. Max(S) \in S /\ \A y \in S : Max(S) >= y
    BY <2>1, <2>2, FiniteMax
  <2> QED BY <2>3 DEF S
<1> QED BY <1>2, <1>5 DEF NextNumber

-----------------------------------------------------------------------------
LEMMA SeqEqual ==
  ASSUME NEW S, NEW s \in Seq(S), NEW u \in Seq(S), Len(s) = Len(u),
         \A i \in 1 .. Len(s) : s[i] = u[i]
  PROVE  s = u
OBVIOUS

LEMMA InitCallInv == Init => CallInv
BY LedgerAssumption DEF Init, CallInv, TypeOK, Written, Validated, InCall, PcValues

\* Every statement of every call, and every failure, keeps the rows of all
\* calls in step with their programs.
LEMMA NextCallInv == CallInv /\ [Next]_vars => CallInv'
<1> SUFFICES ASSUME CallInv, [Next]_vars PROVE CallInv'
  OBVIOUS
<1> USE DEF CallInv
<1>1. ASSUME NEW p \in Posters, NEW j \in Journals, CheckPeriod(p, j)
      PROVE  CallInv'
  <2>1. TypeOK'
    BY <1>1 DEF CheckPeriod, TypeOK, PcValues, InCall
  <2>2. ASSUME NEW q \in Posters PROVE Written(q)'
    BY <1>1 DEF CheckPeriod, TypeOK, PcValues, InCall, Written
  <2>3. ASSUME NEW q \in Posters PROVE Validated(q)'
    BY <1>1 DEF CheckPeriod, TypeOK, PcValues, InCall, Validated, Accepts
  <2> QED BY <2>1, <2>2, <2>3
<1>2. ASSUME NEW p \in Posters, ReadNumber(p)
      PROVE  CallInv'
  <2>1. data[p] \in Journals /\ data[p].tenant \in Tenants
    BY <1>2, LedgerAssumption DEF JournalEntryData, ReadNumber, Validated, InCall
  <2>2. TypeOK'
    <3>1. NextNumber(data[p].tenant) \in Nat
      BY <2>1, NextNumberAbove
    <3>2. number' \in [Posters -> Nat]
      BY <1>2, <3>1 DEF ReadNumber, TypeOK
    <3>3. raced' \subseteq Tenants
      BY <1>2, <2>1 DEF ReadNumber, TypeOK
    <3> QED BY <1>2, <3>2, <3>3 DEF ReadNumber, TypeOK, PcValues, InCall
  <2>3. ASSUME NEW q \in Posters PROVE Written(q)' /\ Validated(q)'
    BY <1>2 DEF ReadNumber, TypeOK, PcValues, InCall, Written, Validated
  <2> QED BY <2>2, <2>3
<1>3. ASSUME NEW p \in Posters, InsertEntry(p)
      PROVE  CallInv'
  <2>1. data[p] \in Journals /\ data[p].tenant \in Tenants /\ data[p].lines \in Seq(JournalLine)
    BY <1>3, LedgerAssumption DEF JournalEntryData, InsertEntry, Validated, InCall
  <2>2. TypeOK'
    BY <1>3, <2>1 DEF InsertEntry, TypeOK, PcValues, InCall, EntryRow
  <2>3. entries'[p] \in EntryRow /\ entries'[p].status = "DRAFT" /\ lines'[p] = <<>>
    BY <1>3, <2>1 DEF InsertEntry, TypeOK, Written, EntryRow
  <2>4. Len(lines'[p]) = 0 /\ Len(data'[p].lines) \in Nat
    BY <1>3, <2>1, <2>3 DEF InsertEntry
  <2>5. Written(p)' /\ Validated(p)'
    <3>1. pc'[p] = "lining" /\ data' = data
      BY <1>3 DEF InsertEntry, TypeOK
    <3>2. Len(lines'[p]) <= Len(data'[p].lines) /\ 1 .. Len(lines'[p]) = {}
      BY <2>4
    <3>3. Written(p)'
      BY <2>3, <3>1, <3>2 DEF Written
    <3>4. Validated(p)'
      BY <1>3, <3>1 DEF InsertEntry, Validated, InCall
    <3> QED BY <3>3, <3>4
  <2>6. ASSUME NEW q \in Posters, q # p PROVE Written(q)' /\ Validated(q)'
    BY <1>3, <2>6 DEF InsertEntry, TypeOK, Written, Validated
  <2> QED BY <2>2, <2>5, <2>6
<1>4. ASSUME NEW p \in Posters, InsertLine(p)
      PROVE  CallInv'
  <2> DEFINE n == Len(lines[p]) + 1
  <2>1. data[p].lines \in Seq(JournalLine)
    BY <1>4, LedgerAssumption DEF JournalEntryData, InsertLine, Validated, InCall
  <2>2. lines[p] \in Seq(JournalLine) /\ n \in 1 .. Len(data[p].lines)
    BY <1>4, <2>1 DEF InsertLine, TypeOK
  <2>3. data[p].lines[n] \in JournalLine
    BY <2>1, <2>2
  <2>4. lines'[p] = Append(lines[p], data[p].lines[n])
    BY <1>4 DEF InsertLine, TypeOK
  <2>5. /\ lines'[p] \in Seq(JournalLine)
        /\ Len(lines'[p]) = n
        /\ \A i \in 1 .. n : lines'[p][i] = IF i = n THEN data[p].lines[n] ELSE lines[p][i]
    BY <2>2, <2>3, <2>4
  <2>6. TypeOK'
    BY <1>4, <2>5 DEF InsertLine, TypeOK
  <2>7. Written(p)' /\ Validated(p)'
    <3>1. entries[p] \in EntryRow /\ entries[p].status = "DRAFT"
          /\ \A i \in 1 .. Len(lines[p]) : lines[p][i] = data[p].lines[i]
      BY <1>4 DEF InsertLine, Written
    <3>2. pc'[p] = "lining" /\ data' = data /\ entries' = entries
      BY <1>4 DEF InsertLine
    <3>3. Len(lines'[p]) <= Len(data[p].lines)
      BY <2>1, <2>2, <2>5
    <3>4. \A i \in 1 .. Len(lines'[p]) : lines'[p][i] = data[p].lines[i]
      <4> SUFFICES ASSUME NEW i \in 1 .. n PROVE lines'[p][i] = data[p].lines[i]
        BY <2>5
      <4>1. CASE i = n
        BY <2>5, <4>1
      <4>2. CASE i # n
        <5>1. i \in 1 .. Len(lines[p])
          BY <2>2, <4>2
        <5> HIDE DEF n
        <5> QED BY <2>5, <3>1, <4>2, <5>1
      <4> QED BY <4>1, <4>2
    <3>5. Written(p)'
      BY <3>1, <3>2, <3>3, <3>4 DEF Written
    <3>6. Validated(p)'
      BY <1>4, <3>2 DEF InsertLine, Validated, InCall
    <3> QED BY <3>5, <3>6
  <2>8. ASSUME NEW q \in Posters, q # p PROVE Written(q)' /\ Validated(q)'
    BY <1>4, <2>8 DEF InsertLine, TypeOK, Written, Validated
  <2> QED BY <2>6, <2>7, <2>8
<1>5. ASSUME NEW p \in Posters, MarkPosted(p)
      PROVE  CallInv'
  <2>1. entries[p] \in EntryRow
    BY <1>5 DEF MarkPosted, Written
  <2>2. lines[p] = data[p].lines
    <3>1. data[p].lines \in Seq(JournalLine) /\ lines[p] \in Seq(JournalLine)
      BY <1>5, LedgerAssumption DEF JournalEntryData, MarkPosted, Validated, InCall, TypeOK
    <3>2. /\ Len(lines[p]) = Len(data[p].lines)
          /\ \A i \in 1 .. Len(lines[p]) : lines[p][i] = data[p].lines[i]
      BY <1>5 DEF MarkPosted, AllInserted, Written
    <3> SUFFICES ASSUME NEW u \in Seq(JournalLine), NEW s \in Seq(JournalLine), Len(u) = Len(s),
                        \A i \in 1 .. Len(u) : u[i] = s[i]
                 PROVE  u = s
      BY <3>1, <3>2
    <3> QED BY SeqEqual
  <2>3. TypeOK'
    BY <1>5, <2>1 DEF MarkPosted, TypeOK, PcValues, EntryRow
  <2>4. ASSUME NEW q \in Posters PROVE Written(q)'
    BY <1>5, <2>1, <2>2 DEF MarkPosted, TypeOK, PcValues, InCall, Written, EntryRow
  <2>5. ASSUME NEW q \in Posters PROVE Validated(q)'
    BY <1>5 DEF MarkPosted, TypeOK, PcValues, InCall, Validated
  <2> QED BY <2>3, <2>4, <2>5
<1>6. ASSUME NEW p \in Posters, Fail(p)
      PROVE  CallInv'
  <2>1. TypeOK'
    BY <1>6 DEF Fail, TypeOK, PcValues
  <2>2. ASSUME NEW q \in Posters PROVE Written(q)' /\ Validated(q)'
    BY <1>6 DEF Fail, TypeOK, PcValues, InCall, Written, Validated
  <2> QED BY <2>1, <2>2
<1>7. ASSUME NEW q \in Periods, ClosePeriod(q)
      PROVE  CallInv'
  <2>1. TypeOK'
    BY <1>7 DEF ClosePeriod, TypeOK
  <2>2. ASSUME NEW p \in Posters PROVE Written(p)' /\ Validated(p)'
    BY <1>7 DEF ClosePeriod, Written, Validated
  <2> QED BY <2>1, <2>2
<1>8. CASE UNCHANGED vars
  BY <1>8 DEF vars, TypeOK, Written, Validated
<1> QED
  BY <1>1, <1>2, <1>3, <1>4, <1>5, <1>6, <1>7, <1>8 DEF Next, Continue

\* The rows a call has written always match how far it has come.
THEOREM CallsInStep == Spec => []CallInv
<1>1. Init => CallInv
  BY InitCallInv
<1>2. CallInv /\ [Next]_vars => CallInv'
  BY NextCallInv
<1> QED BY <1>1, <1>2, PTL DEF Spec

\* The types of the tables and of the calls' locals: in particular every
\* entry number handed out is a natural number.
THEOREM TypeCorrect == Spec => []TypeOK
<1>1. CallInv => TypeOK
  BY DEF CallInv
<1> QED BY <1>1, CallsInStep, PTL

\* A POSTED entry holds exactly the lines its caller passed, and they satisfy
\* the double-entry rule, whichever calls fail or overlap.
THEOREM PostedEntriesComplete == Spec => []PostedIsComplete
<1>1. CallInv => PostedIsComplete
  BY LedgerAssumption DEF JournalEntryData, CallInv, PostedIsComplete, IsPosted, Written, Validated, TypeOK,
     PcValues, InCall, EntryRow
<1> QED BY <1>1, CallsInStep, PTL

-----------------------------------------------------------------------------
\* What is known of the numbers of a tenant, and of those its calls hold
\* between the SELECT and the INSERT.
Holding(t) == {p \in Posters : pc[p] = "inserting" /\ data[p].tenant = t}

GapFree(t) ==
  /\ \A n \in Numbers(t) : \A m \in 1 .. n : m \in Numbers(t)
  /\ \A p \in Holding(t) : \A m \in 1 .. number[p] - 1 : m \in Numbers(t)

Fresh(t) ==
  /\ NumbersUniqueIn(t)
  /\ \A p, q \in Holding(t) : p = q
  /\ \A p \in Holding(t) : \A n \in Numbers(t) : n < number[p]

NumberInv == \A t \in Tenants : GapFree(t) /\ (t \notin raced => Fresh(t))

\* A step that keeps the rows, their tenants and numbers, and takes no number.
LEMMA NumbersUntouched ==
  ASSUME CallInv, NumberInv, number' = number, raced' = raced,
         \A p \in Posters : /\ (entries[p] = NoEntry) <=> (entries'[p] = NoEntry)
                            /\ entries[p] # NoEntry =>
                                 /\ entries'[p].tenant = entries[p].tenant
                                 /\ entries'[p].number = entries[p].number,
         \A p \in Posters : pc'[p] = "inserting" => pc[p] = "inserting" /\ data'[p] = data[p]
  PROVE  NumberInv'
<1> SUFFICES ASSUME NEW t \in Tenants PROVE (GapFree(t) /\ (t \notin raced => Fresh(t)))'
  BY DEF NumberInv
<1>1. Rows(t)' = Rows(t) /\ \A p \in Rows(t) : entries'[p].number = entries[p].number
  BY DEF Rows
<1>2. Numbers(t)' = Numbers(t)
  BY <1>1 DEF Numbers
<1>3. Holding(t)' \subseteq Holding(t)
  BY DEF Holding
<1>4. GapFree(t) /\ (t \notin raced => Fresh(t))
  BY DEF NumberInv
<1>5. GapFree(t)'
  BY <1>2, <1>3, <1>4 DEF GapFree
<1>6. ASSUME t \notin raced PROVE Fresh(t)'
  BY <1>1, <1>2, <1>3, <1>4, <1>6 DEF Fresh, NumbersUniqueIn
<1> QED BY <1>5, <1>6

LEMMA ReadNumberInv ==
  ASSUME CallInv, NumberInv, NEW p \in Posters, ReadNumber(p)
  PROVE  NumberInv'
<1> DEFINE d == data[p].tenant
<1>1. d \in Tenants /\ TypeOK
  BY LedgerAssumption DEF JournalEntryData, CallInv, ReadNumber, Validated, InCall
<1> SUFFICES ASSUME NEW t \in Tenants PROVE (GapFree(t) /\ (t \notin raced => Fresh(t)))'
  BY DEF NumberInv
<1>2. GapFree(t) /\ (t \notin raced => Fresh(t))
  BY DEF NumberInv
<1>3. entries' = entries /\ data' = data /\ Rows(t)' = Rows(t) /\ Numbers(t)' = Numbers(t)
  BY DEF ReadNumber, Rows, Numbers
<1>4. /\ number' = [number EXCEPT ![p] = NextNumber(d)]
      /\ pc' = [pc EXCEPT ![p] = "inserting"]
      /\ pc[p] = "numbering"
      /\ raced' = IF \E q \in Posters : pc[q] = "inserting" /\ data[q].tenant = d
                  THEN raced \cup {d} ELSE raced
  BY DEF ReadNumber
<1>5. pc \in [Posters -> PcValues] /\ number \in [Posters -> Nat]
  BY <1>1 DEF TypeOK
<1>6. Holding(t)' = IF t = d THEN Holding(t) \cup {p} ELSE Holding(t)
  BY <1>3, <1>4, <1>5 DEF Holding
<1>7. \A q \in Holding(t) : q # p /\ number'[q] = number[q]
  BY <1>4, <1>5 DEF Holding
<1>8. /\ Numbers(d) \subseteq Nat
      /\ NextNumber(d) \in Nat
      /\ \A n \in Numbers(d) : n < NextNumber(d)
      /\ NextNumber(d) - 1 \in Numbers(d) \cup {0}
  BY <1>1, NextNumberAbove
<1>9. number'[p] = NextNumber(d)
  BY <1>4, <1>5
<1>10. GapFree(t)'
  <2>1. ASSUME t = d PROVE \A m \in 1 .. NextNumber(d) - 1 : m \in Numbers(t)
    BY <1>2, <1>8, <2>1 DEF GapFree
  <2> QED BY <1>2, <1>3, <1>6, <1>7, <1>9, <2>1 DEF GapFree
<1>11. ASSUME t \notin raced' PROVE Fresh(t)'
  <2>1. t \notin raced /\ Fresh(t)
    BY <1>2, <1>4, <1>11
  <2>2. t = d => Holding(t) = {}
    BY <1>4, <1>11 DEF Holding
  <2>3. NumbersUniqueIn(t)'
    BY <1>3, <2>1 DEF Fresh, NumbersUniqueIn
  <2>4. CASE t = d
    BY <1>3, <1>6, <1>8, <1>9, <2>2, <2>3, <2>4 DEF Fresh
  <2>5. CASE t # d
    BY <1>3, <1>6, <1>7, <2>1, <2>3, <2>5 DEF Fresh
  <2> QED BY <2>4, <2>5
<1> QED BY <1>10, <1>11

LEMMA InsertEntryInv ==
  ASSUME CallInv, NumberInv, NEW p \in Posters, InsertEntry(p)
  PROVE  NumberInv'
<1> DEFINE d == data[p].tenant
           k == number[p]
<1>1. d \in Tenants /\ TypeOK /\ k \in Nat
  BY LedgerAssumption DEF JournalEntryData, CallInv, InsertEntry, Validated, InCall, TypeOK
<1> SUFFICES ASSUME NEW t \in Tenants PROVE (GapFree(t) /\ (t \notin raced => Fresh(t)))'
  BY DEF NumberInv
<1>2. GapFree(t) /\ (t \notin raced => Fresh(t))
  BY DEF NumberInv
<1>3. p \notin Rows(t)
  BY DEF CallInv, InsertEntry, Written, Rows
<1>4. /\ data' = data /\ number' = number /\ raced' = raced
      /\ pc[p] = "inserting" /\ pc' = [pc EXCEPT ![p] = "lining"]
      /\ entries' = [entries EXCEPT ![p] = [tenant |-> d, number |-> k, status |-> "DRAFT"]]
  BY DEF InsertEntry
<1>5. /\ pc \in [Posters -> PcValues] /\ number \in [Posters -> Nat]
      /\ entries \in [Posters -> EntryRow \cup {NoEntry}]
  BY <1>1 DEF TypeOK
<1>6. entries'[p] # NoEntry /\ entries'[p].tenant = d /\ entries'[p].number = k
  BY <1>1, <1>4, <1>5, LedgerAssumption
<1>7. \A q \in Posters \ {p} : entries'[q] = entries[q] /\ pc'[q] = pc[q]
  BY <1>4, <1>5
<1>8. Rows(t)' = IF t = d THEN Rows(t) \cup {p} ELSE Rows(t)
  BY <1>3, <1>6, <1>7 DEF Rows
<1>9. Numbers(t)' = IF t = d THEN Numbers(t) \cup {k} ELSE Numbers(t)
  <2>1. \A q \in Rows(t) : q \in Posters \ {p} /\ entries'[q].number = entries[q].number
    BY <1>3, <1>7 DEF Rows
  <2> QED BY <1>6, <1>8, <2>1 DEF Numbers
<1>10. Holding(t)' = Holding(t) \ {p} /\ (t = d => p \in Holding(t))
  BY <1>4, <1>5 DEF Holding
<1>11. GapFree(t)'
  <2>1. Numbers(t) \subseteq Nat
    BY <1>1, NextNumberAbove
  <2>2. \A n \in Numbers(t)' : \A m \in 1 .. n : m \in Numbers(t)'
    BY <1>1, <1>2, <1>9, <1>10, <2>1 DEF GapFree
  <2>3. \A q \in Holding(t)' : \A m \in 1 .. number[q] - 1 : m \in Numbers(t)'
    BY <1>2, <1>9, <1>10 DEF GapFree
  <2> QED BY <1>4, <2>2, <2>3 DEF GapFree
<1>12. ASSUME t \notin raced' PROVE Fresh(t)'
  <2>1. Fresh(t)
    BY <1>2, <1>4, <1>12
  <2>2. CASE t = d
    <3>1. Holding(t)' = {}
      BY <1>10, <2>1, <2>2 DEF Fresh
    <3>2. \A q \in Rows(t) : entries[q].number # k
      <4>1. \A n \in Numbers(t) : n < k
        BY <1>10, <2>1, <2>2 DEF Fresh
      <4>2. Numbers(t) \subseteq Nat
        BY <1>1, NextNumberAbove
      <4> QED BY <1>1, <4>1, <4>2 DEF Numbers
    <3>3. \A q \in Rows(t) : q \in Posters \ {p}
      BY <1>3 DEF Rows
    <3>4. NumbersUniqueIn(t)'
      BY <1>6, <1>7, <1>8, <2>1, <2>2, <3>2, <3>3 DEF Fresh, NumbersUniqueIn
    <3> QED BY <3>1, <3>4 DEF Fresh
  <2>3. CASE t # d
    <3>1. \A q \in Rows(t) : q \in Posters \ {p}
      BY <1>3 DEF Rows
    <3> QED BY <1>4, <1>7, <1>8, <1>9, <1>10, <2>1, <2>3, <3>1 DEF Fresh, NumbersUniqueIn
  <2> QED BY <2>2, <2>3
<1> QED BY <1>11, <1>12

LEMMA NextNumberInv == CallInv /\ NumberInv /\ [Next]_vars => NumberInv'
<1> SUFFICES ASSUME CallInv, NumberInv, [Next]_vars PROVE NumberInv'
  OBVIOUS
<1>1. ASSUME NEW p \in Posters, NEW j \in Journals, CheckPeriod(p, j)
      PROVE  NumberInv'
  BY <1>1, NumbersUntouched DEF CheckPeriod, CallInv, TypeOK
<1>2. ASSUME NEW p \in Posters, InsertLine(p) PROVE NumberInv'
  BY <1>2, NumbersUntouched DEF InsertLine
<1>3. ASSUME NEW p \in Posters, MarkPosted(p) PROVE NumberInv'
  <2>1. entries[p] \in EntryRow /\ entries \in [Posters -> EntryRow \cup {NoEntry}]
        /\ pc \in [Posters -> PcValues]
    BY <1>3 DEF MarkPosted, CallInv, Written, TypeOK
  <2>2. /\ entries'[p] \in EntryRow
        /\ entries'[p].tenant = entries[p].tenant /\ entries'[p].number = entries[p].number
    BY <1>3, <2>1 DEF MarkPosted, EntryRow
  <2>3. NoEntry \notin EntryRow
    BY LedgerAssumption DEF EntryRow
  <2> QED BY <1>3, <2>1, <2>2, <2>3, NumbersUntouched DEF MarkPosted
<1>4. ASSUME NEW p \in Posters, Fail(p) PROVE NumberInv'
  BY <1>4, NumbersUntouched DEF Fail, CallInv, TypeOK
<1>5. ASSUME NEW q \in Periods, ClosePeriod(q) PROVE NumberInv'
  BY <1>5, NumbersUntouched DEF ClosePeriod
<1>6. CASE UNCHANGED vars
  BY <1>6, NumbersUntouched DEF vars
<1> QED
  BY <1>1, <1>2, <1>3, <1>4, <1>5, <1>6, ReadNumberInv, InsertEntryInv DEF Next, Continue

LEMMA NumbersInOrder == Spec => []NumberInv
<1>1. Init => NumberInv
  BY DEF Init, NumberInv, GapFree, Fresh, Holding, Numbers, Rows, NumbersUniqueIn
<1> QED BY <1>1, NextNumberInv, CallsInStep, PTL DEF Spec

\* The numbers of a tenant's entries run from 1 without a gap, however calls
\* overlap and fail.
THEOREM NoGapInNumbers == Spec => []NumbersLeaveNoGap
<1>1. NumberInv => NumbersLeaveNoGap
  BY DEF NumberInv, GapFree, NumbersLeaveNoGap
<1> QED BY <1>1, NumbersInOrder, PTL

\* No two entries of a tenant share a number unless two of its calls were at
\* the same time between reading the maximum and inserting.
THEOREM NumbersUniqueWithoutRace == Spec => []NumbersUniqueUnlessRaced
<1>1. NumberInv => NumbersUniqueUnlessRaced
  BY DEF NumberInv, Fresh, NumbersUniqueUnlessRaced
<1> QED BY <1>1, NumbersInOrder, PTL

-----------------------------------------------------------------------------
\* verifyLedgerBalance answers true for every tenant at every moment.
THEOREM LedgerVerifies == Spec => []AlwaysVerifies
<1>1. PostedIsComplete => AlwaysVerifies
  <2> SUFFICES ASSUME PostedIsComplete, NEW t \in Tenants PROVE verifyLedgerBalance(t)
    BY DEF AlwaysVerifies
  <2>1. ASSUME NEW p \in PostedRows(t) PROVE TotalDebit(lines[p]) = TotalCredit(lines[p])
    <3>1. lines[p] = data[p].lines /\ validateDoubleEntry(data[p].lines)
      BY <2>1 DEF PostedIsComplete, PostedRows, Rows
    <3> QED BY <3>1 DEF validateDoubleEntry
  <2>2. [p \in PostedRows(t) |-> TotalDebit(lines[p])]
          = [p \in PostedRows(t) |-> TotalCredit(lines[p])]
    BY <2>1
  <2> QED BY <2>2 DEF verifyLedgerBalance
<1> QED BY <1>1, PostedEntriesComplete, PTL

\* What the lines of a journal come to, account by account, is what they come
\* to together.
LEMMA LinesAreFinite ==
  ASSUME NEW s \in Seq(JournalLine)
  PROVE  /\ IsFiniteSet(DOMAIN s)
         /\ \A i \in DOMAIN s : /\ Debits(s)[i] \in Int /\ Credits(s)[i] \in Int
                                /\ s[i].account \in Accounts
<1>1. DOMAIN s = 1 .. Len(s) /\ Len(s) \in Nat
  OBVIOUS
<1>2. IsFiniteSet(1 .. Len(s))
  BY <1>1, FS_Interval
<1>3. \A i \in DOMAIN s : s[i] \in JournalLine
  OBVIOUS
<1> QED BY <1>1, <1>2, <1>3 DEF Debits, Credits, JournalLine

LEMMA BalancesOfLines ==
  ASSUME NEW s \in Seq(JournalLine)
  PROVE  /\ \A a \in Accounts : BalanceIn(s, a) \in Int
         /\ SumFunctionOnSet([a \in Accounts |-> BalanceIn(s, a)], Accounts)
              = TotalDebit(s) - TotalCredit(s)
<1> DEFINE dr == [a \in Accounts |-> SumFunctionOnSet(Debits(s), OfAccount(s, a))]
           cr == [a \in Accounts |-> SumFunctionOnSet(Credits(s), OfAccount(s, a))]
           account == [i \in DOMAIN s |-> s[i].account]
           bal == [a \in Accounts |-> BalanceIn(s, a)]
<1>1. ASSUME NEW a \in Accounts PROVE dr[a] \in Int /\ cr[a] \in Int
  <2>1. IsFiniteSet(OfAccount(s, a)) /\ OfAccount(s, a) \subseteq DOMAIN s
    BY LinesAreFinite, FS_Subset DEF OfAccount
  <2>2. \A i \in OfAccount(s, a) : Debits(s)[i] \in Int /\ Credits(s)[i] \in Int
    BY <2>1, LinesAreFinite
  <2> QED BY <2>1, <2>2, SumIsInt
<1>2. \A a \in Accounts : bal[a] \in Int /\ dr[a] = bal[a] + cr[a]
  BY <1>1 DEF BalanceIn
<1>3. /\ SumFunctionOnSet(dr, Accounts) = TotalDebit(s)
      /\ SumFunctionOnSet(cr, Accounts) = TotalCredit(s)
  <2>1. /\ IsFiniteSet(DOMAIN s) /\ IsFiniteSet(Accounts)
        /\ \A i \in DOMAIN s : Debits(s)[i] \in Int /\ Credits(s)[i] \in Int
        /\ \A i \in DOMAIN s : account[i] \in Accounts
    BY LinesAreFinite, LedgerAssumption
  <2>2. \A a \in Accounts : OfAccount(s, a) = {i \in DOMAIN s : account[i] = a}
    BY DEF OfAccount
  <2> HIDE DEF account
  <2>3. /\ dr = [a \in Accounts |-> SumFunctionOnSet(Debits(s), {i \in DOMAIN s : account[i] = a})]
        /\ cr = [a \in Accounts |-> SumFunctionOnSet(Credits(s), {i \in DOMAIN s : account[i] = a})]
    BY <2>2
  <2>4. /\ SumFunctionOnSet(dr, Accounts) = SumFunctionOnSet(Debits(s), DOMAIN s)
        /\ SumFunctionOnSet(cr, Accounts) = SumFunctionOnSet(Credits(s), DOMAIN s)
    <3> HIDE DEF dr, cr
    <3>1. SumFunctionOnSet([a \in Accounts |->
            SumFunctionOnSet(Debits(s), {i \in DOMAIN s : account[i] = a})], Accounts)
              = SumFunctionOnSet(Debits(s), DOMAIN s)
      BY <2>1, SumByKey
    <3>2. SumFunctionOnSet([a \in Accounts |->
            SumFunctionOnSet(Credits(s), {i \in DOMAIN s : account[i] = a})], Accounts)
              = SumFunctionOnSet(Credits(s), DOMAIN s)
      BY <2>1, SumByKey
    <3> QED BY <2>3, <3>1, <3>2
  <2>5. DOMAIN Debits(s) = DOMAIN s /\ DOMAIN Credits(s) = DOMAIN s
    BY DEF Debits, Credits
  <2> QED BY <2>4, <2>5 DEF TotalDebit, TotalCredit, SumFunction
<1> HIDE DEF dr, cr, bal
<1>4. SumFunctionOnSet(dr, Accounts)
        = SumFunctionOnSet(bal, Accounts) + SumFunctionOnSet(cr, Accounts)
  BY <1>1, <1>2, LedgerAssumption, SumPlus
<1>5. SumFunctionOnSet(bal, Accounts) \in Int /\ SumFunctionOnSet(cr, Accounts) \in Int
  BY <1>1, <1>2, LedgerAssumption, SumIsInt
<1>6. SumFunctionOnSet(bal, Accounts) = TotalDebit(s) - TotalCredit(s)
  BY <1>3, <1>4, <1>5
<1> QED BY <1>2, <1>6 DEF bal

\* The balances of all accounts, of the entries posted in any set of periods,
\* come to nothing: they are the columns of a table whose rows do.
LEMMA BalancesCancel == CallInv /\ PostedIsComplete => AccountsCancel
<1> SUFFICES ASSUME CallInv, PostedIsComplete, NEW t \in Tenants, NEW until \in SUBSET Periods
             PROVE  SumFunction([a \in Accounts |-> getAccountBalance(t, a, until)]) = 0
  BY DEF AccountsCancel
<1> DEFINE S == PostedDuring(t, until)
           f == [p \in S |-> [a \in Accounts |-> BalanceIn(lines[p], a)]]
           row == [p \in S |-> SumFunctionOnSet(f[p], Accounts)]
<1>1. IsFiniteSet(S) /\ IsFiniteSet(Accounts) /\ S \subseteq Posters
  <2>1. S \in SUBSET Posters
    BY DEF PostedDuring, PostedRows, Rows
  <2> HIDE DEF S
  <2> QED BY <2>1, LedgerAssumption, FS_Subset
<1>2. ASSUME NEW p \in S
      PROVE  /\ \A a \in Accounts : f[p][a] \in Int
             /\ row[p] = 0
  <2>1. lines[p] \in Seq(JournalLine) /\ TotalDebit(lines[p]) = TotalCredit(lines[p])
    <3>1. IsPosted(p)
      BY DEF PostedDuring, PostedRows
    <3> QED BY <1>1, <3>1 DEF CallInv, TypeOK, PostedIsComplete, validateDoubleEntry
  <2>2. TotalDebit(lines[p]) \in Int
    <3>1. DOMAIN Debits(lines[p]) = DOMAIN lines[p]
      BY DEF Debits
    <3>2. \A i \in DOMAIN lines[p] : Debits(lines[p])[i] \in Int
      BY <2>1, LinesAreFinite
    <3>3. SumFunctionOnSet(Debits(lines[p]), DOMAIN lines[p]) \in Int
      BY <2>1, <3>2, LinesAreFinite, SumIsInt
    <3> QED BY <3>1, <3>3 DEF TotalDebit, SumFunction
  <2>3. /\ f[p] = [a \in Accounts |-> BalanceIn(lines[p], a)]
        /\ row[p] = SumFunctionOnSet(f[p], Accounts)
    OBVIOUS
  <2>4. /\ \A a \in Accounts : BalanceIn(lines[p], a) \in Int
        /\ SumFunctionOnSet([a \in Accounts |-> BalanceIn(lines[p], a)], Accounts)
             = TotalDebit(lines[p]) - TotalCredit(lines[p])
    BY <2>1, BalancesOfLines
  <2> HIDE DEF f, row
  <2> QED BY <2>1, <2>2, <2>3, <2>4
<1>3. SumFunctionOnSet(row, S) = 0
  <2> HIDE DEF row, S
  <2> QED BY <1>1, <1>2, SumOfZeros
<1>4. [a \in Accounts |-> getAccountBalance(t, a, until)]
        = [a \in Accounts |-> SumFunctionOnSet([p \in S |-> f[p][a]], S)]
  <2> SUFFICES ASSUME NEW a \in Accounts
               PROVE  getAccountBalance(t, a, until) = SumFunctionOnSet([p \in S |-> f[p][a]], S)
    OBVIOUS
  <2>1. [p \in S |-> f[p][a]] = [p \in S |-> BalanceIn(lines[p], a)]
    OBVIOUS
  <2> QED BY <2>1 DEF getAccountBalance, SumFunction
<1>5. SumFunctionOnSet(row, S)
        = SumFunctionOnSet([a \in Accounts |-> SumFunctionOnSet([p \in S |-> f[p][a]], S)], Accounts)
  <2> HIDE DEF S, f
  <2> QED BY <1>1, <1>2, SumSwap
<1> QED BY <1>3, <1>4, <1>5 DEF SumFunction

\* The ledger of every tenant is balanced at every moment: as a whole, and the
\* accounts against each other as of any date.
THEOREM LedgerAlwaysBalanced == Spec => []LedgerBalanced
<1>1. AlwaysVerifies /\ AccountsCancel => LedgerBalanced
  BY DEF LedgerBalanced
<1> QED BY <1>1, BalancesCancel, LedgerVerifies, CallsInStep, PostedEntriesComplete, PTL

-----------------------------------------------------------------------------
\* A period that is closed and has no call left past its check stays as it is.
THEOREM ClosedPeriodIsFinal == Spec => ClosedPeriodDrains
<1>1. CallInv /\ [Next]_vars =>
        \A q \in Periods : Quiet(q) => Quiet(q)' /\ PostedIn(q)' = PostedIn(q)
  <2> SUFFICES ASSUME CallInv, [Next]_vars, NEW q \in Periods, Quiet(q)
               PROVE  Quiet(q)' /\ PostedIn(q)' = PostedIn(q)
    OBVIOUS
  <2>1. TypeOK /\ \A p \in Posters : Written(p) /\ Validated(p)
    BY DEF CallInv
  <2>2. ASSUME NEW p \in Posters, NEW j \in Journals, CheckPeriod(p, j)
        PROVE  Quiet(q)' /\ PostedIn(q)' = PostedIn(q)
    <3>1. entries[p] = NoEntry
      BY <2>1, <2>2 DEF CheckPeriod, Written
    <3> QED BY <2>1, <2>2, <3>1
            DEF CheckPeriod, Accepts, Quiet, PostedIn, IsPosted, TypeOK, InCall
  <2>3. ASSUME NEW p \in Posters, ReadNumber(p) \/ InsertEntry(p) \/ InsertLine(p) \/ Fail(p)
        PROVE  Quiet(q)' /\ PostedIn(q)' = PostedIn(q)
    <3>1. pc[p] \in InCall /\ data' = data /\ period' = period
          /\ \A r \in Posters : pc'[r] \in InCall => pc[r] \in InCall
      BY <2>1, <2>3 DEF ReadNumber, InsertEntry, InsertLine, Fail, TypeOK, InCall
    <3>2. data[p].period # q
      BY <3>1 DEF Quiet
    <3>3. \A r \in Posters : r # p => entries'[r] = entries[r]
      BY <2>1, <2>3 DEF ReadNumber, InsertEntry, InsertLine, Fail, TypeOK
    <3> QED BY <3>1, <3>2, <3>3 DEF Quiet, PostedIn, IsPosted
  <2>4. ASSUME NEW p \in Posters, MarkPosted(p)
        PROVE  Quiet(q)' /\ PostedIn(q)' = PostedIn(q)
    <3>1. pc[p] \in InCall /\ data' = data /\ period' = period
          /\ \A r \in Posters : pc'[r] \in InCall => pc[r] \in InCall
      BY <2>1, <2>4 DEF MarkPosted, TypeOK, InCall
    <3>2. data[p].period # q
      BY <3>1 DEF Quiet
    <3>3. \A r \in Posters : r # p => entries'[r] = entries[r]
      BY <2>1, <2>4 DEF MarkPosted, TypeOK
    <3> QED BY <3>1, <3>2, <3>3 DEF Quiet, PostedIn, IsPosted
  <2>5. ASSUME NEW r \in Periods, ClosePeriod(r)
        PROVE  Quiet(q)' /\ PostedIn(q)' = PostedIn(q)
    BY <2>1, <2>5 DEF ClosePeriod, Quiet, PostedIn, IsPosted, TypeOK
  <2>6. CASE UNCHANGED vars
    BY <2>6 DEF vars, Quiet, PostedIn, IsPosted
  <2> QED BY <2>2, <2>3, <2>4, <2>5, <2>6 DEF Next, Continue
<1>2. CallInv /\ [Next]_vars =>
        [\A q \in Periods : Quiet(q) => Quiet(q)' /\ PostedIn(q)' = PostedIn(q)]_vars
  BY <1>1
<1> QED BY <1>2, CallsInStep, PTL DEF Spec, ClosedPeriodDrains

-----------------------------------------------------------------------------
\* The engine implements the book of posted entries: to a reader of POSTED
\* rows an entry appears whole, balanced and in one step, and stays.
THEOREM EngineImplementsBook == Spec => ImplementsBook
<1>1. Init => Book!Init
  BY LedgerAssumption DEF Init, Book!Init, IsPosted
<1>2. CallInv /\ [Next]_vars => [Book!Next]_([p \in Posters |->
                                      IF IsPosted(p) THEN lines[p] ELSE Unposted])
  <2> DEFINE shown == [p \in Posters |-> IF IsPosted(p) THEN lines[p] ELSE Unposted]
  <2> SUFFICES ASSUME CallInv, [Next]_vars PROVE Book!Next \/ shown' = shown
    OBVIOUS
  <2>1. TypeOK /\ \A p \in Posters : Written(p) /\ Validated(p)
    BY DEF CallInv
  <2>2. ASSUME NEW p \in Posters,
               ReadNumber(p) \/ InsertEntry(p) \/ InsertLine(p) \/ Fail(p)
        PROVE  shown' = shown
    <3>1. \A r \in Posters : r # p => entries'[r] = entries[r] /\ lines'[r] = lines[r]
      BY <2>1, <2>2 DEF ReadNumber, InsertEntry, InsertLine, Fail, TypeOK
    <3>2. ~IsPosted(p)
      BY <2>1, <2>2 DEF ReadNumber, InsertEntry, InsertLine, Fail, InCall, Written, IsPosted
    <3>3. ~IsPosted(p)'
      BY <2>1, <2>2, <3>2 DEF ReadNumber, InsertEntry, InsertLine, Fail, TypeOK, IsPosted
    <3> QED BY <3>1, <3>2, <3>3 DEF IsPosted
  <2>3. ASSUME NEW p \in Posters, MarkPosted(p) PROVE Book!Next
    <3>1. /\ data[p] \in Journals /\ validateDoubleEntry(data[p].lines)
          /\ entries[p] \in EntryRow /\ entries[p].status = "DRAFT"
      BY <2>1, <2>3 DEF MarkPosted, Validated, Written, InCall
    <3>2. lines[p] = data[p].lines
      <4>1. data[p].lines \in Seq(JournalLine) /\ lines[p] \in Seq(JournalLine)
        BY <2>1, <3>1, LedgerAssumption DEF JournalEntryData, TypeOK
      <4>2. /\ Len(lines[p]) = Len(data[p].lines)
            /\ \A i \in 1 .. Len(lines[p]) : lines[p][i] = data[p].lines[i]
        BY <2>1, <2>3 DEF MarkPosted, AllInserted, Written
      <4> QED BY <4>1, <4>2, SeqEqual
    <3>3. entries \in [Posters -> EntryRow \cup {NoEntry}] /\ NoEntry \notin EntryRow
      BY <2>1, LedgerAssumption DEF TypeOK, EntryRow
    <3>4. entries'[p] \in EntryRow /\ entries'[p].status = "POSTED" /\ lines' = lines
      BY <2>3, <3>1, <3>3 DEF MarkPosted, EntryRow
    <3>5. \A r \in Posters : r # p => entries'[r] = entries[r]
      BY <2>3, <3>3 DEF MarkPosted
    <3>6. ~IsPosted(p) /\ IsPosted(p)'
      BY <3>1, <3>3, <3>4 DEF IsPosted
    <3>7. shown[p] = Unposted /\ shown' = [shown EXCEPT ![p] = lines[p]]
      BY <3>4, <3>5, <3>6 DEF IsPosted
    <3>8. lines[p] \in {x.lines : x \in Journals}
      BY <3>1, <3>2
    <3> QED BY <3>1, <3>2, <3>7, <3>8 DEF Book!Next, Book!Post
  <2>4. ASSUME NEW p \in Posters, NEW j \in Journals, CheckPeriod(p, j) PROVE shown' = shown
    BY <2>4 DEF CheckPeriod, IsPosted
  <2>5. ASSUME NEW r \in Periods, ClosePeriod(r) PROVE shown' = shown
    BY <2>5 DEF ClosePeriod, IsPosted
  <2>6. CASE UNCHANGED vars
    BY <2>6 DEF vars, IsPosted
  <2> QED BY <2>2, <2>3, <2>4, <2>5, <2>6 DEF Next, Continue
<1> QED BY <1>1, <1>2, CallsInStep, PTL DEF Spec, ImplementsBook, Book!Spec

-----------------------------------------------------------------------------
(***************************************************************************)
(* DebtService.                                                            *)
(***************************************************************************)

\* What a call of createDebt has behind it, by where it is.
CallStage(p) ==
  /\ svc[p] = "idle" => pc[p] = "idle" /\ call[p] = NoCall /\ debts[p] = NoDebt
  /\ svc[p] \in Working \cup {"created"} =>
       /\ call[p] \in Calls
       /\ debts[p] = [tenant |-> call[p].tenant, principal |-> call[p].principal,
                      status |-> "ACTIVE",
                      entry |-> IF svc[p] \in {"recording", "created"} THEN p ELSE NoEntry]
       /\ pc[p] # "idle" => data[p] = DebtJournal(call[p])
  /\ svc[p] \in {"linking", "recording", "created"} => pc[p] = "posted"
ServiceInv ==
  /\ svc \in [Posters -> SvcValues] /\ DOMAIN call = Posters /\ DOMAIN debts = Posters
  /\ \A p \in Posters : CallStage(p)


\* Events and answers name calls that are over, and an entry the tenant that
\* posted it.
EventInv ==
  /\ \A e \in events : \E p \in Posters :
       svc[p] = "created" /\ e = [debt |-> p, principal |-> call[p].principal, entry |-> p]
  /\ \A p \in Posters : svc[p] = "created" => \E e \in events : e.debt = p
TenantInv ==
  \A p \in Posters : entries[p] # NoEntry => entries[p].tenant = data[p].tenant

-----------------------------------------------------------------------------
LEMMA DebtJournalPosted == \A c \in Calls : DebtJournal(c) \in Journals
BY DebtJournalsAssumption

\* A step of the service is a step of the engine or leaves the engine alone.
LEMMA ServiceStepIsEngineStep == ServiceInv /\ [ServiceNext]_allVars => [Next]_vars
<1> SUFFICES ASSUME ServiceInv, [ServiceNext]_allVars PROVE [Next]_vars
  OBVIOUS
<1>1. ASSUME NEW p \in Posters, PostStep(p) PROVE Next
  <2>1. svc[p] = "posting"
    BY <1>1 DEF PostStep
  <2>2. DebtJournal(call[p]) \in Journals
    BY <2>1, DebtJournalPosted DEF ServiceInv, CallStage, Working
  <2> QED BY <1>1, <2>2 DEF PostStep, Next
<1>2. ASSUME NEW p \in Posters, Break(p) PROVE [Next]_vars
  BY <1>2 DEF Break, Next
<1>3. ASSUME NEW p \in Posters, NEW j \in Direct, Post(p, j) PROVE Next
  BY <1>3, CallsAssumption DEF Post, Next
<1>4. ASSUME NEW p \in Posters, DirectStep(p) \/ DirectFail(p) PROVE Next
  BY <1>4 DEF DirectStep, DirectFail, Next
<1>5. ASSUME NEW q \in Periods, ClosePeriod(q) PROVE Next
  BY <1>5 DEF Next
<1>6. ASSUME NEW p \in Posters, NEW c \in Calls, Refuse(p, c) \/ InsertDebt(p, c)
      PROVE  UNCHANGED vars
  BY <1>6 DEF Refuse, InsertDebt
<1>7. ASSUME NEW p \in Posters, LinkEntry(p) \/ RecordEvent(p) PROVE UNCHANGED vars
  BY <1>7 DEF LinkEntry, RecordEvent
<1>8. CASE UNCHANGED allVars
  BY <1>8 DEF allVars
<1> QED
  BY <1>1, <1>2, <1>3, <1>4, <1>5, <1>6, <1>7, <1>8 DEF ServiceNext, CreateStep

-----------------------------------------------------------------------------
LEMMA InitServiceInv == ServiceInit => ServiceInv
BY DEF ServiceInit, Init, ServiceInv, CallStage, SvcValues, Working

LEMMA NextServiceInv == ServiceInv /\ CallInv /\ [ServiceNext]_allVars => ServiceInv'
<1> SUFFICES ASSUME ServiceInv, CallInv, [ServiceNext]_allVars PROVE ServiceInv'
  OBVIOUS
<1>0. /\ svc \in [Posters -> SvcValues] /\ DOMAIN call = Posters /\ DOMAIN debts = Posters
      /\ \A p \in Posters : CallStage(p)
  BY DEF ServiceInv
<1>t. pc \in [Posters -> PcValues] /\ data \in [Posters -> Journals \cup {NoJournal}]
  BY DEF CallInv, TypeOK
<1>1. ASSUME NEW p \in Posters, NEW c \in Calls, Refuse(p, c) PROVE ServiceInv'
  BY <1>0, <1>t, <1>1 DEF ServiceInv, Refuse, CallStage, Working, SvcValues, vars
<1>2. ASSUME NEW p \in Posters, NEW c \in Calls, InsertDebt(p, c) PROVE ServiceInv'
  BY <1>0, <1>t, <1>2 DEF ServiceInv, InsertDebt, CallStage, Working, SvcValues, vars
<1>3. ASSUME NEW p \in Posters, PostStep(p) PROVE ServiceInv'
  <2>1. \A r \in Posters : r # p => pc'[r] = pc[r] /\ data'[r] = data[r] /\ svc'[r] = svc[r]
    BY <1>0, <1>t, <1>3 DEF PostStep, CheckPeriod, Continue, ReadNumber, InsertEntry,
         InsertLine, MarkPosted, Returned
  <2>2. /\ pc'[p] # "idle" /\ data'[p] = DebtJournal(call[p])
        /\ svc'[p] = IF pc'[p] = "posted" THEN "linking" ELSE "posting"
    BY <1>0, <1>t, <1>3 DEF PostStep, CheckPeriod, Continue, ReadNumber, InsertEntry,
         InsertLine, MarkPosted, Returned, CallStage, Working
  <2>3. svc' \in [Posters -> SvcValues] /\ call' = call /\ debts' = debts
    BY <1>0, <1>3 DEF PostStep, SvcValues, Working
  <2>4. svc[p] = "posting"
    BY <1>3 DEF PostStep
  <2>5. ASSUME NEW r \in Posters, r # p PROVE CallStage(r)'
    BY <1>0, <2>1, <2>3, <2>5 DEF CallStage, DebtJournal, Working
  <2>6. CallStage(p)'
    BY <1>0, <2>2, <2>3, <2>4 DEF CallStage, DebtJournal, Working
  <2> QED BY <1>0, <2>3, <2>5, <2>6 DEF ServiceInv
<1>4. ASSUME NEW p \in Posters, LinkEntry(p) PROVE ServiceInv'
  BY <1>0, <1>t, <1>4 DEF ServiceInv, LinkEntry, CallStage, Working, SvcValues, vars, DebtJournal
<1>5. ASSUME NEW p \in Posters, RecordEvent(p) PROVE ServiceInv'
  BY <1>0, <1>t, <1>5 DEF ServiceInv, RecordEvent, CallStage, Working, SvcValues, vars, DebtJournal
<1>6. ASSUME NEW p \in Posters, svc' = [svc EXCEPT ![p] = "failed"], call' = call, debts' = debts,
             \A r \in Posters \ {p} : pc'[r] = pc[r] /\ data'[r] = data[r]
      PROVE  ServiceInv'
  BY <1>0, <1>6 DEF ServiceInv, CallStage, Working, SvcValues, DebtJournal
<1>7. ASSUME NEW p \in Posters, Break(p) PROVE ServiceInv'
  BY <1>0, <1>t, <1>6, <1>7 DEF Break, Fail, vars
<1>8. ASSUME NEW p \in Posters, svc' = [svc EXCEPT ![p] = "direct"] , call' = call, debts' = debts,
             \A r \in Posters \ {p} : pc'[r] = pc[r] /\ data'[r] = data[r]
      PROVE  ServiceInv'
  BY <1>0, <1>8 DEF ServiceInv, CallStage, Working, SvcValues, DebtJournal
<1>9. ASSUME NEW p \in Posters, NEW j \in Direct, Post(p, j) PROVE ServiceInv'
  BY <1>0, <1>t, <1>8, <1>9 DEF Post, CheckPeriod
<1>10. ASSUME NEW p \in Posters, DirectStep(p) \/ DirectFail(p) PROVE ServiceInv'
  <2>1. svc[p] = "direct" /\ svc' = [svc EXCEPT ![p] = "direct"] /\ call' = call /\ debts' = debts
    BY <1>0, <1>10 DEF DirectStep, DirectFail, svcVars
  <2>2. \A r \in Posters \ {p} : pc'[r] = pc[r] /\ data'[r] = data[r]
    BY <1>t, <1>10 DEF DirectStep, DirectFail, Continue, ReadNumber, InsertEntry, InsertLine,
         MarkPosted, Fail
  <2> QED BY <1>8, <2>1, <2>2
<1>11. CASE UNCHANGED <<pc, data, svcVars>>
  BY <1>0, <1>11 DEF ServiceInv, svcVars, CallStage, Working, DebtJournal
<1>12. ASSUME NEW q \in Periods, ClosePeriod(q), UNCHANGED svcVars PROVE ServiceInv'
  BY <1>11, <1>12 DEF ClosePeriod
<1>13. CASE UNCHANGED allVars
  BY <1>11, <1>13 DEF allVars, vars
<1> QED
  BY <1>1, <1>2, <1>3, <1>4, <1>5, <1>7, <1>9, <1>10, <1>12, <1>13 DEF ServiceNext, CreateStep

\* The calls of createDebt and what each has written stay in step.
THEOREM ServiceInStep == ServiceSpec => [](ServiceInv /\ CallInv)
<1>1. ServiceInit => ServiceInv /\ CallInv
  BY InitServiceInv, InitCallInv DEF ServiceInit
<1>2. ServiceInv /\ CallInv /\ [ServiceNext]_allVars => (ServiceInv /\ CallInv)'
  BY NextServiceInv, ServiceStepIsEngineStep, NextCallInv
<1> QED BY <1>1, <1>2, PTL DEF ServiceSpec

\* The debt service keeps the ledger engine's specification: it never makes the
\* engine take a step of another kind, or out of order.
THEOREM ServiceUsesEngine == ServiceSpec => Spec
<1>1. ServiceInit => Init
  BY DEF ServiceInit
<1>2. ServiceInv /\ [ServiceNext]_allVars => [Next]_vars
  BY ServiceStepIsEngineStep
<1> QED BY <1>1, <1>2, ServiceInStep, PTL DEF ServiceSpec, Spec

\* Beneath the debt service too, posting is atomic and final to a reader of
\* POSTED rows.
THEOREM ServiceImplementsBook == ServiceSpec => ImplementsBook
BY ServiceUsesEngine, EngineImplementsBook, PTL

\* Entry numbers leave no gap and repeat only where two calls raced, also when
\* debts and direct postings share a tenant and calls break between statements.
THEOREM ServiceEntryNumbers == ServiceSpec => []EntryNumbers
BY ServiceUsesEngine, NoGapInNumbers, NumbersUniqueWithoutRace, PTL DEF EntryNumbers

\* A closed period is final once its calls are over, whoever posts.
THEOREM ServiceClosedPeriods == ServiceSpec => ClosedPeriodDrains
BY ServiceUsesEngine, ClosedPeriodIsFinal, PTL

-----------------------------------------------------------------------------
LEMMA NextTenantInv == TenantInv /\ CallInv /\ [Next]_vars => TenantInv'
<1> SUFFICES ASSUME TenantInv, CallInv, [Next]_vars PROVE TenantInv'
  OBVIOUS
<1>0. TypeOK /\ \A p \in Posters : Written(p) /\ Validated(p)
  BY DEF CallInv
<1>1. ASSUME NEW p \in Posters, NEW j \in Journals, CheckPeriod(p, j) PROVE TenantInv'
  BY <1>0, <1>1 DEF CheckPeriod, TenantInv, Written, TypeOK
<1>2. ASSUME NEW p \in Posters, InsertEntry(p) PROVE TenantInv'
  BY <1>0, <1>2 DEF InsertEntry, TenantInv, TypeOK
<1>3. ASSUME NEW p \in Posters, MarkPosted(p) PROVE TenantInv'
  <2>1. entries[p] # NoEntry /\ entries[p] \in EntryRow
    BY <1>0, <1>3, LedgerAssumption DEF MarkPosted, Written, EntryRow
  <2>2. entries'[p].tenant = entries[p].tenant
    BY <1>0, <1>3, <2>1 DEF MarkPosted, TypeOK, EntryRow
  <2>3. data' = data /\ \A r \in Posters \ {p} : entries'[r] = entries[r]
    BY <1>0, <1>3 DEF MarkPosted, TypeOK
  <2> QED BY <2>1, <2>2, <2>3 DEF TenantInv
<1>4. CASE UNCHANGED <<entries, data>>
  BY <1>4 DEF TenantInv
<1>5. ASSUME NEW p \in Posters, ReadNumber(p) \/ InsertLine(p) \/ Fail(p)
      PROVE  UNCHANGED <<entries, data>>
  BY <1>5 DEF ReadNumber, InsertLine, Fail
<1>6. ASSUME NEW q \in Periods, ClosePeriod(q) PROVE UNCHANGED <<entries, data>>
  BY <1>6 DEF ClosePeriod
<1>7. CASE UNCHANGED vars
  BY <1>4, <1>7 DEF vars
<1> QED BY <1>1, <1>2, <1>3, <1>4, <1>5, <1>6, <1>7 DEF Next, Continue

LEMMA NextEventInv == EventInv /\ ServiceInv /\ [ServiceNext]_allVars => EventInv'
<1> SUFFICES ASSUME EventInv, ServiceInv, [ServiceNext]_allVars PROVE EventInv'
  OBVIOUS
<1>0. /\ svc \in [Posters -> SvcValues] /\ DOMAIN call = Posters
      /\ \A p \in Posters : CallStage(p)
  BY DEF ServiceInv
<1>1. ASSUME NEW p \in Posters, RecordEvent(p) PROVE EventInv'
  <2>0. svc[p] = "recording" /\ CallStage(p)
    BY <1>0, <1>1 DEF RecordEvent
  <2>1. debts[p].entry = p
    BY <2>0 DEF CallStage, Working
  <2>2. /\ events' = events \cup {[debt |-> p, principal |-> call[p].principal, entry |-> p]}
        /\ svc' = [svc EXCEPT ![p] = "created"] /\ call' = call
    BY <1>1, <2>1 DEF RecordEvent
  <2>3. svc'[p] = "created" /\ \A r \in Posters \ {p} : svc'[r] = svc[r]
    BY <1>0, <2>2
  <2>4. ASSUME NEW e \in events'
        PROVE  \E r \in Posters :
                 svc'[r] = "created" /\ e = [debt |-> r, principal |-> call'[r].principal, entry |-> r]
    <3>1. CASE e \in events
      <4>1. PICK r \in Posters :
              svc[r] = "created" /\ e = [debt |-> r, principal |-> call[r].principal, entry |-> r]
        BY <3>1 DEF EventInv
      <4> QED BY <2>0, <2>2, <2>3, <4>1
    <3>2. CASE e = [debt |-> p, principal |-> call[p].principal, entry |-> p]
      BY <2>2, <2>3, <3>2
    <3> QED BY <2>2, <3>1, <3>2
  <2>5. ASSUME NEW r \in Posters, svc'[r] = "created" PROVE \E e \in events' : e.debt = r
    <3>1. CASE r = p
      <4>1. [debt |-> p, principal |-> call[p].principal, entry |-> p].debt = p
        OBVIOUS
      <4> QED BY <2>2, <3>1, <4>1
    <3>2. CASE r # p
      <4>1. PICK e \in events : e.debt = r
        BY <2>3, <2>5, <3>2 DEF EventInv
      <4> QED BY <2>2, <4>1
    <3> QED BY <3>1, <3>2
  <2> QED BY <2>4, <2>5 DEF EventInv
<1>2. ASSUME events' = events,
             \A r \in Posters : (svc[r] = "created" <=> svc'[r] = "created")
                                 /\ (svc[r] = "created" => call'[r] = call[r])
      PROVE  EventInv'
  BY <1>2 DEF EventInv
<1>3. ASSUME NEW p \in Posters, NEW c \in Calls, Refuse(p, c) \/ InsertDebt(p, c) PROVE EventInv'
  BY <1>0, <1>2, <1>3 DEF Refuse, InsertDebt
<1>4. ASSUME NEW p \in Posters, PostStep(p) \/ LinkEntry(p) \/ Break(p) PROVE EventInv'
  BY <1>0, <1>2, <1>4 DEF PostStep, LinkEntry, Break, Working
<1>5. ASSUME NEW p \in Posters, NEW j \in Direct, Post(p, j) PROVE EventInv'
  BY <1>0, <1>2, <1>5 DEF Post
<1>6. CASE UNCHANGED svcVars
  BY <1>2, <1>6 DEF svcVars
<1> QED
  BY <1>1, <1>3, <1>4, <1>5, <1>6
     DEF ServiceNext, CreateStep, DirectStep, DirectFail, allVars

LEMMA EventsAreBooked ==
  EventInv /\ TenantInv /\ ServiceInv /\ CallInv => EventMeansBooked
<1> SUFFICES ASSUME EventInv, TenantInv, ServiceInv, CallInv PROVE EventMeansBooked
  OBVIOUS
<1>1. ASSUME NEW e \in events
      PROVE  /\ debts[e.debt] # NoDebt /\ debts[e.debt].entry = e.entry
             /\ IsPosted(e.entry) /\ getDebt(e.debt).number = entries[e.entry].number
             /\ entries[e.entry].tenant = debts[e.debt].tenant
             /\ DebitsOnce(lines[e.entry], e.principal)
             /\ e.principal = debts[e.debt].principal
  <2>1. PICK p \in Posters :
          svc[p] = "created" /\ e = [debt |-> p, principal |-> call[p].principal, entry |-> p]
    BY <1>1 DEF EventInv
  <2>2. /\ CallStage(p) /\ Written(p)
    BY DEF ServiceInv, CallInv
  <2>3. /\ call[p] \in Calls /\ pc[p] = "posted" /\ data[p] = DebtJournal(call[p])
        /\ debts[p] = [tenant |-> call[p].tenant, principal |-> call[p].principal,
                       status |-> "ACTIVE", entry |-> p]
    BY <2>1, <2>2 DEF CallStage, Working
  <2>4. entries[p] \in EntryRow /\ entries[p].status = "POSTED" /\ lines[p] = data[p].lines
    BY <2>2, <2>3 DEF Written
  <2>5. entries[p] # NoEntry
    BY <2>4, LedgerAssumption DEF EntryRow
  <2>6. debts[p] # NoDebt
    BY <2>3, CallsAssumption DEF CreateDebtRequest
  <2>7. entries[p].tenant = call[p].tenant
    BY <2>3, <2>5 DEF TenantInv, DebtJournal
  <2>8. DebitsOnce(lines[p], call[p].principal)
    BY <2>3, <2>4 DEF DebtJournal, DebitsOnce
  <2>9. getDebt(p).number = entries[p].number
    BY <2>3, CallsAssumption DEF getDebt
  <2> QED BY <2>1, <2>3, <2>4, <2>5, <2>6, <2>7, <2>8, <2>9 DEF IsPosted
<1>2. \A p \in Posters : svc[p] = "created" => \E e \in events : e.debt = p
  BY DEF EventInv
<1> QED BY <1>1, <1>2 DEF EventMeansBooked

\* Whoever sees a DEBT_CREATED event, or was answered, finds the debt linked to
\* a POSTED entry of its tenant that debits its principal, for ever.
THEOREM EventsCanBeTrusted == ServiceSpec => []EventMeansBooked
<1>1. ServiceInit => EventInv /\ TenantInv
  BY DEF ServiceInit, Init, EventInv, TenantInv
<1>2. EventInv /\ TenantInv /\ ServiceInv /\ CallInv /\ [ServiceNext]_allVars
        => (EventInv /\ TenantInv)'
  BY NextEventInv, NextTenantInv, ServiceStepIsEngineStep
<1> QED BY <1>1, <1>2, EventsAreBooked, ServiceInStep, PTL DEF ServiceSpec
-----------------------------------------------------------------------------
\* Whoever went past the checks of createDebt has left a debt, also if the call
\* has broken since: of its request, which is what the engine was given.
Backed(p) ==
  /\ svc[p] \notin {"idle", "direct", "refused"} =>
       /\ call[p] \in Calls /\ debts[p] # NoDebt
       /\ debts[p].tenant = call[p].tenant /\ debts[p].principal = call[p].principal
       /\ pc[p] # "idle" => data[p] = DebtJournal(call[p])
  /\ svc[p] \in {"linking", "recording", "created"} => pc[p] = "posted"
  /\ svc[p] \in {"idle", "refused"} => pc[p] = "idle"
  /\ svc[p] \in {"idle", "direct", "refused"} => debts[p] = NoDebt
BackedInv == \A p \in Posters : Backed(p)

\* The two lines of a debt debit its principal once.
LEMMA DebtJournalDebits ==
  ASSUME NEW c \in Calls PROVE TotalDebit(DebtJournal(c).lines) = c.principal
<1> DEFINE s == DebtJournal(c).lines
           f == Debits(s)
<1>1. /\ c.principal \in Int
      /\ DOMAIN f = {1} \cup {2} /\ f[1] = c.principal /\ f[2] = 0
  BY CallsAssumption DEF CreateDebtRequest, DebtJournal, Debits
<1> HIDE DEF f
<1>2. IsFiniteSet({1}) /\ {1} = {} \cup {1} /\ IsFiniteSet({})
  BY FS_Singleton, FS_EmptySet
<1>3. SumFunctionOnSet(f, {1}) = c.principal
  <2>1. SumFunctionOnSet(f, {} \cup {1}) = SumFunctionOnSet(f, {}) + f[1]
    BY <1>1, <1>2, SumAdd
  <2> QED BY <1>1, <1>2, <2>1, SumOfNone
<1>4. SumFunctionOnSet(f, {1} \cup {2}) = SumFunctionOnSet(f, {1}) + f[2]
  BY <1>1, <1>2, SumAdd
<1>5. SumFunctionOnSet(f, DOMAIN f) = c.principal
  BY <1>1, <1>3, <1>4
<1> QED BY <1>5 DEF f, TotalDebit, SumFunction

LEMMA NextBackedInv ==
  BackedInv /\ ServiceInv /\ CallInv /\ [ServiceNext]_allVars => BackedInv'
<1> SUFFICES ASSUME BackedInv, ServiceInv, CallInv, [ServiceNext]_allVars PROVE BackedInv'
  OBVIOUS
<1>0. /\ svc \in [Posters -> SvcValues] /\ DOMAIN call = Posters /\ DOMAIN debts = Posters
      /\ pc \in [Posters -> PcValues] /\ data \in [Posters -> Journals \cup {NoJournal}]
      /\ \A p \in Posters : Backed(p) /\ CallStage(p)
  BY DEF ServiceInv, CallInv, TypeOK, BackedInv
<1>1. ASSUME NEW p \in Posters, NEW c \in Calls, Refuse(p, c) PROVE BackedInv'
  BY <1>0, <1>1 DEF BackedInv, Backed, Refuse, vars, SvcValues
<1>2. ASSUME NEW p \in Posters, NEW c \in Calls, InsertDebt(p, c) PROVE BackedInv'
  <2> DEFINE d == [tenant |-> c.tenant, principal |-> c.principal, status |-> "ACTIVE",
                   entry |-> NoEntry]
  <2>1. d # NoDebt /\ d.tenant = c.tenant /\ d.principal = c.principal
    BY CallsAssumption DEF CreateDebtRequest
  <2>2. /\ svc'[p] = "posting" /\ call'[p] = c /\ debts'[p] = d /\ pc' = pc /\ data' = data
        /\ \A r \in Posters \ {p} :
             svc'[r] = svc[r] /\ call'[r] = call[r] /\ debts'[r] = debts[r]
    BY <1>0, <1>2 DEF InsertDebt, vars
  <2>3. pc[p] = "idle"
    BY <1>0, <1>2 DEF InsertDebt, Backed
  <2> HIDE DEF d
  <2>4. Backed(p)'
    BY <2>1, <2>2, <2>3 DEF Backed
  <2>5. ASSUME NEW r \in Posters \ {p} PROVE Backed(r)'
    BY <1>0, <2>2 DEF Backed, DebtJournal
  <2> QED BY <2>4, <2>5 DEF BackedInv
<1>3. ASSUME NEW p \in Posters, PostStep(p) PROVE BackedInv'
  <2>1. \A r \in Posters : r # p => pc'[r] = pc[r] /\ data'[r] = data[r] /\ svc'[r] = svc[r]
    BY <1>0, <1>3 DEF PostStep, CheckPeriod, Continue, ReadNumber, InsertEntry,
         InsertLine, MarkPosted, Returned
  <2>2. /\ data'[p] = DebtJournal(call[p]) /\ svc'[p] \in {"posting", "linking"}
        /\ svc'[p] = "linking" => pc'[p] = "posted"
    BY <1>0, <1>3 DEF PostStep, CheckPeriod, Continue, ReadNumber, InsertEntry,
         InsertLine, MarkPosted, Returned, CallStage, Working
  <2>3. call' = call /\ debts' = debts /\ svc[p] = "posting"
    BY <1>3 DEF PostStep
  <2> QED BY <1>0, <2>1, <2>2, <2>3 DEF BackedInv, Backed, DebtJournal
<1>4. ASSUME NEW p \in Posters, LinkEntry(p) PROVE BackedInv'
  <2> DEFINE d == [tenant |-> call[p].tenant, principal |-> call[p].principal,
                   status |-> "ACTIVE", entry |-> p]
  <2>1. debts'[p] = d /\ call[p] \in Calls
    BY <1>0, <1>4 DEF LinkEntry, CallStage, Working
  <2>2. d # NoDebt /\ d.tenant = call[p].tenant /\ d.principal = call[p].principal
    BY <2>1, CallsAssumption DEF CreateDebtRequest
  <2>3. /\ svc[p] = "linking" /\ svc'[p] = "recording" /\ call' = call /\ pc' = pc /\ data' = data
        /\ \A r \in Posters \ {p} : svc'[r] = svc[r] /\ debts'[r] = debts[r]
    BY <1>0, <1>4 DEF LinkEntry, vars
  <2> HIDE DEF d
  <2> QED BY <1>0, <2>1, <2>2, <2>3 DEF BackedInv, Backed, DebtJournal
<1>5. ASSUME NEW p \in Posters, RecordEvent(p) PROVE BackedInv'
  BY <1>0, <1>5 DEF BackedInv, Backed, RecordEvent, vars, DebtJournal
<1>6. ASSUME NEW p \in Posters, Break(p) PROVE BackedInv'
  <2>1. /\ svc[p] \in Working /\ svc'[p] = "failed" /\ call' = call /\ debts' = debts
        /\ data' = data /\ (pc'[p] = pc[p] \/ pc[p] \in InCall)
        /\ \A r \in Posters \ {p} : svc'[r] = svc[r] /\ pc'[r] = pc[r]
    BY <1>0, <1>6 DEF Break, Fail, vars
  <2> QED BY <1>0, <2>1 DEF BackedInv, Backed, Working, InCall, DebtJournal
<1>7. ASSUME NEW p \in Posters, svc[p] \in {"idle", "direct"},
             svc' = [svc EXCEPT ![p] = "direct"], call' = call, debts' = debts,
             \A r \in Posters \ {p} : pc'[r] = pc[r] /\ data'[r] = data[r]
      PROVE  BackedInv'
  BY <1>0, <1>7 DEF BackedInv, Backed, DebtJournal
<1>8. ASSUME NEW p \in Posters, NEW j \in Direct, Post(p, j) PROVE BackedInv'
  BY <1>0, <1>7, <1>8 DEF Post, CheckPeriod
<1>9. ASSUME NEW p \in Posters, DirectStep(p) \/ DirectFail(p) PROVE BackedInv'
  <2>1. svc[p] = "direct" /\ svc' = [svc EXCEPT ![p] = "direct"] /\ call' = call /\ debts' = debts
    BY <1>0, <1>9 DEF DirectStep, DirectFail, svcVars
  <2>2. \A r \in Posters \ {p} : pc'[r] = pc[r] /\ data'[r] = data[r]
    BY <1>0, <1>9 DEF DirectStep, DirectFail, Continue, ReadNumber, InsertEntry, InsertLine,
         MarkPosted, Fail
  <2> QED BY <1>7, <2>1, <2>2
<1>10. CASE UNCHANGED <<pc, data, svcVars>>
  BY <1>0, <1>10 DEF BackedInv, svcVars, Backed, DebtJournal
<1>11. ASSUME NEW q \in Periods, ClosePeriod(q), UNCHANGED svcVars PROVE BackedInv'
  BY <1>10, <1>11 DEF ClosePeriod
<1>12. CASE UNCHANGED allVars
  BY <1>10, <1>12 DEF allVars, vars
<1> QED
  BY <1>1, <1>2, <1>3, <1>4, <1>5, <1>6, <1>8, <1>9, <1>11, <1>12 DEF ServiceNext, CreateStep

LEMMA BackedMeansCovered ==
  BackedInv /\ ServiceInv /\ TenantInv /\ CallInv => BookBackedByDebts
<1> SUFFICES ASSUME BackedInv, ServiceInv, TenantInv, CallInv, NEW t \in Tenants
             PROVE  LET booked == {p \in PostedRows(t) : svc[p] # "direct"} IN
                    /\ SumFunction([p \in booked |-> TotalDebit(lines[p])])
                         <= SumFunction([p \in Owing(t) |-> debts[p].principal])
                    /\ \A p \in Backing(t) \ Owing(t) : entries[p] = NoEntry /\ svc[p] # "created"
  BY DEF BookBackedByDebts
<1> DEFINE booked == {p \in PostedRows(t) : svc[p] # "direct"}
           f == [p \in booked |-> TotalDebit(lines[p])]
           g == [p \in Owing(t) |-> debts[p].principal]
<1>0. ASSUME NEW p \in Posters, pc[p] \notin {"idle", "rejected"}, debts[p] # NoDebt
      PROVE  debts[p].principal > 0
  <2>1. svc[p] \notin {"idle", "direct", "refused"}
    BY <1>0 DEF BackedInv, Backed
  <2>2. /\ call[p] \in Calls /\ data[p] = DebtJournal(call[p])
        /\ debts[p].principal = call[p].principal
    BY <1>0, <2>1 DEF BackedInv, Backed
  <2>3. validateDoubleEntry(data[p].lines)
    BY <1>0 DEF CallInv, Validated, TypeOK, PcValues, InCall
  <2> QED BY <2>2, <2>3, DebtJournalDebits DEF validateDoubleEntry
<1>1. ASSUME NEW p \in booked
      PROVE  p \in Owing(t) /\ f[p] = g[p]
  <2>1. p \in Posters /\ entries[p] # NoEntry /\ entries[p].status = "POSTED"
        /\ entries[p].tenant = t /\ svc[p] # "direct"
    BY DEF PostedRows, Rows, IsPosted
  <2>2. pc[p] = "posted" /\ lines[p] = data[p].lines
    BY <2>1 DEF CallInv, Written, TypeOK, PcValues, InCall
  <2>3. /\ call[p] \in Calls /\ debts[p] # NoDebt /\ data[p] = DebtJournal(call[p])
        /\ debts[p].tenant = call[p].tenant /\ debts[p].principal = call[p].principal
    BY <2>1, <2>2 DEF BackedInv, Backed
  <2>4. debts[p].tenant = t
    BY <2>1, <2>3 DEF TenantInv, DebtJournal
  <2>5. TotalDebit(lines[p]) = call[p].principal
    BY <2>2, <2>3, DebtJournalDebits
  <2>6. debts[p].principal > 0
    BY <1>0, <2>1, <2>2, <2>3
  <2> QED BY <2>1, <2>3, <2>4, <2>5, <2>6 DEF Backing, Owing
<1>2. IsFiniteSet(Owing(t)) /\ IsFiniteSet(booked) /\ booked \in SUBSET Owing(t)
  <2>1. IsFiniteSet(Owing(t))
    <3>1. Owing(t) \in SUBSET Posters
      BY DEF Owing, Backing
    <3> QED BY <3>1, LedgerAssumption, FS_Subset
  <2>2. booked \in SUBSET Owing(t)
    BY <1>1
  <2> HIDE DEF booked
  <2> QED BY <2>1, <2>2, FS_Subset
<1>3. \A p \in Owing(t) : g[p] \in Nat
  <2> SUFFICES ASSUME NEW p \in Owing(t) PROVE debts[p].principal \in Nat
    OBVIOUS
  <2>1. p \in Posters /\ debts[p] # NoDebt /\ debts[p].principal > 0
    BY DEF Owing, Backing
  <2>2. svc[p] \notin {"idle", "direct", "refused"} => debts[p].principal \in Nat
    BY <2>1, CallsAssumption DEF BackedInv, Backed, CreateDebtRequest
  <2>3. svc[p] \notin {"idle", "direct", "refused"}
    BY <2>1 DEF BackedInv, Backed
  <2> QED BY <2>2, <2>3
<1>4. SumFunctionOnSet(f, booked) = SumFunctionOnSet(g, booked)
  <2> HIDE DEF f, g, booked
  <2> QED BY <1>1, <1>2, SumAgrees
<1>5. SumFunctionOnSet(g, booked) <= SumFunctionOnSet(g, Owing(t))
  <2> HIDE DEF g, booked
  <2> QED BY <1>2, <1>3, SumOfPart
<1>6. ASSUME NEW p \in Backing(t) \ Owing(t) PROVE entries[p] = NoEntry /\ svc[p] # "created"
  <2>1. p \in Posters /\ debts[p] # NoDebt /\ ~(debts[p].principal > 0)
    BY DEF Backing, Owing
  <2>2. pc[p] \in {"idle", "rejected"}
    BY <1>0, <2>1
  <2>3. entries[p] = NoEntry
    BY <2>1, <2>2 DEF CallInv, Written
  <2>4. svc[p] # "created"
    BY <2>1, <2>2 DEF BackedInv, Backed
  <2> QED BY <2>3, <2>4
<1> QED BY <1>4, <1>5, <1>6 DEF SumFunction

\* What the POSTED entries of a tenant's debts debit is never more than the
\* principal of its debts that owe something, whichever call broke where, and
\* a debt of nothing or less, which createDebt also inserts, is in no book.
THEOREM LedgerBackedByDebts == ServiceSpec => []BookBackedByDebts
<1>1. ServiceInit => BackedInv /\ TenantInv
  BY DEF ServiceInit, Init, BackedInv, Backed, TenantInv
<1>2. BackedInv /\ TenantInv /\ ServiceInv /\ CallInv /\ [ServiceNext]_allVars
        => (BackedInv /\ TenantInv)'
  BY NextBackedInv, NextTenantInv, ServiceStepIsEngineStep
<1> QED BY <1>1, <1>2, BackedMeansCovered, ServiceInStep, PTL DEF ServiceSpec

\* Beneath the debt service too the ledger of every tenant is balanced, account
\* against account.
THEOREM ServiceLedgerBalanced == ServiceSpec => []LedgerBalanced
BY ServiceUsesEngine, LedgerAlwaysBalanced, PTL
=============================================================================
