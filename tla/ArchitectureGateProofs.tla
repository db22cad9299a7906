------------------------- MODULE ArchitectureGateProofs -------------------------
(***************************************************************************)
(* Proofs about the import checks, for any files, directories and imports. *)
(*                                                                         *)
(* detectCycles is right about every import graph: what it reports is a    *)
(* cycle, and it reports nothing only if there is none. PathInv says what  *)
(* the pending calls of dfs are; while nothing has been reported, FreeInv  *)
(* says that what dfs is done with is closed under imports and holds no    *)
(* cycle: a module is done only after everything it imports. The tools that*)
(* run before it, the guard and the graph engine, come at the end.         *)
(***************************************************************************)
EXTENDS ArchitectureGate, SequenceTheorems, TLAPS

Done == visited \ stack

PathInv ==
  /\ stack = {path[i] : i \in 1 .. Len(path)}
  /\ \A i, j \in 1 .. Len(path) : path[i] = path[j] => i = j
  /\ IsWalk(path)
  /\ \A n \in Nodes : todo[n] \subseteq Successors(edges, n)

\* What a pending call has come to is done, or is the next pending call.
LoopsAhead ==
  \A i \in 1 .. Len(path) : \A m \in Successors(edges, path[i]) \ todo[path[i]] :
    m \in Done \/ (i < Len(path) /\ m = path[i + 1])

FreeInv ==
  /\ \A n \in Nodes \ visited : todo[n] = Successors(edges, n)
  /\ From(edges) \subseteq roots \cup visited
  /\ LoopsAhead
  /\ \A n \in Done : Successors(edges, n) \subseteq Done
  /\ \A S \in SUBSET Done : ~Cyclic(S)

SearchInv == SearchTypeOK /\ PathInv /\ CyclesAreReal /\ (cycles = {} => FreeInv)

-----------------------------------------------------------------------------
LEMMA InitSearchInv == Init => SearchInv
<1> SUFFICES ASSUME NEW es \in SUBSET (Nodes \X Nodes), Begin(es) PROVE SearchInv
  BY DEF Init
<1>1. SearchTypeOK
  BY DEF Begin, SearchTypeOK, From, Successors
<1>2. PathInv
  BY DEF Begin, PathInv, IsWalk, Successors
<1>3. CyclesAreReal
  BY DEF Begin, CyclesAreReal
<1>4. FreeInv
  BY DEF Begin, FreeInv, LoopsAhead, Done, Cyclic, Successors, From
<1> QED BY <1>1, <1>2, <1>3, <1>4 DEF SearchInv

\* A new pending call keeps the path a walk without repetitions.
LEMMA EnterPath ==
  ASSUME SearchTypeOK, PathInv, NEW n \in Nodes, Enters(n), Enter(n), edges' = edges,
         path # <<>> => <<Last(path), n>> \in edges,
         todo' \in [Nodes -> SUBSET Nodes], \A m \in Nodes : todo'[m] \subseteq todo[m]
  PROVE  PathInv' /\ path' \in Seq(Nodes) /\ stack' \subseteq visited'
<1>1. /\ path \in Seq(Nodes) /\ path' = Append(path, n) /\ Len(path') = Len(path) + 1
      /\ path'[Len(path) + 1] = n /\ \A i \in 1 .. Len(path) : path'[i] = path[i]
  BY DEF SearchTypeOK, Enter
<1>2. stack' = {path'[i] : i \in 1 .. Len(path')}
  BY <1>1 DEF PathInv, Enter
<1>3. \A i \in 1 .. Len(path) : path[i] # n
  BY DEF Enters, PathInv
<1>4. \A i, j \in 1 .. Len(path') : path'[i] = path'[j] => i = j
  BY <1>1, <1>3 DEF PathInv
<1>5. IsWalk(path)'
  <2> SUFFICES ASSUME NEW k \in 1 .. Len(path') - 1 PROVE <<path'[k], path'[k + 1]>> \in edges
    BY DEF IsWalk
  <2>0. path # <<>> /\ k \in 1 .. Len(path)
    BY <1>1
  <2>1. CASE k = Len(path)
    BY <1>1, <2>0, <2>1 DEF Last
  <2>2. CASE k # Len(path)
    BY <1>1, <2>2 DEF PathInv, IsWalk
  <2> QED BY <2>1, <2>2
<1>6. \A m \in Nodes : todo'[m] \subseteq Successors(edges', m)
  BY DEF PathInv
<1> QED BY <1>1, <1>2, <1>4, <1>5, <1>6 DEF PathInv, Enter, SearchTypeOK

\* Closing the path at one of its nodes gives a cycle.
LEMMA CloseReal ==
  ASSUME SearchTypeOK, PathInv, CyclesAreReal, NEW n \in Nodes, n \in stack,
         <<Last(path), n>> \in edges, edges' = edges,
         cycles' = cycles \cup {Append(path, n)}
  PROVE  CyclesAreReal' /\ cycles' \subseteq Seq(Nodes)
<1> DEFINE p == Append(path, n)
<1>1. /\ path \in Seq(Nodes) /\ p \in Seq(Nodes) /\ Len(p) = Len(path) + 1
      /\ p[Len(p)] = n /\ \A i \in 1 .. Len(path) : p[i] = path[i]
  BY DEF SearchTypeOK
<1>2. PICK k \in 1 .. Len(path) : path[k] = n
  BY DEF PathInv
<1>3. \A i \in 1 .. Len(p) - 1 : <<p[i], p[i + 1]>> \in edges
  <2> SUFFICES ASSUME NEW i \in 1 .. Len(p) - 1 PROVE <<p[i], p[i + 1]>> \in edges
    OBVIOUS
  <2>1. CASE i = Len(path)
    BY <1>1, <2>1 DEF Last
  <2>2. CASE i # Len(path)
    BY <1>1, <2>2 DEF PathInv, IsWalk
  <2> QED BY <2>1, <2>2
<1>4. IsWalk(p) /\ \E i \in 1 .. Len(p) - 1 : p[i] = Last(p)
  BY <1>1, <1>2, <1>3 DEF IsWalk, Last
<1> HIDE DEF p
<1>5. \A q \in cycles' : (IsWalk(q) /\ \E i \in 1 .. Len(q) - 1 : q[i] = Last(q))'
  BY <1>4 DEF CyclesAreReal, IsWalk, p
<1>6. cycles' \subseteq Seq(Nodes)
  BY <1>1 DEF SearchTypeOK, p
<1> QED BY <1>5, <1>6 DEF CyclesAreReal

-----------------------------------------------------------------------------
LEMMA RootSearchInv == ASSUME SearchInv, NEW n \in Nodes, Root(n) PROVE SearchInv'
<1>0. /\ SearchTypeOK /\ PathInv /\ CyclesAreReal /\ (cycles = {} => FreeInv)
      /\ path = <<>> /\ stack = {} /\ n \in roots
  BY DEF SearchInv, PathInv, Root
<1>1. /\ roots' = roots \ {n} /\ edges' = edges /\ todo' = todo /\ cycles' = cycles
      /\ IF Enters(n) THEN Enter(n) ELSE UNCHANGED <<visited, stack, path>>
  BY <1>0 DEF Root, Call, Closes
<1>2. CyclesAreReal'
  BY <1>0, <1>1 DEF CyclesAreReal, IsWalk
<1>3. CASE ~Enters(n)
  <2>1. UNCHANGED <<visited, stack, path>> /\ n \in visited
    BY <1>0, <1>1, <1>3 DEF Enters
  <2>2. SearchTypeOK' /\ PathInv'
    BY <1>0, <1>1, <2>1 DEF SearchTypeOK, PathInv, IsWalk
  <2>3. cycles' = {} => FreeInv'
    BY <1>0, <1>1, <2>1 DEF FreeInv, LoopsAhead, Done, Cyclic
  <2> QED BY <1>2, <2>2, <2>3 DEF SearchInv
<1>4. CASE Enters(n)
  <2>1. Enter(n)
    BY <1>1, <1>4
  <2>2. PathInv' /\ path' \in Seq(Nodes) /\ stack' \subseteq visited'
    BY <1>0, <1>1, <1>4, <2>1, EnterPath DEF SearchTypeOK
  <2>3. SearchTypeOK'
    BY <1>0, <1>1, <2>1, <2>2 DEF SearchTypeOK, Enter
  <2>4. path' = <<n>> /\ Done' = Done /\ visited' = visited \cup {n}
    BY <1>0, <1>4, <2>1 DEF Enter, Enters, Done
  <2>5. cycles' = {} => FreeInv'
    <3> SUFFICES ASSUME FreeInv PROVE FreeInv'
      BY <1>0, <1>1
    <3>1. LoopsAhead'
      <4>1. todo[n] = Successors(edges, n)
        BY <1>4 DEF FreeInv, Enters
      <4> QED BY <1>1, <2>4, <4>1 DEF LoopsAhead
    <3> QED BY <1>1, <2>4, <3>1 DEF FreeInv, Cyclic
  <2> QED BY <1>2, <2>2, <2>3, <2>5 DEF SearchInv
<1> QED BY <1>3, <1>4

LEMMA DescendSearchInv == ASSUME SearchInv, NEW n \in Nodes, Descend(n) PROVE SearchInv'
<1> DEFINE top == Last(path)
<1>0. /\ SearchTypeOK /\ PathInv /\ CyclesAreReal /\ (cycles = {} => FreeInv)
      /\ path \in Seq(Nodes) /\ path # <<>> /\ n \in todo[top]
  BY DEF SearchInv, SearchTypeOK, Descend
<1>1. /\ top \in Nodes /\ top \in stack /\ Len(path) \in 1 .. Len(path) /\ top = path[Len(path)]
  BY <1>0 DEF PathInv, Last
<1>2. n \in Successors(edges, top) /\ <<top, n>> \in edges
  BY <1>0, <1>1 DEF PathInv, Successors
<1> HIDE DEF top
<1>3. /\ roots' = roots /\ edges' = edges /\ todo' = [todo EXCEPT ![top] = @ \ {n}]
      /\ IF Enters(n) THEN Enter(n) ELSE UNCHANGED <<visited, stack, path>>
      /\ cycles' = IF Closes(n) THEN cycles \cup {Append(path, n)} ELSE cycles
  BY DEF Descend, Call, top
<1>4. /\ todo' \in [Nodes -> SUBSET Nodes] /\ \A m \in Nodes : todo'[m] \subseteq todo[m]
      /\ todo'[top] = todo[top] \ {n} /\ \A m \in Nodes \ {top} : todo'[m] = todo[m]
  BY <1>0, <1>1, <1>3 DEF SearchTypeOK
<1>5. CyclesAreReal' /\ cycles' \subseteq Seq(Nodes)
  <2>1. CASE Closes(n)
    BY <1>0, <1>2, <1>3, <2>1, CloseReal DEF Closes, top
  <2>2. CASE ~Closes(n)
    BY <1>0, <1>3, <2>2 DEF CyclesAreReal, IsWalk, SearchTypeOK
  <2> QED BY <2>1, <2>2
<1>6. CASE ~Enters(n)
  <2>1. UNCHANGED <<visited, stack, path>>
    BY <1>3, <1>6
  <2>2. SearchTypeOK' /\ PathInv'
    BY <1>0, <1>3, <1>4, <1>5, <2>1 DEF SearchTypeOK, PathInv, IsWalk
  <2>3. cycles' = {} => FreeInv'
    <3> SUFFICES ASSUME cycles' = {} PROVE FreeInv'
      OBVIOUS
    <3>1. cycles = {} /\ ~Closes(n) /\ FreeInv
      BY <1>0, <1>3
    <3>2. n \in Done /\ Done' = Done
      BY <1>6, <2>1, <3>1 DEF Enters, Closes, Done
    <3>3. LoopsAhead'
      <4> SUFFICES ASSUME NEW i \in 1 .. Len(path),
                          NEW m \in Successors(edges, path[i]) \ todo'[path[i]]
                   PROVE  m \in Done \/ (i < Len(path) /\ m = path[i + 1])
        BY <1>3, <2>1, <3>2 DEF LoopsAhead
      <4>1. path[i] \in Nodes
        BY <1>0
      <4>2. m = n \/ m \notin todo[path[i]]
        BY <1>4, <4>1
      <4> QED BY <3>1, <3>2, <4>2 DEF FreeInv, LoopsAhead
    <3>4. \A m \in Nodes \ visited : todo'[m] = todo[m]
      BY <1>0, <1>1, <1>4 DEF SearchTypeOK
    <3> QED BY <1>3, <2>1, <3>1, <3>2, <3>3, <3>4 DEF FreeInv, Cyclic
  <2> QED BY <1>5, <2>2, <2>3 DEF SearchInv
<1>7. CASE Enters(n)
  <2>1. Enter(n) /\ ~Closes(n) /\ n \notin visited /\ n \notin stack
    BY <1>3, <1>7 DEF Enters, Closes
  <2>2. PathInv' /\ path' \in Seq(Nodes) /\ stack' \subseteq visited'
    BY <1>0, <1>2, <1>3, <1>4, <1>7, <2>1, EnterPath DEF top
  <2>3. SearchTypeOK'
    BY <1>0, <1>3, <1>4, <1>5, <2>1, <2>2 DEF SearchTypeOK, Enter
  <2>4. /\ path' = Append(path, n) /\ Len(path') = Len(path) + 1 /\ path'[Len(path) + 1] = n
        /\ \A i \in 1 .. Len(path) : path'[i] = path[i]
        /\ Done' = Done /\ visited' = visited \cup {n}
    BY <1>0, <2>1 DEF Enter, Done
  <2>5. cycles' = {} => FreeInv'
    <3> SUFFICES ASSUME FreeInv PROVE FreeInv'
      BY <1>0, <1>3, <2>1
    <3>1. LoopsAhead'
      <4> SUFFICES ASSUME NEW i \in 1 .. Len(path'),
                          NEW m \in Successors(edges, path'[i]) \ todo'[path'[i]]
                   PROVE  m \in Done \/ (i < Len(path') /\ m = path'[i + 1])
        BY <1>3, <2>4 DEF LoopsAhead
      <4>1. CASE i = Len(path')
        <5>1. path'[i] = n /\ n # top
          BY <1>1, <2>1, <2>4, <4>1
        <5>2. todo'[n] = Successors(edges, n)
          BY <1>4, <2>1, <5>1 DEF FreeInv
        <5> QED BY <5>1, <5>2
      <4>2. CASE i = Len(path)
        <5>1. path'[i] = top
          BY <1>1, <2>4, <4>2
        <5>2. m = n \/ m \notin todo[path[i]]
          BY <1>1, <1>4, <4>2, <5>1
        <5>3. m = n \/ m \in Done
          BY <1>1, <4>2, <5>1, <5>2 DEF FreeInv, LoopsAhead
        <5> QED BY <1>0, <2>4, <4>2, <5>3
      <4>3. CASE i < Len(path)
        <5>1. /\ i \in 1 .. Len(path) /\ path'[i] = path[i] /\ path'[i + 1] = path[i + 1]
              /\ path[i] \in Nodes
          BY <1>0, <2>4, <4>3
        <5>2. path[i] # top
          BY <1>0, <1>1, <4>3, <5>1 DEF PathInv
        <5>3. m \notin todo[path[i]]
          BY <1>4, <5>1, <5>2
        <5> QED BY <2>4, <4>3, <5>1, <5>3 DEF FreeInv, LoopsAhead
      <4> QED BY <1>0, <2>4, <4>1, <4>2, <4>3
    <3>2. \A m \in Nodes \ visited' : todo'[m] = Successors(edges, m)
      BY <1>0, <1>1, <1>4, <2>4 DEF FreeInv, SearchTypeOK
    <3> QED BY <1>3, <2>4, <3>1, <3>2 DEF FreeInv, Cyclic
  <2> QED BY <1>5, <2>2, <2>3, <2>5 DEF SearchInv
<1> QED BY <1>6, <1>7

\* A call that ends leaves a module with nothing but done imports: a cycle
\* through it would go on without it.
LEMMA ReturnSearchInv == ASSUME SearchInv, Return PROVE SearchInv'
<1> DEFINE top == Last(path)
<1>0. /\ SearchTypeOK /\ PathInv /\ CyclesAreReal /\ (cycles = {} => FreeInv)
      /\ path \in Seq(Nodes) /\ path # <<>> /\ todo[top] = {}
      /\ UNCHANGED <<edges, roots, todo, visited, cycles>>
      /\ stack' = stack \ {top} /\ path' = SubSeq(path, 1, Len(path) - 1)
  BY DEF SearchInv, SearchTypeOK, Return, Deleted
<1>1. /\ top \in Nodes /\ top \in stack /\ Len(path) \in 1 .. Len(path) /\ top = path[Len(path)]
  BY <1>0 DEF PathInv, Last
<1> HIDE DEF top
<1>2. /\ path' \in Seq(Nodes) /\ Len(path') = Len(path) - 1
      /\ \A i \in 1 .. Len(path') : path'[i] = path[i]
  <2>1. Len(path) \in Nat \ {0} /\ \A i \in 1 .. Len(path) - 1 : path[i] \in Nodes
    BY <1>0, <1>1
  <2>2. /\ SubSeq(path, 1, Len(path) - 1) \in Seq(Nodes)
        /\ Len(SubSeq(path, 1, Len(path) - 1)) =
             IF 1 <= Len(path) - 1 THEN Len(path) - 1 - 1 + 1 ELSE 0
        /\ \A i \in 1 .. Len(path) - 1 - 1 + 1 : SubSeq(path, 1, Len(path) - 1)[i] = path[1 + i - 1]
    BY <2>1, SubSeqProperties
  <2>3. path' \in Seq(Nodes) /\ Len(path') = Len(path) - 1
    <3>1. Len(path') = IF 1 <= Len(path) - 1 THEN Len(path) - 1 - 1 + 1 ELSE 0
      BY <1>0, <2>2, Zenon
    <3>2. Len(path') = Len(path) - 1
      <4>1. \A k \in Nat \ {0} : (IF 1 <= k - 1 THEN k - 1 - 1 + 1 ELSE 0) = k - 1
        OBVIOUS
      <4>2. Len(path) \in Nat \ {0}
        BY <2>1
      <4> QED BY <3>1, <4>1, <4>2
    <3>3. path' \in Seq(Nodes)
      BY <1>0, <2>2, Zenon
    <3> QED BY <3>2, <3>3
  <2>4. ASSUME NEW i \in 1 .. Len(path') PROVE path'[i] = path[i]
    <3>1. i \in 1 .. Len(path) - 1 - 1 + 1 /\ 1 + i - 1 = i
      BY <2>1, <2>3
    <3>2. path'[i] = path[1 + i - 1]
      BY <1>0, <2>2, <3>1
    <3> QED BY <3>1, <3>2
  <2> QED BY <2>3, <2>4
<1>3. SearchTypeOK' /\ CyclesAreReal'
  BY <1>0, <1>2 DEF SearchTypeOK, CyclesAreReal, IsWalk
<1>4. PathInv'
  <2>1. stack' = {path'[i] : i \in 1 .. Len(path')}
    <3>1. stack = {path[i] : i \in 1 .. Len(path)} /\ stack' = stack \ {top}
      BY <1>0, <1>1 DEF PathInv
    <3>2. ASSUME NEW x \in stack' PROVE \E i \in 1 .. Len(path') : x = path'[i]
      <4>1. PICK i \in 1 .. Len(path) : x = path[i]
        BY <3>1, <3>2
      <4>2. i # Len(path)
        BY <1>1, <3>1, <3>2, <4>1
      <4>3. i \in 1 .. Len(path')
        BY <1>1, <1>2, <4>2
      <4> QED BY <1>2, <4>1, <4>3
    <3>3. ASSUME NEW i \in 1 .. Len(path') PROVE path'[i] \in stack'
      <4>1. path'[i] = path[i] /\ i \in 1 .. Len(path) /\ i # Len(path)
        BY <1>1, <1>2
      <4>2. \A j \in 1 .. Len(path) : path[i] = path[j] => i = j
        BY <1>0, <4>1 DEF PathInv
      <4>3. path[i] # top
        BY <1>1, <4>1, <4>2
      <4> QED BY <3>1, <4>1, <4>3
    <3> QED BY <3>2, <3>3
  <2>2. \A i, j \in 1 .. Len(path') : path'[i] = path'[j] => i = j
    BY <1>0, <1>1, <1>2 DEF PathInv
  <2>3. IsWalk(path)'
    BY <1>0, <1>1, <1>2 DEF PathInv, IsWalk
  <2> QED BY <1>0, <2>1, <2>2, <2>3 DEF PathInv
<1>5. ASSUME FreeInv PROVE FreeInv'
  <2>1. Successors(edges, top) \subseteq Done
    BY <1>0, <1>1, <1>5 DEF FreeInv, LoopsAhead
  <2>2. Done' = Done \cup {top} /\ top \notin Done
    BY <1>0, <1>1 DEF Done, SearchTypeOK
  <2>3. LoopsAhead'
    <3> SUFFICES ASSUME NEW i \in 1 .. Len(path'),
                        NEW m \in Successors(edges, path'[i]) \ todo[path'[i]]
                 PROVE  m \in Done' \/ (i < Len(path') /\ m = path'[i + 1])
      BY <1>0 DEF LoopsAhead
    <3>1. i \in 1 .. Len(path) /\ path'[i] = path[i] /\ i < Len(path)
      BY <1>0, <1>1, <1>2
    <3>2. m \in Done \/ m = path[i + 1]
      BY <1>5, <3>1 DEF FreeInv, LoopsAhead
    <3>3. CASE i + 1 = Len(path)
      BY <1>1, <2>2, <3>2, <3>3
    <3>4. CASE i + 1 # Len(path)
      BY <1>1, <1>2, <2>2, <3>1, <3>2, <3>4
    <3> QED BY <3>3, <3>4
  <2>4. \A n \in Done' : Successors(edges, n) \subseteq Done'
    BY <1>5, <2>1, <2>2 DEF FreeInv
  <2>5. ASSUME NEW S \in SUBSET Done', Cyclic(S) PROVE FALSE
    <3>1. CASE top \notin S
      BY <1>5, <2>2, <2>5, <3>1 DEF FreeInv
    <3>2. CASE top \in S
      <4> DEFINE R == S \ {top}
      <4>0. S \subseteq Nodes
        BY <1>0, <1>1, <2>2 DEF Done, SearchTypeOK
      <4>1. PICK v \in S : <<top, v>> \in edges
        BY <2>5, <3>2 DEF Cyclic
      <4>2. v \in R
        BY <2>1, <2>2, <4>0, <4>1 DEF Successors
      <4>3. ASSUME NEW u \in R PROVE \E w \in R : <<u, w>> \in edges
        <5>1. PICK w \in S : <<u, w>> \in edges
          BY <2>5 DEF Cyclic
        <5>2. w \in Successors(edges, u) /\ u \in Done
          BY <2>2, <4>0, <5>1 DEF Successors
        <5>3. w \in Done
          BY <1>5, <5>2 DEF FreeInv
        <5> QED BY <2>2, <5>1, <5>3
      <4>4. R \in SUBSET Done /\ Cyclic(R)
        BY <2>2, <4>2, <4>3 DEF Cyclic
      <4> QED BY <1>5, <4>4 DEF FreeInv
    <3> QED BY <3>1, <3>2
  <2> QED BY <1>0, <1>5, <2>3, <2>4, <2>5 DEF FreeInv, Cyclic
<1> QED BY <1>0, <1>3, <1>4, <1>5 DEF SearchInv

-----------------------------------------------------------------------------
LEMMA SearchStepInv == SearchInv /\ [Next]_search => SearchInv'
<1>1. ASSUME SearchInv, UNCHANGED search PROVE SearchInv'
  <2>1. SearchTypeOK' /\ PathInv' /\ CyclesAreReal'
    BY <1>1 DEF search, SearchInv, SearchTypeOK, PathInv, CyclesAreReal, IsWalk
  <2>2. Done' = Done
    BY <1>1 DEF search, Done
  <2>3. cycles' = {} => FreeInv'
    BY <1>1, <2>2 DEF search, SearchInv, FreeInv, LoopsAhead, Cyclic
  <2> QED BY <2>1, <2>3 DEF SearchInv
<1> QED BY <1>1, RootSearchInv, DescendSearchInv, ReturnSearchInv DEF Next

\* SearchInv holds in every state of a search of any graph.
THEOREM SearchInvariant == Spec => []SearchInv
BY InitSearchInv, SearchStepInv, PTL DEF Spec

LEMMA SearchFindsCycles == SearchInv => CyclesFound
<1> SUFFICES ASSUME SearchInv, Returned, cycles = {}, NEW S \in SUBSET Nodes, Cyclic(S)
             PROVE  FALSE
  BY DEF CyclesFound
<1>1. FreeInv /\ stack = {} /\ roots = {}
  BY DEF SearchInv, PathInv, Returned
<1>2. \A u \in S : u \in From(edges)
  <2> SUFFICES ASSUME NEW u \in S PROVE u \in From(edges)
    OBVIOUS
  <2>1. PICK v \in S : <<u, v>> \in edges
    BY DEF Cyclic
  <2> QED BY <2>1 DEF From
<1>3. S \subseteq Done
  BY <1>1, <1>2 DEF FreeInv, Done
<1> QED BY <1>1, <1>3 DEF FreeInv

\* Of every import graph, however large: what detectCycles reports is a walk
\* along imports that closes, and it reports nothing only where there is none.
THEOREM SearchReportsCycles == Spec => []CyclesReported
<1>1. SearchInv => CyclesReported
  BY SearchFindsCycles DEF SearchInv, CyclesReported
<1> QED BY <1>1, SearchInvariant, PTL

-----------------------------------------------------------------------------
\* The tools one after the other: what each has left behind.

Fresh == path = <<>> /\ visited = {} /\ stack = {} /\ cycles = {}
Reported ==
  /\ stage # "guard" => violations = check
  /\ stage \notin {"guard", "policy"} => matches = grepped
  /\ stage \in {"parse", "search"} => graph = build
GateInv ==
  /\ imports \in Programs /\ Reported
  /\ stage # "search" => Fresh
  /\ SearchInv

LEMMA GateInitInv == GateInit => GateInv
<1> SUFFICES ASSUME GateInit PROVE GateInv
  OBVIOUS
<1>1. SearchInv
  BY InitSearchInv DEF GateInit, Init
<1> QED BY <1>1 DEF GateInit, Begin, GateInv, Reported, Fresh

LEMMA GateStepInv == GateInv /\ [GateNext]_<<gate, search>> => GateInv'
<1> SUFFICES ASSUME GateInv, [GateNext]_<<gate, search>> PROVE GateInv'
  OBVIOUS
<1>1. ASSUME UNCHANGED search, UNCHANGED imports
      PROVE  /\ SearchInv' /\ Fresh' = Fresh /\ check' = check /\ build' = build
             /\ grepped' = grepped
  <2>1. SearchInv /\ [Next]_search
    BY <1>1 DEF GateInv
  <2>2. SearchInv'
    BY <2>1, SearchStepInv
  <2> QED BY <1>1, <2>2 DEF search, Fresh, check, extractImports, build, matched, grepped
<1>2. CASE RunGuard
  BY <1>1, <1>2 DEF RunGuard, GateInv, Reported
<1>3. CASE RunPolicyGuard
  BY <1>1, <1>3 DEF RunPolicyGuard, GateInv, Reported
<1>4. CASE RunEngine
  BY <1>1, <1>4 DEF RunEngine, GateInv, Reported
<1>5. CASE Detect
  <2>1. getImportEdges \in SUBSET (Nodes \X Nodes)
    BY ProgramAssumption DEF GateInv, getImportEdges
  <2>2. Init'
    <3> DEFINE E == getImportEdges
    <3>1. /\ edges' = E /\ roots' = From(E) /\ todo' = [n \in Nodes |-> Successors(E, n)]
          /\ path' = <<>> /\ visited' = {} /\ stack' = {} /\ cycles' = {}
      BY <1>5 DEF Detect, GateInv, Fresh
    <3>2. E \in SUBSET (Nodes \X Nodes)
      BY <2>1
    <3> HIDE DEF E
    <3> QED BY <3>1, <3>2 DEF Init, Begin
  <2>3. /\ imports' = imports /\ violations' = violations /\ matches' = matches
        /\ graph' = graph /\ stage = "parse"
    BY <1>5 DEF Detect
  <2>4. SearchInv'
    BY <2>2, InitSearchInv, PTL
  <2> QED BY <1>5, <2>3, <2>4
          DEF Detect, GateInv, Reported, check, extractImports, build, matched, grepped
<1>6. CASE Search
  <2>1. SearchInv'
    BY <1>6, SearchStepInv DEF Search, GateInv
  <2> QED BY <1>6, <2>1
          DEF Search, gate, GateInv, Reported, check, extractImports, build, matched, grepped
<1>7. CASE UNCHANGED <<gate, search>>
  BY <1>1, <1>7 DEF gate, GateInv, Reported
<1> QED BY <1>2, <1>3, <1>4, <1>5, <1>6, <1>7 DEF GateNext

\* GateInv holds whenever the tools run on an allowed program.
THEOREM GateInvariant == GateSpec => []GateInv
BY GateInitInv, GateStepInv, PTL DEF GateSpec

\* The search on the edges of the parser is right about them, too.
THEOREM GateFindsCycles == GateSpec => []CyclesReported
<1>1. GateInv => CyclesReported
  BY SearchFindsCycles DEF GateInv, SearchInv, CyclesReported
<1> QED BY <1>1, GateInvariant, PTL

-----------------------------------------------------------------------------
\* resolveLayer answers with the first layer of Priority that is among the names.
LEMMA ResolvesToFirst ==
  ASSUME NEW names, NEW k \in 1 .. 4, Priority[k] \in names
  PROVE  \E j \in 1 .. k : Priority[j] \in names /\ resolveLayer(names) = Priority[j]
<1> DEFINE hits == {j \in 1 .. 4 : Priority[j] \in names}
           first == CHOOSE j \in hits : \A m \in hits : j <= m
<1>1. k \in hits /\ hits \subseteq 1 .. 4 /\ \A j \in hits : Priority[j] \in names
  OBVIOUS
<1>2. resolveLayer(names) = Priority[first]
  BY <1>1 DEF resolveLayer
<1> HIDE DEF hits
<1>3. \E j \in hits : \A m \in hits : j <= m
  <2>1. CASE 1 \in hits
    BY <1>1, <2>1
  <2>2. CASE 1 \notin hits /\ 2 \in hits
    BY <1>1, <2>2
  <2>3. CASE 1 \notin hits /\ 2 \notin hits /\ 3 \in hits
    BY <1>1, <2>3
  <2>4. CASE 1 \notin hits /\ 2 \notin hits /\ 3 \notin hits
    BY <1>1, <2>4
  <2> QED BY <2>1, <2>2, <2>3, <2>4
<1>4. first \in hits /\ \A m \in hits : first <= m
  BY <1>3
<1> HIDE DEF first
<1>5. first \in 1 .. k
  BY <1>1, <1>4
<1> QED BY <1>1, <1>2, <1>4, <1>5

\* With no layer among the names the answer is no layer.
LEMMA ResolvesOutside ==
  ASSUME NEW names, \A k \in 1 .. 4 : Priority[k] \notin names
  PROVE  resolveLayer(names) = "external"
<1>1. {j \in 1 .. 4 : Priority[j] \in names} = {}
  OBVIOUS
<1> QED BY <1>1 DEF resolveLayer

LEMMA PriorityLists ==
  /\ Priority[1] = "infrastructure" /\ Priority[2] = "application"
  /\ Priority[3] = "interfaces" /\ Priority[4] = "domain"
BY DEF Priority

LEMMA LayersInPriority ==
  /\ \A l \in Layers : \E k \in 1 .. 4 : Priority[k] = l
  /\ \A k \in 1 .. 4 : Priority[k] \in Layers
BY PriorityLists DEF Layers

LEMMA RulesByLayer ==
  /\ DOMAIN RULES = Layers
  /\ RULES["domain"] = {"infrastructure", "interfaces", "application"}
  /\ RULES["application"] = {"infrastructure"} /\ RULES["interfaces"] = {"infrastructure"}
  /\ RULES["infrastructure"] = {}
BY DEF RULES, Table, Layers

\* What a layer denies it denies with everything resolveLayer looks for earlier.
LEMMA DeniedFromTheFront ==
  ASSUME NEW l \in Layers, NEW k \in 1 .. 4, Priority[k] \in RULES[l], NEW j \in 1 .. k
  PROVE  Priority[j] \in RULES[l]
<1>1. CASE l = "domain"
  <2>1. k \in 1 .. 3
    BY <1>1, RulesByLayer, PriorityLists
  <2> QED BY <1>1, <2>1, RulesByLayer, PriorityLists
<1>2. CASE l \in {"application", "interfaces"}
  <2>1. k = 1
    BY <1>2, RulesByLayer, PriorityLists
  <2> QED BY <1>2, <2>1, RulesByLayer, PriorityLists
<1>3. CASE l = "infrastructure"
  BY <1>3, RulesByLayer
<1> QED BY <1>1, <1>2, <1>3 DEF Layers

LEMMA NoLayerDeniesItself == \A l \in Layers : l \notin RULES[l] /\ RULES[l] \subseteq Layers
BY RulesByLayer DEF Layers

\* What an alias leaves out of the text is where its target lies.
LEMMA AliasedPath ==
  ASSUME NEW P \in Programs, NEW i \in P, i.via \in Aliases
  PROVE  /\ i.via = "@app/" => i.tail = 1
         /\ i.via = "@infra/" => i.tail = 2
         /\ i.via = "@domain/" => getLayer(i.to) = "domain"
         /\ i.via = "@core/" => getLayer(i.to) = "core"
         /\ i.via \in {"@app-services/", "@app-ports/"} => getLayer(i.to) = "application"
<1> DEFINE dirs == import_map[i.via]
<1>1. i.to \in Nodes /\ Dirs[i.to] \in Seq(STRING)
  BY ProgramAssumption, FilesAssumption
<1>2. i.via # "relative" /\ i.tail = Len(dirs) + 1 /\ IsPrefix(dirs, Dirs[i.to])
  BY ProgramAssumption DEF Tails, Aliases
<1>3. /\ import_map["@app/"] = <<>> /\ import_map["@infra/"] = <<"infrastructure">>
      /\ import_map["@domain/"] = <<"domain">> /\ import_map["@core/"] = <<"core">>
      /\ import_map["@app-services/"] = <<"application", "services">>
      /\ import_map["@app-ports/"] = <<"application", "ports">>
  BY DEF import_map, Aliases
<1>4. dirs # <<>> => getLayer(i.to) = dirs[1]
  <2> SUFFICES ASSUME dirs # <<>> PROVE getLayer(i.to) = dirs[1]
    OBVIOUS
  <2> DEFINE names == {"infrastructure", "domain", "core", "application", "services", "ports"}
  <2>1. dirs \in Seq(names)
    <3>1. /\ <<"infrastructure">> \in Seq(names) /\ <<"domain">> \in Seq(names)
          /\ <<"core">> \in Seq(names)
      OBVIOUS
    <3>2. <<"application", "services">> \in Seq(names) /\ <<"application", "ports">> \in Seq(names)
      OBVIOUS
    <3>3. \/ dirs = <<>> \/ dirs = <<"infrastructure">> \/ dirs = <<"domain">> \/ dirs = <<"core">>
          \/ dirs = <<"application", "services">> \/ dirs = <<"application", "ports">>
      <4> HIDE DEF names
      <4> QED BY <1>3, Zenon DEF Aliases
    <3> QED BY <3>1, <3>2, <3>3
  <2>2. /\ Len(dirs) \in Nat /\ Len(dirs) >= 1 /\ Len(dirs) <= Len(Dirs[i.to])
        /\ SubSeq(dirs, 1, Len(dirs)) = SubSeq(Dirs[i.to], 1, Len(dirs))
    BY <1>2, <2>1 DEF IsPrefix
  <2> HIDE DEF dirs, names
  <2>3. SubSeq(dirs, 1, Len(dirs))[1] = dirs[1]
    BY <2>1, <2>2
  <2>4. SubSeq(Dirs[i.to], 1, Len(dirs))[1] = Dirs[i.to][1]
    BY <1>1, <2>2
  <2>5. Dirs[i.to] # <<>>
    BY <1>1, <2>2
  <2> QED BY <2>2, <2>3, <2>4, <2>5 DEF getLayer
<1>5. CASE i.via = "@app/"
  BY <1>2, <1>3, <1>5
<1>6. CASE i.via = "@infra/"
  <2>1. dirs = <<"infrastructure">>
    BY <1>3, <1>6
  <2>2. Len(dirs) = 1
    BY <2>1
  <2> QED BY <1>2, <1>6, <2>2
<1>7. CASE i.via = "@domain/"
  BY <1>3, <1>4, <1>7
<1>8. CASE i.via = "@core/"
  BY <1>3, <1>4, <1>8
<1>9. CASE i.via \in {"@app-services/", "@app-ports/"}
  BY <1>3, <1>4, <1>9
<1> QED BY <1>5, <1>6, <1>7, <1>8, <1>9

\* A relative import that crosses layers climbs to the first directory, for it
\* shares none.
LEMMA DeniedNamesLayer ==
  ASSUME NEW P \in Programs, NEW i \in P, Denied(i), NamesLayer(i)
  PROVE  getLayer(i.to) \in Named(i)
<1>1. /\ i.from \in Nodes /\ i.to \in Nodes /\ i.via \in Aliases \cup {"relative"}
      /\ i.tail \in Tails(i.from, i.to, i.via)
  BY ProgramAssumption
<1>2. Dirs[i.from] \in Seq(STRING) /\ Dirs[i.to] \in Seq(STRING)
  BY <1>1, FilesAssumption
<1>3. /\ getLayer(i.from) \in Layers /\ getLayer(i.to) \in Layers
      /\ getLayer(i.from) # getLayer(i.to)
  BY NoLayerDeniesItself DEF Denied
<1>4. /\ Dirs[i.from] # <<>> /\ Dirs[i.to] # <<>>
      /\ getLayer(i.from) = Dirs[i.from][1] /\ getLayer(i.to) = Dirs[i.to][1]
  BY <1>3 DEF getLayer, Layers
<1>5. i.tail = 1 => getLayer(i.to) \in Named(i)
  <2>1. 1 \in 1 .. Len(Dirs[i.to])
    BY <1>2, <1>4
  <2> QED BY <1>4, <2>1 DEF Named, Spelled
<1>6. CASE i.via = "relative"
  <2>1. Shared(i.from, i.to) = {}
    <3> SUFFICES ASSUME NEW k \in Shared(i.from, i.to) PROVE FALSE
      OBVIOUS
    <3>1. 1 \in 1 .. k /\ \A j \in 1 .. k : Dirs[i.from][j] = Dirs[i.to][j]
      BY <1>2 DEF Shared
    <3> QED BY <1>3, <1>4, <3>1
  <2> QED BY <1>1, <1>5, <1>6, <2>1 DEF Tails
<1>7. CASE i.via = "@app/"
  BY <1>1, <1>5, <1>7, AliasedPath
<1>8. CASE i.via = "@domain/"
  BY <1>1, <1>8, AliasedPath DEF Named, Aliases
<1>9. CASE i.via = "@core/"
  BY <1>3, <1>9, AliasedPath DEF Layers, Aliases
<1> QED BY <1>1, <1>6, <1>7, <1>8, <1>9 DEF Aliases, NamesLayer

LEMMA GuardReports ==
  ASSUME imports \in Programs, NEW i \in imports, Denied(i), NamesLayer(i)
  PROVE  i \in check
<1>1. getLayer(i.to) \in Named(i)
  BY DeniedNamesLayer
<1>2. getLayer(i.from) \in DOMAIN RULES /\ getLayer(i.to) \in Layers
  BY RulesByLayer, NoLayerDeniesItself DEF Denied
<1>3. PICK k \in 1 .. 4 : Priority[k] = getLayer(i.to)
  BY <1>2, LayersInPriority
<1>4. PICK j \in 1 .. k : resolveLayer(Named(i)) = Priority[j]
  BY <1>1, <1>3, ResolvesToFirst
<1>5. resolveLayer(Named(i)) \in RULES[getLayer(i.from)]
  BY <1>3, <1>4, DeniedFromTheFront DEF Denied
<1>6. i \in extractImports(i.from) /\ i.from \in Nodes
  BY ProgramAssumption DEF extractImports, Denied
<1> QED BY <1>2, <1>5, <1>6 DEF check

\* The one alias that leads to the database leaves a text that is grepped for.
LEMMA DatabaseFound ==
  ASSUME imports \in Programs, NEW i \in imports, Denied(i), Database(i.to), ~NamesLayer(i)
  PROVE  i \in grepped
<1>1. i.to \in Nodes /\ Dirs[i.to] \in Seq(STRING)
  BY ProgramAssumption, FilesAssumption
<1>2. /\ Len(Dirs[i.to]) >= 2 /\ Len(Dirs[i.to]) \in Nat /\ Dirs[i.to][1] = "infrastructure"
      /\ \/ Dirs[i.to][2] = "database"
         \/ Dirs[i.to] = <<"infrastructure", "db">> /\ Name[i.to] = "connection"
  <2> DEFINE base == <<"infrastructure", "database">>
  <2>1. CASE IsPrefix(base, Dirs[i.to])
    <3>1. /\ base \in Seq({"infrastructure", "database"}) /\ Len(base) = 2
          /\ base[1] = "infrastructure" /\ base[2] = "database"
      OBVIOUS
    <3> HIDE DEF base
    <3>2. 2 <= Len(Dirs[i.to]) /\ SubSeq(base, 1, 2) = SubSeq(Dirs[i.to], 1, 2)
      BY <2>1, <3>1 DEF IsPrefix
    <3>3. SubSeq(base, 1, 2)[1] = base[1] /\ SubSeq(base, 1, 2)[2] = base[2]
      BY <3>1
    <3>4. /\ SubSeq(Dirs[i.to], 1, 2)[1] = Dirs[i.to][1]
          /\ SubSeq(Dirs[i.to], 1, 2)[2] = Dirs[i.to][2]
      BY <1>1, <3>2
    <3> QED BY <1>1, <3>1, <3>2, <3>3, <3>4
  <2>2. CASE Dirs[i.to] = <<"infrastructure", "db">> /\ Name[i.to] = "connection"
    BY <2>2
  <2> QED BY <2>1, <2>2 DEF Database
<1>3. getLayer(i.to) = "infrastructure"
  BY <1>1, <1>2 DEF getLayer
<1>4. i.via = "@infra/" /\ i.tail = 2
  BY <1>3, AliasedPath DEF NamesLayer, Aliases
<1>5. CASE Dirs[i.to][2] = "database"
  BY <1>2, <1>4, <1>5 DEF grepped, grep, Into
<1>6. CASE Dirs[i.to] = <<"infrastructure", "db">> /\ Name[i.to] = "connection"
  <2>1. Len(Dirs[i.to]) = 2 /\ Last(Dirs[i.to]) = "db"
    BY <1>6 DEF Last
  <2> QED BY <1>4, <1>6, <2>1 DEF grepped, grep
<1> QED BY <1>2, <1>5, <1>6

\* No denied import that names its target's layer gets past the guard, and no
\* denied import of the database past both guards, however it is spelled and
\* whatever layer names the directories and the files carry.
THEOREM DeniedImportsFail == GateSpec => []DeniedImportsReported
<1>1. GateInv => DeniedImportsReported
  BY GuardReports, DatabaseFound DEF GateInv, Reported, DeniedImportsReported
<1> QED BY <1>1, GateInvariant, PTL

-----------------------------------------------------------------------------
\* The seven tables are one.
LEMMA TablesAreOne == \A T \in Tables : T = RULES
<1>1. /\ KERNEL_RULES = RULES /\ ARCHITECTURE_RULES = RULES /\ GUARD_RULES = RULES
      /\ ArchitectureRules = RULES /\ ARCHITECTURE_RULES_V1 = RULES /\ ARCH_RULES_V1 = RULES
  <2>1. /\ {"application", "interfaces", "infrastructure"} = {"infrastructure", "interfaces", "application"}
        /\ {"application", "infrastructure", "interfaces"} = {"infrastructure", "interfaces", "application"}
    OBVIOUS
  <2> QED BY <2>1 DEF RULES, KERNEL_RULES, ARCHITECTURE_RULES, GUARD_RULES, ArchitectureRules,
                      ARCHITECTURE_RULES_V1, ARCH_RULES_V1
<1> QED BY <1>1 DEF Tables

\* The graph's type of a file under one layer only is that layer.
LEMMA TypeIsLayer ==
  ASSUME NEW f, PlainlyNamed(f)
  PROVE  getLayer(f) \in Layers /\ detectType(DirsOf(f)) = getLayer(f)
<1>1. getLayer(f) \in Layers /\ \A l \in Layers : l \in DirsOf(f) <=> l = getLayer(f)
  BY DEF PlainlyNamed
<1> QED BY <1>1 DEF detectType, Layers

\* A relative specifier and one by "@app/" spell out directories of the target,
\* the latter all of them.
LEMMA PlainSpelling ==
  ASSUME NEW P \in Programs, NEW i \in P, Plain(i)
  PROVE  Named(i) \subseteq DirsOf(i.to) \cup {Name[i.to]} /\ Target(i) = DirsOf(i.to)
<1>1. Dirs[i.from] \in Seq(STRING) /\ Dirs[i.to] \in Seq(STRING)
  BY ProgramAssumption, FilesAssumption
<1>2. DirsOf(i.to) = {Dirs[i.to][k] : k \in 1 .. Len(Dirs[i.to])}
  BY <1>1 DEF DirsOf
<1>3. CASE i.via = "@app/"
  <2>1. i.tail = 1
    BY <1>3, AliasedPath DEF Aliases
  <2> QED BY <1>2, <1>3, <2>1 DEF Target, Named, Spelled
<1>4. CASE i.via = "relative"
  <2>1. i.tail \in Nat /\ i.tail >= 1
    <3>1. i.tail \in {1} \cup {k + 1 : k \in Shared(i.from, i.to)}
      BY <1>4, ProgramAssumption DEF Tails
    <3>2. Shared(i.from, i.to) \subseteq Nat
      BY <1>1 DEF Shared
    <3> QED BY <3>1, <3>2
  <2>2. i.tail .. Len(Dirs[i.to]) \subseteq 1 .. Len(Dirs[i.to])
    BY <1>1, <2>1
  <2> QED BY <1>2, <1>4, <2>2 DEF Target, Named, Spelled
<1> QED BY <1>3, <1>4 DEF Plain

LEMMA PlainIsExact ==
  ASSUME imports \in Programs, NEW i \in imports, Plain(i)
  PROVE  i \in check <=> getLayer(i.to) \in RULES[getLayer(i.from)]
<1>1. i.form # "bare" /\ getLayer(i.from) \in Layers /\ getLayer(i.to) \in Layers
  BY TypeIsLayer DEF Plain
<1>2. ASSUME getLayer(i.to) \in RULES[getLayer(i.from)] PROVE i \in check
  BY <1>1, <1>2, GuardReports DEF Denied, NamesLayer, Plain
<1>3. ASSUME i \in check PROVE getLayer(i.to) \in RULES[getLayer(i.from)]
  <2>1. resolveLayer(Named(i)) \in RULES[getLayer(i.from)]
    BY <1>3 DEF check
  <2>2. resolveLayer(Named(i)) # "external"
    BY <1>1, <2>1, RulesByLayer DEF Layers
  <2>3. PICK k \in 1 .. 4 : Priority[k] \in Named(i)
    BY <2>2, ResolvesOutside
  <2>4. PICK j \in 1 .. k : Priority[j] \in Named(i) /\ resolveLayer(Named(i)) = Priority[j]
    BY <2>3, ResolvesToFirst
  <2>5. Priority[j] \in Layers /\ Priority[j] # Name[i.to]
    BY <2>4, LayersInPriority DEF Plain, PlainlyNamed
  <2>6. Priority[j] \in DirsOf(i.to)
    BY <2>4, <2>5, PlainSpelling
  <2>7. Priority[j] = getLayer(i.to)
    BY <2>5, <2>6 DEF Plain, PlainlyNamed
  <2> QED BY <2>1, <2>4, <2>7
<1> QED BY <1>2, <1>3

\* What the rule files forbid is what RULES deny, and three pairs of layers more.
LEMMA FilesForbidMore ==
  \A from, to \in Layers :
    to \in RULES[from] <=> ForbiddenByFile(from, to) /\ <<from, to>> \notin Overlooked
<1> SUFFICES ASSUME NEW from \in Layers, NEW to \in Layers
             PROVE  to \in RULES[from] <=> ForbiddenByFile(from, to) /\ <<from, to>> \notin Overlooked
  OBVIOUS
<1>1. /\ canDependOn["domain"] = {} /\ canDependOn["application"] = {"domain"}
      /\ canDependOn["interfaces"] = {"application", "domain"}
      /\ canDependOn["infrastructure"] = {"domain"}
  BY DEF canDependOn, Layers
<1>2. /\ forbiddenCrossImports["domain"] = {"infrastructure", "interfaces"}
      /\ forbiddenCrossImports["application"] = {"interfaces"}
      /\ forbiddenCrossImports["interfaces"] = {} /\ forbiddenCrossImports["infrastructure"] = {}
  BY DEF forbiddenCrossImports, Table, Layers
<1>3. CASE from = "domain"
  BY <1>1, <1>2, <1>3, RulesByLayer DEF ForbiddenByFile, Overlooked, Layers
<1>4. CASE from = "application"
  BY <1>1, <1>2, <1>4, RulesByLayer DEF ForbiddenByFile, Overlooked, Layers
<1>5. CASE from = "interfaces"
  BY <1>1, <1>2, <1>5, RulesByLayer DEF ForbiddenByFile, Overlooked, Layers
<1>6. CASE from = "infrastructure"
  BY <1>1, <1>2, <1>6, RulesByLayer DEF ForbiddenByFile, Overlooked, Layers
<1> QED BY <1>3, <1>4, <1>5, <1>6 DEF Layers

\* Where paths and specifiers name no layer but their own, the guard's verdict on
\* an import is that of every table on its types in the graph. The rule files
\* forbid all it reports, and imports between three pairs of layers besides.
THEOREM VerdictsAgree == GateSpec => []GatesAgree
<1>1. GateInv => GatesAgree
  <2> SUFFICES ASSUME GateInv, stage \in {"parse", "search"} PROVE GatesAgree
    BY DEF GatesAgree
  <2>1. violations = check /\ graph = build /\ imports \in Programs
    BY DEF GateInv, Reported
  <2>2. ASSUME NEW e \in graph, NEW T \in Tables, Plain(e.import)
        PROVE  e.import \in violations <=> e.toType \in T[e.fromType]
    <3> DEFINE i == e.import
    <3>1. /\ i \in imports /\ e.fromType = detectType(DirsOf(i.from))
          /\ e.toType = detectType(Target(i))
      BY <2>1 DEF build, matched
    <3>2. e.fromType = getLayer(i.from) /\ e.toType = getLayer(i.to)
      BY <2>1, <2>2, <3>1, TypeIsLayer, PlainSpelling DEF Plain
    <3>3. T = RULES
      BY TablesAreOne
    <3> QED BY <2>1, <2>2, <3>1, <3>2, <3>3, PlainIsExact
  <2>3. ASSUME NEW i \in imports, Plain(i)
        PROVE  LET pair == <<getLayer(i.from), getLayer(i.to)>> IN
               i \in violations <=> ForbiddenByFile(pair[1], pair[2]) /\ pair \notin Overlooked
    <3>1. getLayer(i.from) \in Layers /\ getLayer(i.to) \in Layers
      BY <2>3, TypeIsLayer DEF Plain
    <3>2. i \in violations <=> getLayer(i.to) \in RULES[getLayer(i.from)]
      BY <2>1, <2>3, PlainIsExact
    <3> QED BY <3>1, <3>2, FilesForbidMore
  <2> QED BY <2>2, <2>3 DEF GatesAgree
<1> QED BY <1>1, GateInvariant, PTL
=============================================================================
