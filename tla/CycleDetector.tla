---------------------------- MODULE CycleDetector ----------------------------
(***************************************************************************)
(* detectCycles of scripts/architecture/cycle-detector.ts: a depth-first   *)
(* search over import edges. The recursion of `dfs` is kept as the path of *)
(* the nodes it is in; a node is entered once, so what is left of its      *)
(* `for` loop is a function of the node.                                   *)
(***************************************************************************)
EXTENDS Integers, SequencesExt

CONSTANT Nodes

VARIABLES
  edges,      \* the argument
  roots,      \* keys of `graph` the outer loop has not come to
  path,       \* of the innermost call, its own node included
  todo,       \* successors each call has not come to
  visited, stack, cycles

search == <<edges, roots, path, todo, visited, stack, cycles>>

From(es) == {e[1] : e \in es}
Successors(es, n) == {m \in Nodes : <<n, m>> \in es}

\* detectCycles up to its outer loop: `graph` has a key for each `from`.
Begin(es) ==
  /\ edges = es /\ roots = From(es)
  /\ path = <<>> /\ todo = [n \in Nodes |-> Successors(es, n)]
  /\ visited = {} /\ stack = {} /\ cycles = {}

Init == \E es \in SUBSET (Nodes \X Nodes) : Begin(es)

\* dfs(node, path): past its two early returns.
Enter(n) ==
  /\ visited' = visited \cup {n} /\ stack' = stack \cup {n}
  /\ path' = Append(path, n)

\* The three ways dfs takes from its head.
UnlessVisited(n)  == n \in stack /\ n \notin visited                \* mutant
Closes(n) == n \in stack
Enters(n) == n \notin stack /\ n \notin visited

Call(n) ==
  /\ IF Enters(n) THEN Enter(n) ELSE UNCHANGED <<visited, stack, path>>
  /\ cycles' = IF Closes(n) THEN cycles \cup {Append(path, n)} ELSE cycles

\* The outer loop.
Root(n) ==
  /\ path = <<>> /\ n \in roots
  /\ roots' = roots \ {n}
  /\ Call(n)
  /\ UNCHANGED <<edges, todo>>

\* The loop of a call.
Descend(n) ==
  /\ path # <<>> /\ n \in todo[Last(path)]
  /\ todo' = [todo EXCEPT ![Last(path)] = @ \ {n}]
  /\ Call(n)
  /\ UNCHANGED <<edges, roots>>

\* Its end: stack.delete(node) and return.
Deleted(s, n)  == s \ {n}
Return ==
  /\ path # <<>> /\ todo[Last(path)] = {}
  /\ stack' = Deleted(stack, Last(path))
  /\ path' = SubSeq(path, 1, Len(path) - 1)
  /\ UNCHANGED <<edges, roots, todo, visited, cycles>>

Next == Return \/ \E n \in Nodes : Root(n) \/ Descend(n)

Spec == Init /\ [][Next]_search

Returned == path = <<>> /\ roots = {}

-----------------------------------------------------------------------------
SearchTypeOK ==
  /\ edges \subseteq Nodes \X Nodes
  /\ roots \subseteq Nodes /\ visited \subseteq Nodes /\ stack \subseteq visited
  /\ path \in Seq(Nodes) /\ cycles \subseteq Seq(Nodes)
  /\ todo \in [Nodes -> SUBSET Nodes]

\* A set of modules each of which imports one of the set: it holds a cycle.
Cyclic(S) == S # {} /\ \A u \in S : \E v \in S : <<u, v>> \in edges

\* A walk along imports whose last module already occurs on it.
IsWalk(p) == \A k \in 1 .. Len(p) - 1 : <<p[k], p[k + 1]>> \in edges
CyclesAreReal ==
  \A p \in cycles : IsWalk(p) /\ \E k \in 1 .. Len(p) - 1 : p[k] = Last(p)

\* When the search returns without one, there is none.
CyclesFound ==
  Returned /\ cycles = {} => \A S \in SUBSET Nodes : ~Cyclic(S)

\* What is reported is a cycle, also when the search left and re-entered shared
\* modules, and none is overlooked because its modules were visited from
\* elsewhere: a program is reported as free of cycles only if it is.
CyclesReported == CyclesAreReal /\ CyclesFound
=============================================================================
