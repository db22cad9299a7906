----------------------------- MODULE GenesisSync -----------------------------
(***************************************************************************)
(* The genesis experiment: nodes that keep causal events in a graph, write *)
(* them to a log first, reconcile by sending each other what is missing,   *)
(* rebuild the graph from the log, and project the committed events onto   *)
(* account balances. The log is an array: a crash loses it too.            *)
(*                                                                         *)
(* Four things the code calls are not in the repository. CausalGraph and   *)
(* NodeView: `add` and the node around the protocol are modelled from      *)
(* their uses; a node takes the events of a delta in order, and drops      *)
(* those it has and those that ValidationPlane rejects. The protocol's     *)
(* HardenedDeltaEngine: legacy/DeltaEngine.ts, which has the same call,    *)
(* stands in for it. The kernel's CanonicalComparator: the compare of      *)
(* OrderingRules.ts, on another event type, stands in for it.              *)
(***************************************************************************)
EXTENDS Integers, SequencesExt

CONSTANTS
  Node,         \* a set of numbers: nodeId, compared by the kernel
  MaxEvents,    \* bound on the events created
  Snapshotters, \* the nodes that take a snapshot
  Crashing,     \* the nodes that crash
  Accounts,
  Payload,      \* of the k-th event: from, to, amount
  None

ASSUME GenesisAssumption ==
  /\ Node \subseteq Nat /\ Snapshotters \subseteq Node /\ Crashing \subseteq Node
  /\ MaxEvents \in Nat
  /\ IsFiniteSet(Accounts) /\ None \notin Nat
  /\ \A k \in 1 .. MaxEvents : Payload[k] \in [from : Accounts, to : Accounts, amount : Int]

VARIABLES
  events,       \* all events: [parents, node], the k-th has id k
  log,          \* PersistentLog.log of each node
  graph,        \* CausalGraph of each node, in insertion order
  inbox,        \* rest of the delta a node is working through
  adding,       \* the event a node has logged and not yet added
  up,
  snapshot,     \* a snapshot taken at some time
  behind        \* history: what the node lacked when a delta was computed for it

vars == <<events, log, graph, inbox, adding, up, snapshot, behind>>

ParentsOf(e) == events[e].parents
Has(n, e) == Contains(graph[n], e)

-----------------------------------------------------------------------------
\* ValidationPlane.validate: every event here has a hash.
validate(e, g) == ToSet(ParentsOf(e)) \subseteq ToSet(g)

\* CausalGraph.add: it throws for an event whose parents it does not know.
add(g, e) ==
  IF Contains(g, e) \/ ~validate(e, g) THEN g ELSE Append(g, e)

\* PersistentLog.append.
Prepended(l, e) == <<e>> \o l                                       \* mutant
Logged(l, e)    == Append(l, e)

\* PersistentLog.recover, into a new graph: events that cannot be added are ignored.
recover(l) == FoldLeft(add, <<>>, l)

\* What a loop over a graph keeps of it, in its order.
Keep(g, ids) == FoldLeft(LAMBDA s, e : IF e \in ids THEN Append(s, e) ELSE s, <<>>, g)

\* CausalFrontier.compute: the ids that are nobody's parents.
Frontier(g) == Keep(g, ToSet(g) \ UNION {ToSet(ParentsOf(e)) : e \in ToSet(g)})

\* DeltaEngine.computeDelta: breadth first from the frontier, then reversed.
FirstParent(id) ==                                                  \* mutant
  IF ParentsOf(id) = <<>> THEN <<>> ELSE <<Head(ParentsOf(id))>>
Pushed(id)      == ParentsOf(id)
Turn(g, remoteIds, s) ==
  LET id == Head(s.queue) IN
  IF s.queue = <<>> THEN s
  ELSE IF Contains(s.delta, id) \/ id \in remoteIds \/ ~Contains(g, id)
       THEN [s EXCEPT !.queue = Tail(@)]
       ELSE [queue |-> Tail(s.queue) \o Pushed(id), delta |-> Append(s.delta, id)]

\* The loop ends by then: an event's parents are queued once, when it is visited.
Turns(g) == Len(Frontier(g)) + SumFunction([e \in ToSet(g) |-> Len(ParentsOf(e))])
computeDelta(g, remoteIds) ==
  Reverse(FoldLeft(LAMBDA s, k : Turn(g, remoteIds, s),
                   [queue |-> Frontier(g), delta |-> <<>>], [k \in 1 .. Turns(g) |-> k]).delta)

\* CommitEngine.resolve: sweeps over the graph while that commits something, so
\* at most one for each event.
Visit(committed, e) ==
  IF ToSet(ParentsOf(e)) \subseteq committed THEN committed \cup {e} ELSE committed
Sweep(g, committed) ==
  IF ToSet(g) \subseteq committed THEN committed ELSE FoldLeft(Visit, committed, g)
resolve(g) == FoldLeft(LAMBDA committed, e : Sweep(g, committed), {}, g)

-----------------------------------------------------------------------------
\* OrderingRules.compare: node first, then the sequence inside it, in which a
\* node's ids are numbered.
compare(a, b) ==
  \/ events[a].node < events[b].node
  \/ events[a].node = events[b].node /\ a < b
ArrivalOrder(committed, g) == Keep(g, committed)                    \* mutant
Ordered(committed, g) ==
  LET before == [e \in committed |-> {f \in committed : compare(f, e)}] IN
  [k \in 1 .. Cardinality(committed) |->
     CHOOSE e \in committed : Cardinality(before[e]) = k - 1]

NoState == [accounts |-> [a \in Accounts |-> [balance |-> 0, nonce |-> 0]], rejections |-> {}]

\* The transfer of GenesisKernel.project: the payee's account is read after the
\* payer's was written.
PayeeReadFirst(s, t) ==                                             \* mutant
  [[s EXCEPT ![t.from] = [balance |-> @.balance - t.amount, nonce |-> @.nonce + 1]]
     EXCEPT ![t.to].balance = s[t.to].balance + t.amount]
Transfer(s, t) ==
  [[s EXCEPT ![t.from] = [balance |-> @.balance - t.amount, nonce |-> @.nonce + 1]]
     EXCEPT ![t.to].balance = @ + t.amount]
ApplyEvent(s, e) ==
  IF s.accounts[Payload[e].from].balance < Payload[e].amount
  THEN [s EXCEPT !.rejections = @ \cup {e}]
  ELSE [s EXCEPT !.accounts = Transfer(@, Payload[e])]
project(g) == FoldLeft(ApplyEvent, NoState, Ordered(resolve(g), g))

\* SnapshotEngine.create: rootHash is the sorted ids, in effect the set.
create(g) == [rootHash |-> resolve(g), state |-> project(g)]
verify(s, expectedRoot) == s.rootHash = expectedRoot

-----------------------------------------------------------------------------
Init ==
  /\ events = <<>> /\ log = [n \in Node |-> <<>>] /\ graph = [n \in Node |-> <<>>]
  /\ inbox = [n \in Node |-> <<>>] /\ adding = [n \in Node |-> None]
  /\ up = [n \in Node |-> TRUE]
  /\ snapshot = None /\ behind = [n \in Node |-> {}]

Idle(n) == up[n] /\ inbox[n] = <<>> /\ adding[n] = None

\* A node makes an event after some that it has.
Create(n, parents) ==
  /\ Idle(n) /\ Len(events) < MaxEvents
  /\ events' = Append(events, [parents |-> parents, node |-> n])
  /\ log' = [log EXCEPT ![n] = Logged(@, Len(events) + 1)]
  /\ adding' = [adding EXCEPT ![n] = Len(events) + 1]
  /\ behind' = [behind EXCEPT ![n] = {}]
  /\ UNCHANGED <<graph, inbox, up, snapshot>>

\* ReconciliationProtocol.reconcile of n with the remote m.
Reconcile(n, m) ==
  LET delta == computeDelta(graph[n], ToSet(Frontier(graph[m]))) IN
  /\ n # m /\ Idle(n) /\ Idle(m) /\ delta # <<>>
  /\ inbox' = [inbox EXCEPT ![m] = delta]
  /\ behind' = [behind EXCEPT ![m] = ToSet(graph[n]) \ ToSet(graph[m])]
  /\ UNCHANGED <<events, log, graph, adding, up, snapshot>>

\* receiveDelta, one event: validate, then the log, then the graph.
Acceptable(n, e) == ~Has(n, e) /\ validate(e, graph[n])
Receive(n) ==
  LET e == Head(inbox[n]) IN
  /\ up[n] /\ inbox[n] # <<>> /\ adding[n] = None
  /\ inbox' = [inbox EXCEPT ![n] = Tail(@)]
  /\ IF Acceptable(n, e)
     THEN log' = [log EXCEPT ![n] = Logged(@, e)] /\ adding' = [adding EXCEPT ![n] = e]
     ELSE UNCHANGED <<log, adding>>
  /\ UNCHANGED <<events, graph, up, snapshot, behind>>

AddToGraph(n) ==
  /\ adding[n] # None
  /\ graph' = [graph EXCEPT ![n] = add(@, adding[n])]
  /\ adding' = [adding EXCEPT ![n] = None]
  /\ UNCHANGED <<events, log, inbox, up, snapshot, behind>>

\* A crash loses all a node has: PersistentLog.log is in memory like the graph.
Crash(n) ==
  /\ n \in Crashing /\ up[n]
  /\ up' = [up EXCEPT ![n] = FALSE]
  /\ log' = [log EXCEPT ![n] = <<>>] /\ graph' = [graph EXCEPT ![n] = <<>>]
  /\ inbox' = [inbox EXCEPT ![n] = <<>>] /\ adding' = [adding EXCEPT ![n] = None]
  /\ behind' = [behind EXCEPT ![n] = {}]
  /\ UNCHANGED <<events, snapshot>>

\* A node starts again, or rebuilds its graph while it runs.
Recover(n) ==
  /\ inbox[n] = <<>> /\ adding[n] = None
  /\ up' = [up EXCEPT ![n] = TRUE] /\ graph' = [graph EXCEPT ![n] = recover(log[n])]
  /\ UNCHANGED <<events, log, inbox, adding, snapshot, behind>>

TakeSnapshot(n) ==
  /\ n \in Snapshotters /\ up[n] /\ snapshot = None /\ graph[n] # <<>>
  /\ snapshot' = create(graph[n])
  /\ UNCHANGED <<events, log, graph, inbox, adding, up, behind>>

\* parentIds: up to two events the node has, in the order it learnt of them.
ParentLists(n) ==
  {<<>>} \cup {<<e>> : e \in ToSet(graph[n])}
    \cup {Keep(graph[n], P) : P \in kSubset(2, ToSet(graph[n]))}

Next ==
  \E n \in Node :
    \/ \E parents \in ParentLists(n) : Create(n, parents)
    \/ \E m \in Node : Reconcile(n, m)
    \/ Receive(n) \/ AddToGraph(n) \/ Crash(n) \/ Recover(n) \/ TakeSnapshot(n)

Spec == Init /\ [][Next]_vars

-----------------------------------------------------------------------------
\* While a node runs, its log rebuilds its graph: recovery ignores what it cannot
\* add, so the log must hold parents before children, and nothing that the graph
\* has not, but the event being added.
LogRebuildsGraph ==
  \A n \in Node : LET rebuilt == ToSet(recover(log[n])) IN
    ToSet(graph[n]) \subseteq rebuilt /\ rebuilt \subseteq ToSet(graph[n]) \cup {adding[n]}

\* A delta is reversed breadth-first order, in which a child may come before its
\* parent and be dropped. Still the delta names all that was missing, and every
\* delivered one brings the receiver at least one event nearer.
EveryRoundAdvances ==
  \A n \in Node : Idle(n) /\ behind[n] # {} => behind[n] \cap ToSet(graph[n]) # {}

\* Transfers move money: balances always sum up to what there was at first, and
\* each committed event is either in some nonce or rejected, also when an
\* account pays itself.
SupplyConserved ==
  \A n \in Node : LET s == project(graph[n]) IN
    /\ SumFunction([a \in Accounts |-> s.accounts[a].balance]) = 0
    /\ SumFunction([a \in Accounts |-> s.accounts[a].nonce]) + Cardinality(s.rejections)
         = Cardinality(resolve(graph[n]))

\* A snapshot whose root a node expects describes that node's own state, in
\* whatever order the two learnt of the events.
SnapshotDescribesRoot ==
  snapshot # None => \A n \in Node :
    verify(snapshot, resolve(graph[n])) => snapshot.state = project(graph[n])
=============================================================================
