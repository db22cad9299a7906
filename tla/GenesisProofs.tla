----------------------------- MODULE GenesisProofs -----------------------------
(***************************************************************************)
(* The genesis experiment for any nodes, events, accounts and payloads.    *)
(* GenesisInv carries it: a node's log is its graph and then the event on  *)
(* its way there, and both are causal, parents first and nothing twice. A  *)
(* causal log is recovered whole, a causal graph is committed whole by one *)
(* sweep, and the search of computeDelta finds all of it that is missing.  *)
(*                                                                         *)
(* What the loops compute is proved by a rule for each: FoldRule says that *)
(* a predicate that every turn takes on holds at the end.                  *)
(***************************************************************************)
EXTENDS GenesisSync, SumTheorems, TLAPS

\* The largest number of a segment is its end.
LEMMA SegmentMax ==
  ASSUME NEW k \in Nat \ {0}
  PROVE  Max(1 .. k) = k /\ (1 .. k) \ {k} = 1 .. k - 1 /\ 1 .. k # {}
<1>1. PICK m : m = Max(1 .. k)
  OBVIOUS
<1>2. k \in 1 .. k /\ \A y \in 1 .. k : k >= y
  OBVIOUS
<1>3. m \in 1 .. k /\ \A y \in 1 .. k : m >= y
  BY <1>1, <1>2 DEF Max
<1> QED BY <1>1, <1>3

\* h is the table of a fold over 1 .. n: the largest element last.
FoldsBy(h, step, a0, n, A) ==
  /\ h = [s \in SUBSET (1 .. n) |-> h[s]]
  /\ \A s \in SUBSET (1 .. n) :
       /\ h[s] \in A
       /\ s = {} => h[s] = a0
       /\ s # {} => Max(s) \in s /\ h[s] = step[Max(s)][h[s \ {Max(s)}]]

\* Every loop over 1 .. n whose turns stay in A has a table.
LEMMA FoldTable ==
  ASSUME NEW n \in Nat, NEW A, NEW a0 \in A, NEW step \in [1 .. n -> [A -> A]]
  PROVE  \E h : FoldsBy(h, step, a0, n, A)
<1> DEFINE Table(h, m) ==
             /\ h = [s \in SUBSET (1 .. m) |-> h[s]]
             /\ \A s \in SUBSET (1 .. m) :
                  /\ h[s] = IF s = {} THEN a0 ELSE step[Max(s)][h[s \ {Max(s)}]]
                  /\ h[s] \in A
           Found(m) == m <= n => \E h : Table(h, m)
           P == {m \in Nat : Found(m)}
<1> HIDE DEF Table
<1>1. Found(0)
  <2> DEFINE h == [s \in SUBSET (1 .. 0) |-> a0]
  <2>1. \A s \in SUBSET (1 .. 0) : s = {} /\ h[s] = a0
    OBVIOUS
  <2>2. h = [s \in SUBSET (1 .. 0) |-> h[s]]
    OBVIOUS
  <2> HIDE DEF h
  <2>3. Table(h, 0)
    BY <2>1, <2>2 DEF Table
  <2> QED BY <2>3
<1>2. ASSUME NEW m \in Nat, Found(m) PROVE Found(m + 1)
  <2> SUFFICES ASSUME m + 1 <= n PROVE \E h : Table(h, m + 1)
    OBVIOUS
  <2>1. PICK g : Table(g, m)
    <3>1. m <= n
      OBVIOUS
    <3> QED BY <1>2, <3>1
  <2> DEFINE h == [s \in SUBSET (1 .. m + 1) |->
                     IF m + 1 \in s THEN step[m + 1][g[s \ {m + 1}]] ELSE g[s]]
  <2>2. ASSUME NEW s \in SUBSET (1 .. m + 1), m + 1 \notin s
        PROVE  s \in SUBSET (1 .. m) /\ h[s] = g[s]
    <3>1. s \in SUBSET (1 .. m)
      BY <2>2
    <3> QED BY <3>1, <2>2
  <2>3. ASSUME NEW s \in SUBSET (1 .. m + 1), m + 1 \in s
        PROVE  /\ Max(s) = m + 1 /\ s \ {m + 1} \in SUBSET (1 .. m)
               /\ h[s \ {m + 1}] = g[s \ {m + 1}]
               /\ h[s] = step[m + 1][h[s \ {m + 1}]]
    <3>1. \A y \in s : m + 1 >= y
      OBVIOUS
    <3>2. \A x \in s : (\A y \in s : x >= y) => x = m + 1
      BY <2>3, <3>1
    <3>3. Max(s) = m + 1
      BY <2>3, <3>1, <3>2 DEF Max
    <3>4. s \ {m + 1} \in SUBSET (1 .. m + 1) /\ m + 1 \notin s \ {m + 1}
      OBVIOUS
    <3>5. s \ {m + 1} \in SUBSET (1 .. m) /\ h[s \ {m + 1}] = g[s \ {m + 1}]
      BY <3>4, <2>2
    <3>6. h[s] = step[m + 1][g[s \ {m + 1}]]
      BY <2>3
    <3> QED BY <3>3, <3>5, <3>6
  <2>5. h = [s \in SUBSET (1 .. m + 1) |-> h[s]]
    OBVIOUS
  <2> HIDE DEF h
  <2>4. ASSUME NEW s \in SUBSET (1 .. m + 1)
        PROVE  h[s] = (IF s = {} THEN a0 ELSE step[Max(s)][h[s \ {Max(s)}]]) /\ h[s] \in A
    <3>1. CASE m + 1 \in s
      <4>1. /\ s \ {m + 1} \in SUBSET (1 .. m) /\ h[s \ {m + 1}] = g[s \ {m + 1}]
            /\ h[s] = step[m + 1][h[s \ {m + 1}]] /\ Max(s) = m + 1
        BY <2>3, <3>1
      <4>2. g[s \ {m + 1}] \in A
        BY <2>1, <4>1 DEF Table
      <4>3. m + 1 \in 1 .. n
        OBVIOUS
      <4>4. step[m + 1][h[s \ {m + 1}]] \in A
        BY <4>1, <4>2, <4>3
      <4> QED BY <3>1, <4>1, <4>4
    <3>2. CASE m + 1 \notin s
      <4>1. s \in SUBSET (1 .. m) /\ h[s] = g[s]
        BY <2>2, <3>2
      <4>2. g[s] = (IF s = {} THEN a0 ELSE step[Max(s)][g[s \ {Max(s)}]]) /\ g[s] \in A
        BY <2>1, <4>1 DEF Table
      <4>3. h[s \ {Max(s)}] = g[s \ {Max(s)}]
        <5>1. s \ {Max(s)} \in SUBSET (1 .. m + 1) /\ m + 1 \notin s \ {Max(s)}
          BY <3>2
        <5> QED BY <5>1, <2>2
      <4> QED BY <4>1, <4>2, <4>3
    <3> QED BY <3>1, <3>2
  <2>6. Table(h, m + 1)
    BY <2>4, <2>5 DEF Table
  <2> QED BY <2>6
<1>3. \A m \in Nat : m \in P
  <2> HIDE DEF Found
  <2>1. 0 \in P /\ \A m \in Nat : m \in P => m + 1 \in P
    BY <1>1, <1>2
  <2> HIDE DEF P
  <2> QED BY <2>1, NatSetInduction
<1>4. Found(n)
  <2> HIDE DEF Found
  <2> QED BY <1>3
<1>5. \E h : Table(h, n)
  BY <1>4
<1>6. ASSUME NEW s \in SUBSET (1 .. n), s # {} PROVE Max(s) \in s
  <2> DEFINE D == {n - x : x \in s}
  <2>1. D \in SUBSET Nat /\ D # {}
    <3>1. \A x \in s : x \in Int /\ x <= n
      OBVIOUS
    <3>2. \A x \in s : n - x \in Nat
      BY <3>1
    <3> QED BY <3>2, <1>6
  <2>2. PICK d \in D : \A e \in D : d <= e
    <3> HIDE DEF D
    <3> QED BY <2>1, LeastNumber
  <2>3. PICK x \in s : d = n - x
    OBVIOUS
  <2>4. \A y \in s : x >= y
    <3> TAKE y \in s
    <3>1. n - y \in D
      OBVIOUS
    <3>2. n - x <= n - y
      BY <2>2, <2>3, <3>1
    <3> QED BY <3>2
  <2> QED BY <2>4 DEF Max
<1> QED BY <1>5, <1>6 DEF Table, FoldsBy

\* h computes what the loop does for as long as its values stay in A.
Computes(h, step, a0, n, A) ==
  /\ h[{}] = a0
  /\ \A s \in SUBSET (1 .. n) :
       s # {} /\ h[s \ {Max(s)}] \in A => h[s] = step[Max(s)][h[s \ {Max(s)}]]

\* P is a loop rule: it holds at first, and turn k takes P[k - 1] to P[k].
Rule(P, step, a0, n, A) ==
  a0 \in P[0] /\ \A k \in 1 .. n : \A a \in A : a \in P[k - 1] => step[k][a] \in P[k]

\* What the loop rule gives at the end.
LEMMA FoldRule ==
  ASSUME NEW n \in Nat, NEW A, NEW a0 \in A, NEW step \in [1 .. n -> [A -> A]],
         NEW h, Computes(h, step, a0, n, A), NEW P, Rule(P, step, a0, n, A)
  PROVE  h[1 .. n] \in A /\ h[1 .. n] \in P[n]
<1> DEFINE t == [k \in 0 .. n |-> h[1 .. k]]
           Q == {k \in Nat : k <= n => t[k] \in A /\ t[k] \in P[k]}
<1>1. t[0] = a0
  <2>1. 1 .. 0 = {} /\ 0 \in 0 .. n
    OBVIOUS
  <2> QED BY <2>1 DEF Computes
<1>2. ASSUME NEW k \in 1 .. n, t[k - 1] \in A PROVE t[k] = step[k][t[k - 1]]
  <2>1. k \in 0 .. n /\ k - 1 \in 0 .. n /\ 1 .. k \in SUBSET (1 .. n) /\ k \in Nat \ {0}
    OBVIOUS
  <2>2. Max(1 .. k) = k /\ (1 .. k) \ {k} = 1 .. k - 1 /\ 1 .. k # {}
    BY <2>1, SegmentMax
  <2>3. t[k] = h[1 .. k] /\ t[k - 1] = h[1 .. k - 1]
    BY <2>1
  <2> HIDE DEF t
  <2>4. h[1 .. k] = step[k][h[1 .. k - 1]]
    <3>1. PICK s \in SUBSET (1 .. n) : s = 1 .. k
      BY <2>1
    <3>2. Max(s) = k /\ s \ {Max(s)} = 1 .. k - 1 /\ s # {} /\ h[s \ {Max(s)}] \in A
      BY <1>2, <2>2, <2>3, <3>1
    <3>3. h[s] = step[Max(s)][h[s \ {Max(s)}]]
      BY <3>2 DEF Computes
    <3> QED BY <3>1, <3>2, <3>3
  <2> QED BY <2>3, <2>4
<1>3. t[n] = h[1 .. n]
  OBVIOUS
<1> HIDE DEF t
<1>4. 0 \in Q
  BY <1>1 DEF Rule
<1>5. ASSUME NEW k \in Nat, k \in Q PROVE k + 1 \in Q
  <2> SUFFICES ASSUME k + 1 <= n PROVE t[k + 1] \in A /\ t[k + 1] \in P[k + 1]
    OBVIOUS
  <2>1. t[k] \in A /\ t[k] \in P[k] /\ k + 1 \in 1 .. n /\ (k + 1) - 1 = k
    BY <1>5
  <2>2. t[k + 1] = step[k + 1][t[k]]
    BY <2>1, <1>2
  <2>3. step[k + 1][t[k]] \in P[k + 1]
    BY <2>1 DEF Rule
  <2> QED BY <2>1, <2>2, <2>3
<1>6. \A k \in Nat : k \in Q
  <2> HIDE DEF Q
  <2> QED BY <1>4, <1>5, NatSetInduction
<1> QED BY <1>3, <1>6

-----------------------------------------------------------------------------
\* The loops over a graph or a log, each with its rule.

\* What a loop over a graph keeps.
LEMMA KeepRule ==
  ASSUME NEW g \in Seq(Nat), NEW ids,
         NEW P, <<>> \in P[0],
         \A k \in 1 .. Len(g) : \A s \in Seq(Nat) : s \in P[k - 1] => (IF g[k] \in ids THEN Append(s, g[k]) ELSE s) \in P[k]
  PROVE  Keep(g, ids) \in Seq(Nat) /\ Keep(g, ids) \in P[Len(g)]
<1> DEFINE n == Len(g)
           A == Seq(Nat)
           a0 == <<>>
           Op(s, k) == (IF g[k] \in ids THEN Append(s, g[k]) ELSE s)
           step == [k \in 1 .. n |-> [s \in A |-> Op(s, k)]]
           Eq(h) == h = [s \in SUBSET DOMAIN g |-> IF s = {} THEN a0 ELSE Op(h[s \ {Max(s)}], Max(s))]
           H == CHOOSE h : Eq(h)
<1>1. n \in Nat /\ DOMAIN g = 1 .. n /\ a0 \in A
  OBVIOUS
<1>2. step \in [1 .. n -> [A -> A]]
  OBVIOUS
<1>3. Keep(g, ids) = H[1 .. n]
  BY <1>1 DEF Keep, FoldLeft, MapThenFoldSet
<1>4. \A k \in 1 .. n, s \in A : step[k][s] = Op(s, k)
  OBVIOUS
<1>5. Rule(P, step, a0, n, A)
  <2> HIDE DEF step
  <2> QED BY <1>4 DEF Rule
<1> HIDE DEF step, Op, A, a0, n
<1>6. PICK h : FoldsBy(h, step, a0, n, A)
  BY <1>1, <1>2, FoldTable
<1>7. \A s \in SUBSET (1 .. n) : s # {} => Max(s) \in 1 .. n /\ s \ {Max(s)} \in SUBSET (1 .. n)
  BY <1>6 DEF FoldsBy
<1>8. Eq(h)
  <2>1. \A s \in SUBSET (1 .. n) : h[s] = IF s = {} THEN a0 ELSE Op(h[s \ {Max(s)}], Max(s))
    BY <1>4, <1>6, <1>7 DEF FoldsBy
  <2> QED BY <1>1, <1>6, <2>1 DEF FoldsBy
<1>9. Eq(H)
  BY <1>8
<1> HIDE DEF H
<1>10. Computes(H, step, a0, n, A)
  <2>1. \A s \in SUBSET (1 .. n) : H[s] = IF s = {} THEN a0 ELSE Op(H[s \ {Max(s)}], Max(s))
    BY <1>1, <1>9
  <2> QED BY <1>4, <1>7, <2>1 DEF Computes
<1>11. H[1 .. n] \in A /\ H[1 .. n] \in P[n]
  BY <1>1, <1>2, <1>5, <1>10, FoldRule
<1> QED BY <1>3, <1>11 DEF A, n

\* PersistentLog.recover.
LEMMA RecoverRule ==
  ASSUME NEW l \in Seq(Nat),
         NEW P, <<>> \in P[0],
         \A k \in 1 .. Len(l) : \A s \in Seq(Nat) : s \in P[k - 1] => add(s, l[k]) \in P[k]
  PROVE  recover(l) \in Seq(Nat) /\ recover(l) \in P[Len(l)]
<1> DEFINE n == Len(l)
           A == Seq(Nat)
           a0 == <<>>
           Op(s, k) == add(s, l[k])
           step == [k \in 1 .. n |-> [s \in A |-> Op(s, k)]]
           Eq(h) == h = [s \in SUBSET DOMAIN l |-> IF s = {} THEN a0 ELSE Op(h[s \ {Max(s)}], Max(s))]
           H == CHOOSE h : Eq(h)
<1>1. n \in Nat /\ DOMAIN l = 1 .. n /\ a0 \in A
  OBVIOUS
<1>2. step \in [1 .. n -> [A -> A]]
  <2>1. \A k \in 1 .. n, s \in Seq(Nat) : add(s, l[k]) \in Seq(Nat)
    BY DEF add
  <2> QED BY <2>1
<1>3. recover(l) = H[1 .. n]
  BY <1>1 DEF recover, FoldLeft, MapThenFoldSet
<1>4. \A k \in 1 .. n, s \in A : step[k][s] = Op(s, k)
  OBVIOUS
<1>5. Rule(P, step, a0, n, A)
  <2> HIDE DEF step
  <2> QED BY <1>4 DEF Rule
<1> HIDE DEF step, Op, A, a0, n
<1>6. PICK h : FoldsBy(h, step, a0, n, A)
  BY <1>1, <1>2, FoldTable
<1>7. \A s \in SUBSET (1 .. n) : s # {} => Max(s) \in 1 .. n /\ s \ {Max(s)} \in SUBSET (1 .. n)
  BY <1>6 DEF FoldsBy
<1>8. Eq(h)
  <2>1. \A s \in SUBSET (1 .. n) : h[s] = IF s = {} THEN a0 ELSE Op(h[s \ {Max(s)}], Max(s))
    BY <1>4, <1>6, <1>7 DEF FoldsBy
  <2> QED BY <1>1, <1>6, <2>1 DEF FoldsBy
<1>9. Eq(H)
  BY <1>8
<1> HIDE DEF H
<1>10. Computes(H, step, a0, n, A)
  <2>1. \A s \in SUBSET (1 .. n) : H[s] = IF s = {} THEN a0 ELSE Op(H[s \ {Max(s)}], Max(s))
    BY <1>1, <1>9
  <2> QED BY <1>4, <1>7, <2>1 DEF Computes
<1>11. H[1 .. n] \in A /\ H[1 .. n] \in P[n]
  BY <1>1, <1>2, <1>5, <1>10, FoldRule
<1> QED BY <1>3, <1>11 DEF A, n

\* One sweep of CommitEngine.resolve.
LEMMA VisitRule ==
  ASSUME NEW g \in Seq(Nat), NEW c \in SUBSET Nat,
         NEW P, c \in P[0],
         \A k \in 1 .. Len(g) : \A s \in SUBSET Nat : s \in P[k - 1] => Visit(s, g[k]) \in P[k]
  PROVE  FoldLeft(Visit, c, g) \in SUBSET Nat /\ FoldLeft(Visit, c, g) \in P[Len(g)]
<1> DEFINE n == Len(g)
           A == SUBSET Nat
           a0 == c
           Op(s, k) == Visit(s, g[k])
           step == [k \in 1 .. n |-> [s \in A |-> Op(s, k)]]
           Eq(h) == h = [s \in SUBSET DOMAIN g |-> IF s = {} THEN a0 ELSE Op(h[s \ {Max(s)}], Max(s))]
           H == CHOOSE h : Eq(h)
<1>1. n \in Nat /\ DOMAIN g = 1 .. n /\ a0 \in A
  OBVIOUS
<1>2. step \in [1 .. n -> [A -> A]]
  <2>1. \A k \in 1 .. n : g[k] \in Nat
    OBVIOUS
  <2>2. \A k \in 1 .. n, s \in SUBSET Nat : Visit(s, g[k]) \in SUBSET Nat
    BY <2>1 DEF Visit
  <2> QED BY <2>2
<1>3. FoldLeft(Visit, c, g) = H[1 .. n]
  BY <1>1 DEF FoldLeft, MapThenFoldSet
<1>4. \A k \in 1 .. n, s \in A : step[k][s] = Op(s, k)
  OBVIOUS
<1>5. Rule(P, step, a0, n, A)
  <2> HIDE DEF step
  <2> QED BY <1>4 DEF Rule
<1> HIDE DEF step, Op, A, a0, n
<1>6. PICK h : FoldsBy(h, step, a0, n, A)
  BY <1>1, <1>2, FoldTable
<1>7. \A s \in SUBSET (1 .. n) : s # {} => Max(s) \in 1 .. n /\ s \ {Max(s)} \in SUBSET (1 .. n)
  BY <1>6 DEF FoldsBy
<1>8. Eq(h)
  <2>1. \A s \in SUBSET (1 .. n) : h[s] = IF s = {} THEN a0 ELSE Op(h[s \ {Max(s)}], Max(s))
    BY <1>4, <1>6, <1>7 DEF FoldsBy
  <2> QED BY <1>1, <1>6, <2>1 DEF FoldsBy
<1>9. Eq(H)
  BY <1>8
<1> HIDE DEF H
<1>10. Computes(H, step, a0, n, A)
  <2>1. \A s \in SUBSET (1 .. n) : H[s] = IF s = {} THEN a0 ELSE Op(H[s \ {Max(s)}], Max(s))
    BY <1>1, <1>9
  <2> QED BY <1>4, <1>7, <2>1 DEF Computes
<1>11. H[1 .. n] \in A /\ H[1 .. n] \in P[n]
  BY <1>1, <1>2, <1>5, <1>10, FoldRule
<1> QED BY <1>3, <1>11 DEF A, n

\* CommitEngine.resolve.
LEMMA ResolveRule ==
  ASSUME NEW g \in Seq(Nat), \A c \in SUBSET Nat : Sweep(g, c) \in SUBSET Nat,
         NEW P, {} \in P[0],
         \A k \in 1 .. Len(g) : \A s \in SUBSET Nat : s \in P[k - 1] => Sweep(g, s) \in P[k]
  PROVE  resolve(g) \in SUBSET Nat /\ resolve(g) \in P[Len(g)]
<1> DEFINE n == Len(g)
           A == SUBSET Nat
           a0 == {}
           Op(s, k) == Sweep(g, s)
           step == [k \in 1 .. n |-> [s \in A |-> Op(s, k)]]
           Eq(h) == h = [s \in SUBSET DOMAIN g |-> IF s = {} THEN a0 ELSE Op(h[s \ {Max(s)}], Max(s))]
           H == CHOOSE h : Eq(h)
<1>1. n \in Nat /\ DOMAIN g = 1 .. n /\ a0 \in A
  OBVIOUS
<1>2. step \in [1 .. n -> [A -> A]]
  OBVIOUS
<1>3. resolve(g) = H[1 .. n]
  BY <1>1 DEF resolve, FoldLeft, MapThenFoldSet
<1>4. \A k \in 1 .. n, s \in A : step[k][s] = Op(s, k)
  OBVIOUS
<1>5. Rule(P, step, a0, n, A)
  <2> HIDE DEF step
  <2> QED BY <1>4 DEF Rule
<1> HIDE DEF step, Op, A, a0, n
<1>6. PICK h : FoldsBy(h, step, a0, n, A)
  BY <1>1, <1>2, FoldTable
<1>7. \A s \in SUBSET (1 .. n) : s # {} => Max(s) \in 1 .. n /\ s \ {Max(s)} \in SUBSET (1 .. n)
  BY <1>6 DEF FoldsBy
<1>8. Eq(h)
  <2>1. \A s \in SUBSET (1 .. n) : h[s] = IF s = {} THEN a0 ELSE Op(h[s \ {Max(s)}], Max(s))
    BY <1>4, <1>6, <1>7 DEF FoldsBy
  <2> QED BY <1>1, <1>6, <2>1 DEF FoldsBy
<1>9. Eq(H)
  BY <1>8
<1> HIDE DEF H
<1>10. Computes(H, step, a0, n, A)
  <2>1. \A s \in SUBSET (1 .. n) : H[s] = IF s = {} THEN a0 ELSE Op(H[s \ {Max(s)}], Max(s))
    BY <1>1, <1>9
  <2> QED BY <1>4, <1>7, <2>1 DEF Computes
<1>11. H[1 .. n] \in A /\ H[1 .. n] \in P[n]
  BY <1>1, <1>2, <1>5, <1>10, FoldRule
<1> QED BY <1>3, <1>11 DEF A, n

Searched(g, r, b, n) == FoldLeft(LAMBDA s, k : Turn(g, r, s), b, [k \in 1 .. n |-> k])

\* An element of a sequence.
LEMMA ElementTyped ==
  ASSUME NEW S, NEW q \in Seq(S)
  PROVE  \A i \in 1 .. Len(q) : q[i] \in S
OBVIOUS

\* The types of the search's state, and of the kernel's.
SearchState == [queue : Seq(Nat), delta : Seq(Nat)]
Account == [balance : Int, nonce : Nat]
KernelState == [accounts : [Accounts -> Account], rejections : SUBSET Nat]

\* The kernel starts in a state,
LEMMA NoStateTyped == NoState \in KernelState
BY DEF NoState, KernelState, Account

\* A transfer leaves accounts accounts, also one to oneself.
LEMMA TransferTyped ==
  ASSUME NEW s \in [Accounts -> Account], NEW t \in [from : Accounts, to : Accounts, amount : Int]
  PROVE  Transfer(s, t) \in [Accounts -> Account]
<1> DEFINE u == [s EXCEPT ![t.from] = [balance |-> @.balance - t.amount, nonce |-> @.nonce + 1]]
<1>1. t.from \in Accounts /\ t.to \in Accounts /\ t.amount \in Int
  OBVIOUS
<1>2. \A a \in Accounts : s[a].balance \in Int /\ s[a].nonce \in Nat
  BY DEF Account
<1>3. u \in [Accounts -> Account]
  BY <1>1, <1>2 DEF Account
<1>4. Transfer(s, t) = [u EXCEPT ![t.to].balance = @ + t.amount]
  BY DEF Transfer
<1>5. u[t.to] \in Account /\ u[t.to].balance \in Int
  BY <1>1, <1>3 DEF Account
<1> HIDE DEF u
<1>6. [u[t.to] EXCEPT !.balance = @ + t.amount] \in Account
  BY <1>1, <1>5 DEF Account
<1> QED BY <1>1, <1>3, <1>4, <1>6

\* So does an event, accepted or not.
LEMMA ApplyTyped ==
  ASSUME NEW s \in KernelState, NEW e \in 1 .. MaxEvents
  PROVE  ApplyEvent(s, e) \in KernelState
<1>1. Payload[e] \in [from : Accounts, to : Accounts, amount : Int]
  BY GenesisAssumption
<1>2. Transfer(s.accounts, Payload[e]) \in [Accounts -> Account]
  BY <1>1, TransferTyped DEF KernelState
<1>3. e \in Nat
  BY GenesisAssumption
<1> QED BY <1>2, <1>3 DEF ApplyEvent, KernelState

\* The loop of DeltaEngine.computeDelta, up to turn n.
LEMMA DeltaRule ==
  ASSUME NEW g, NEW r, NEW n0 \in Nat, NEW b \in SearchState,
         \A s \in SearchState : Turn(g, r, s) \in SearchState,
         NEW P, b \in P[0],
         \A k \in 1 .. n0 : \A s \in SearchState : s \in P[k - 1] => Turn(g, r, s) \in P[k]
  PROVE  Searched(g, r, b, n0) \in SearchState /\ Searched(g, r, b, n0) \in P[n0]
<1> DEFINE n == n0
           A == SearchState
           a0 == b
           Op(s, k) == Turn(g, r, s)
           step == [k \in 1 .. n |-> [s \in A |-> Op(s, k)]]
           Eq(h) == h = [s \in SUBSET DOMAIN [k \in 1 .. n0 |-> k] |-> IF s = {} THEN a0 ELSE Op(h[s \ {Max(s)}], Max(s))]
           H == CHOOSE h : Eq(h)
<1>1. n \in Nat /\ DOMAIN [k \in 1 .. n0 |-> k] = 1 .. n /\ a0 \in A
  OBVIOUS
<1>2. step \in [1 .. n -> [A -> A]]
  OBVIOUS
<1>3. Searched(g, r, b, n0) = H[1 .. n]
  BY <1>1 DEF Searched, FoldLeft, MapThenFoldSet
<1>4. \A k \in 1 .. n, s \in A : step[k][s] = Op(s, k)
  OBVIOUS
<1>5. Rule(P, step, a0, n, A)
  <2> HIDE DEF step
  <2> QED BY <1>4 DEF Rule
<1> HIDE DEF step, Op, A, a0, n
<1>6. PICK h : FoldsBy(h, step, a0, n, A)
  BY <1>1, <1>2, FoldTable
<1>7. \A s \in SUBSET (1 .. n) : s # {} => Max(s) \in 1 .. n /\ s \ {Max(s)} \in SUBSET (1 .. n)
  BY <1>6 DEF FoldsBy
<1>8. Eq(h)
  <2>1. \A s \in SUBSET (1 .. n) : h[s] = IF s = {} THEN a0 ELSE Op(h[s \ {Max(s)}], Max(s))
    BY <1>4, <1>6, <1>7 DEF FoldsBy
  <2> QED BY <1>1, <1>6, <2>1 DEF FoldsBy
<1>9. Eq(H)
  BY <1>8
<1> HIDE DEF H
<1>10. Computes(H, step, a0, n, A)
  <2>1. \A s \in SUBSET (1 .. n) : H[s] = IF s = {} THEN a0 ELSE Op(H[s \ {Max(s)}], Max(s))
    BY <1>1, <1>9
  <2> QED BY <1>4, <1>7, <2>1 DEF Computes
<1>11. H[1 .. n] \in A /\ H[1 .. n] \in P[n]
  BY <1>1, <1>2, <1>5, <1>10, FoldRule
<1> QED BY <1>3, <1>11 DEF A, n

\* The loop of GenesisKernel.project.
LEMMA ApplyRule ==
  ASSUME NEW o \in Seq(1 .. MaxEvents),
         NEW P, NoState \in P[0],
         \A k \in 1 .. Len(o) : \A s \in KernelState : s \in P[k - 1] => ApplyEvent(s, o[k]) \in P[k]
  PROVE  FoldLeft(ApplyEvent, NoState, o) \in KernelState /\ FoldLeft(ApplyEvent, NoState, o) \in P[Len(o)]
<1> DEFINE n == Len(o)
           A == KernelState
           a0 == NoState
           Op(s, k) == ApplyEvent(s, o[k])
           step == [k \in 1 .. n |-> [s \in A |-> Op(s, k)]]
           Eq(h) == h = [s \in SUBSET DOMAIN o |-> IF s = {} THEN a0 ELSE Op(h[s \ {Max(s)}], Max(s))]
           H == CHOOSE h : Eq(h)
<1>1. n \in Nat /\ DOMAIN o = 1 .. n /\ a0 \in A
  BY NoStateTyped
<1>2. step \in [1 .. n -> [A -> A]]
  <2>1. \A k \in 1 .. n, s \in KernelState : ApplyEvent(s, o[k]) \in KernelState
    <3>1. \A k \in 1 .. Len(o) : o[k] \in 1 .. MaxEvents
      BY ElementTyped
    <3> QED BY <1>1, <3>1, ApplyTyped
  <2> QED BY <2>1
<1>3. FoldLeft(ApplyEvent, NoState, o) = H[1 .. n]
  BY <1>1 DEF FoldLeft, MapThenFoldSet
<1>4. \A k \in 1 .. n, s \in A : step[k][s] = Op(s, k)
  OBVIOUS
<1>5. Rule(P, step, a0, n, A)
  <2> HIDE DEF step
  <2> QED BY <1>4 DEF Rule
<1> HIDE DEF step, Op, A, a0, n
<1>6. PICK h : FoldsBy(h, step, a0, n, A)
  BY <1>1, <1>2, FoldTable
<1>7. \A s \in SUBSET (1 .. n) : s # {} => Max(s) \in 1 .. n /\ s \ {Max(s)} \in SUBSET (1 .. n)
  BY <1>6 DEF FoldsBy
<1>8. Eq(h)
  <2>1. \A s \in SUBSET (1 .. n) : h[s] = IF s = {} THEN a0 ELSE Op(h[s \ {Max(s)}], Max(s))
    BY <1>4, <1>6, <1>7 DEF FoldsBy
  <2> QED BY <1>1, <1>6, <2>1 DEF FoldsBy
<1>9. Eq(H)
  BY <1>8
<1> HIDE DEF H
<1>10. Computes(H, step, a0, n, A)
  <2>1. \A s \in SUBSET (1 .. n) : H[s] = IF s = {} THEN a0 ELSE Op(H[s \ {Max(s)}], Max(s))
    BY <1>1, <1>9
  <2> QED BY <1>4, <1>7, <2>1 DEF Computes
<1>11. H[1 .. n] \in A /\ H[1 .. n] \in P[n]
  BY <1>1, <1>2, <1>5, <1>10, FoldRule
<1> QED BY <1>3, <1>11 DEF A, n

-----------------------------------------------------------------------------
\* Causal lists: parents first, nothing twice.

\* Events as Create makes them: parents are older.
EventList(E) ==
  /\ E \in Seq([parents : Seq(Nat), node : Node])
  /\ \A e \in DOMAIN E : ToSet(E[e].parents) \subseteq 1 .. e - 1

\* A log or a graph in which nothing is twice and parents come first.
Causal(E, g) ==
  /\ g \in Seq(DOMAIN E)
  /\ \A i, j \in DOMAIN g : i < j => g[i] # g[j]
  /\ \A i \in DOMAIN g : ToSet(E[g[i]].parents) \subseteq {g[j] : j \in 1 .. i - 1}

\* Types of what a causal list and its events hold.
LEMMA CausalTyped ==
  ASSUME EventList(events), NEW g, Causal(events, g)
  PROVE  /\ DOMAIN events \in SUBSET Nat /\ g \in Seq(Nat) /\ DOMAIN g = 1 .. Len(g)
         /\ \A e \in DOMAIN events : ParentsOf(e) \in Seq(Nat)
         /\ ToSet(g) \in SUBSET DOMAIN events
<1>1. DOMAIN events = 1 .. Len(events) /\ Len(events) \in Nat
  BY DEF EventList
<1>2. g \in Seq(DOMAIN events)
  BY DEF Causal
<1>3. DOMAIN events \in SUBSET Nat
  BY <1>1
<1>4. g \in Seq(Nat) /\ DOMAIN g = 1 .. Len(g)
  BY <1>2, <1>3
<1>5. \A e \in DOMAIN events : ParentsOf(e) \in Seq(Nat)
  <2>1. \A e \in DOMAIN events : events[e] \in [parents : Seq(Nat), node : Node]
    BY <1>1, ElementTyped DEF EventList
  <2> QED BY <2>1 DEF ParentsOf
<1>6. ToSet(g) \in SUBSET DOMAIN events
  BY <1>2, <1>4 DEF ToSet
<1> QED BY <1>3, <1>4, <1>5, <1>6

\* Recovery from a causal log ignores nothing.
LEMMA RecoverAll ==
  ASSUME EventList(events), NEW l, Causal(events, l)
  PROVE  recover(l) = l
<1> DEFINE P == [k \in 0 .. Len(l) |-> {SubSeq(l, 1, k)}]
<1>1. l \in Seq(Nat) /\ Len(l) \in Nat /\ DOMAIN l = 1 .. Len(l)
  BY CausalTyped
<1>2. <<>> \in P[0]
  BY <1>1
<1>3. \A k \in 1 .. Len(l) : \A s \in Seq(Nat) : s \in P[k - 1] => add(s, l[k]) \in P[k]
  <2> TAKE k \in 1 .. Len(l)
  <2> DEFINE s == SubSeq(l, 1, k - 1)
  <2>1. k - 1 \in 0 .. Len(l) /\ k \in 0 .. Len(l)
    BY <1>1
  <2>2. s \in Seq(Nat) /\ Len(s) = k - 1 /\ \A i \in 1 .. k - 1 : s[i] = l[i]
    BY <1>1
  <2>3. ~Contains(s, l[k])
    BY <1>1, <2>2 DEF Contains, Causal
  <2>4. ToSet(s) = {l[j] : j \in 1 .. k - 1}
    <3> HIDE DEF s
    <3>1. DOMAIN s = 1 .. k - 1
      BY <2>2
    <3> QED BY <2>2, <3>1 DEF ToSet
  <2>5. validate(l[k], s)
    BY <1>1, <2>4 DEF validate, Causal, ParentsOf
  <2>6. Append(s, l[k]) = SubSeq(l, 1, k)
    BY <1>1
  <2>7. add(s, l[k]) = SubSeq(l, 1, k)
    BY <2>3, <2>5, <2>6 DEF add
  <2>8. P[k - 1] = {s} /\ P[k] = {SubSeq(l, 1, k)}
    BY <2>1
  <2> HIDE DEF P, s
  <2> QED BY <2>7, <2>8
<1>4. recover(l) \in P[Len(l)]
  <2> HIDE DEF P
  <2> QED BY <1>1, <1>2, <1>3, RecoverRule
<1> QED BY <1>1, <1>4

\* One sweep over a causal graph commits all of it.
LEMMA SweepAll ==
  ASSUME EventList(events), NEW g, Causal(events, g), NEW c \in SUBSET ToSet(g)
  PROVE  Sweep(g, c) = ToSet(g)
<1> DEFINE n == Len(g)
           P == [k \in 0 .. n |-> {d \in SUBSET ToSet(g) : \A i \in 1 .. k : g[i] \in d}]
<1>1. /\ g \in Seq(Nat) /\ n \in Nat /\ DOMAIN g = 1 .. n /\ ToSet(g) \in SUBSET Nat
      /\ c \in SUBSET Nat
  BY CausalTyped
<1>2. c \in P[0]
  BY <1>1
<1>3. ASSUME NEW k \in 1 .. n, NEW s \in SUBSET Nat, s \in P[k - 1] PROVE Visit(s, g[k]) \in P[k]
  <2>1. k - 1 \in 0 .. n /\ k \in 0 .. n
    BY <1>1
  <2>2. s \in SUBSET ToSet(g) /\ \A i \in 1 .. k - 1 : g[i] \in s
    BY <1>3, <2>1
  <2>3. ToSet(ParentsOf(g[k])) \subseteq s
    <3>1. ToSet(ParentsOf(g[k])) \subseteq {g[j] : j \in 1 .. k - 1}
      BY <1>1 DEF Causal, ParentsOf
    <3> QED BY <2>2, <3>1
  <2>4. Visit(s, g[k]) = s \cup {g[k]} /\ g[k] \in ToSet(g)
    BY <1>1, <2>3 DEF Visit, ToSet
  <2>5. \A i \in 1 .. k : i = k \/ i \in 1 .. k - 1
    BY <1>1
  <2> QED BY <2>1, <2>2, <2>4, <2>5
<1>4. FoldLeft(Visit, c, g) \in P[n]
  <2> HIDE DEF P
  <2> QED BY <1>1, <1>2, <1>3, VisitRule
<1>5. FoldLeft(Visit, c, g) = ToSet(g)
  <2> DEFINE d == FoldLeft(Visit, c, g)
  <2> HIDE DEF d
  <2>1. d \in SUBSET ToSet(g) /\ \A i \in 1 .. n : g[i] \in d
    BY <1>1, <1>4 DEF d
  <2>2. d = ToSet(g)
    BY <1>1, <2>1 DEF ToSet
  <2> QED BY <2>2 DEF d
<1> QED BY <1>5 DEF Sweep

\* A sweep commits ids.
LEMMA SweepTyped ==
  ASSUME NEW g \in Seq(Nat), NEW c \in SUBSET Nat
  PROVE  Sweep(g, c) \in SUBSET Nat
<1> DEFINE P == [k \in 0 .. Len(g) |-> SUBSET Nat]
<1>1. c \in P[0] /\ \A k \in 1 .. Len(g) : k - 1 \in 0 .. Len(g) /\ k \in 0 .. Len(g)
  OBVIOUS
<1>2. \A k \in 1 .. Len(g) : \A s \in SUBSET Nat : s \in P[k - 1] => Visit(s, g[k]) \in P[k]
  <2>1. \A k \in 1 .. Len(g) : g[k] \in Nat
    OBVIOUS
  <2> QED BY <1>1, <2>1 DEF Visit
<1>3. FoldLeft(Visit, c, g) \in SUBSET Nat
  <2> HIDE DEF P
  <2> QED BY <1>1, <1>2, VisitRule
<1> QED BY <1>3 DEF Sweep

\* So resolve commits exactly what the graph has.
LEMMA ResolveAll ==
  ASSUME EventList(events), NEW g, Causal(events, g)
  PROVE  resolve(g) = ToSet(g)
<1> DEFINE n == Len(g)
           P == [k \in 0 .. n |-> IF k = 0 THEN {{}} ELSE {ToSet(g)}]
<1>1. g \in Seq(Nat) /\ n \in Nat /\ \A c \in SUBSET Nat : Sweep(g, c) \in SUBSET Nat
  BY CausalTyped, SweepTyped
<1>2. {} \in P[0]
  BY <1>1
<1>3. ASSUME NEW k \in 1 .. n, NEW s \in SUBSET Nat, s \in P[k - 1] PROVE Sweep(g, s) \in P[k]
  <2>1. k - 1 \in 0 .. n /\ k \in 0 .. n /\ k # 0
    BY <1>1
  <2>2. s \in SUBSET ToSet(g)
    BY <1>3, <2>1
  <2>3. Sweep(g, s) = ToSet(g)
    BY <2>2, SweepAll
  <2> QED BY <2>1, <2>3
<1>4. resolve(g) \in P[n]
  <2> HIDE DEF P
  <2> QED BY <1>1, <1>2, <1>3, ResolveRule
<1>5. n = 0 => ToSet(g) = {}
  BY <1>1 DEF ToSet
<1>6. n \in 0 .. n
  BY <1>1
<1>7. resolve(g) \in IF n = 0 THEN {{}} ELSE {ToSet(g)}
  <2> HIDE DEF n
  <2> QED BY <1>4, <1>6
<1> HIDE DEF P, n
<1> QED BY <1>5, <1>7

\* What an Append, and Keep, do to the set of elements.
LEMMA AppendSet ==
  ASSUME NEW s \in Seq(Nat), NEW e \in Nat
  PROVE  ToSet(Append(s, e)) = ToSet(s) \cup {e}
<1> DEFINE t == Append(s, e)
<1>1. /\ DOMAIN t = 1 .. Len(s) + 1 /\ DOMAIN s = 1 .. Len(s) /\ Len(s) \in Nat
      /\ t[Len(s) + 1] = e /\ \A i \in 1 .. Len(s) : t[i] = s[i]
  OBVIOUS
<1> HIDE DEF t
<1>2. 1 .. Len(s) + 1 = (1 .. Len(s)) \cup {Len(s) + 1}
  BY <1>1
<1>3. ToSet(t) = ToSet(s) \cup {e}
  BY <1>1, <1>2 DEF ToSet
<1> QED BY <1>3 DEF t

LEMMA KeepSet ==
  ASSUME NEW g \in Seq(Nat), NEW ids
  PROVE  Keep(g, ids) \in Seq(Nat) /\ ToSet(Keep(g, ids)) = ToSet(g) \cap ids
<1> DEFINE n == Len(g)
           P == [k \in 0 .. n |-> {s \in Seq(Nat) : ToSet(s) = {g[i] : i \in 1 .. k} \cap ids}]
<1>1. n \in Nat /\ DOMAIN g = 1 .. n
  OBVIOUS
<1>2. <<>> \in P[0]
  <2>1. ToSet(<<>>) = {} /\ 1 .. 0 = {} /\ <<>> \in Seq(Nat)
    BY DEF ToSet
  <2> QED BY <1>1, <2>1
<1>3. ASSUME NEW k \in 1 .. n, NEW s \in Seq(Nat), s \in P[k - 1]
      PROVE  (IF g[k] \in ids THEN Append(s, g[k]) ELSE s) \in P[k]
  <2>1. k - 1 \in 0 .. n /\ k \in 0 .. n /\ g[k] \in Nat
    BY <1>1
  <2>2. ToSet(s) = {g[i] : i \in 1 .. k - 1} \cap ids
    BY <1>3, <2>1
  <2>3. {g[i] : i \in 1 .. k} = {g[i] : i \in 1 .. k - 1} \cup {g[k]}
    BY <2>1
  <2>4. ToSet(Append(s, g[k])) = ToSet(s) \cup {g[k]}
    BY <2>1, AppendSet
  <2> QED BY <2>1, <2>2, <2>3, <2>4
<1>4. Keep(g, ids) \in Seq(Nat) /\ Keep(g, ids) \in P[n]
  <2> HIDE DEF P
  <2> QED BY <1>1, <1>2, <1>3, KeepRule
<1>5. {g[i] : i \in 1 .. n} = ToSet(g)
  BY <1>1 DEF ToSet
<1> HIDE DEF n
<1>6. n \in 0 .. n
  BY <1>1
<1> QED BY <1>4, <1>5, <1>6

-----------------------------------------------------------------------------
\* The invariant.

\* Types of the state.
GraphsTyped ==
  /\ EventList(events)
  /\ log \in [Node -> Seq(Nat)] /\ graph \in [Node -> Seq(Nat)]
  /\ inbox \in [Node -> Seq(Nat)] /\ adding \in [Node -> Nat \cup {None}]
  /\ up \in [Node -> BOOLEAN] /\ behind \in [Node -> SUBSET Nat]

\* The log of a node is its graph, and the event on its way there.
Logs(E, l, g, b, a, u) ==
  /\ Causal(E, l) /\ Causal(E, g) /\ b \in Seq(DOMAIN E)
  /\ ~u => l = <<>> /\ g = <<>> /\ b = <<>> /\ a = None
  /\ u /\ a = None => g = l
  /\ a # None => a \in DOMAIN E /\ l = Append(g, a)

\* It is so at every node.
LogInv == \A n \in Node : Logs(events, log[n], graph[n], inbox[n], adding[n], up[n])

\* Of what a node lacked, one event at least can be added when its turn comes.
Expected(E, miss, g, b, a) ==
  /\ miss \subseteq DOMAIN E
  /\ miss # {} => \E e \in miss : /\ ToSet(E[e].parents) \subseteq ToSet(g)
                                 /\ (e \in ToSet(g) \/ e \in ToSet(b) \/ a = e)

\* A node that is down expects nothing.
RoundInv ==
  \A n \in Node : /\ Expected(events, behind[n], graph[n], inbox[n], adding[n])
                  /\ ~up[n] => behind[n] = {}

\* The inductive invariant.
GenesisInv == GraphsTyped /\ LogInv

-----------------------------------------------------------------------------
\* The search of DeltaEngine.computeDelta: it visits all it should, and ends.

\* The elements of a queue, of a concatenation and of a reversed list.
LEMMA HeadAndTail ==
  ASSUME NEW q \in Seq(Nat), q # <<>>
  PROVE  /\ Head(q) \in Nat /\ Tail(q) \in Seq(Nat) /\ Len(Tail(q)) = Len(q) - 1
         /\ ToSet(q) = {Head(q)} \cup ToSet(Tail(q))
<1>1. /\ Head(q) \in Nat /\ Tail(q) \in Seq(Nat) /\ Len(Tail(q)) = Len(q) - 1
      /\ Head(q) = q[1] /\ Len(q) \in Nat /\ Len(q) # 0 /\ DOMAIN q = 1 .. Len(q)
      /\ \A i \in 1 .. Len(q) - 1 : Tail(q)[i] = q[i + 1]
  OBVIOUS
<1> DEFINE t == Tail(q)
           h == Head(q)
<1> HIDE DEF t, h
<1>2. t \in Seq(Nat) /\ DOMAIN t = 1 .. Len(q) - 1
  BY <1>1 DEF t
<1>3. \A x \in ToSet(q) : x = h \/ x \in ToSet(t)
  <2> TAKE x \in ToSet(q)
  <2>1. PICK i \in 1 .. Len(q) : x = q[i]
    BY <1>1 DEF ToSet
  <2>2. CASE i = 1
    BY <1>1, <2>1, <2>2 DEF h
  <2>3. CASE i # 1
    <3>1. i - 1 \in DOMAIN t /\ t[i - 1] = x
      BY <1>1, <1>2, <2>1, <2>3 DEF t
    <3> QED BY <3>1 DEF ToSet
  <2> QED BY <2>2, <2>3
<1>4. h \in ToSet(q)
  BY <1>1 DEF h, ToSet
<1>5. \A x \in ToSet(t) : x \in ToSet(q)
  <2> TAKE x \in ToSet(t)
  <2>1. PICK i \in DOMAIN t : x = t[i]
    BY DEF ToSet
  <2>2. i + 1 \in DOMAIN q /\ x = q[i + 1]
    BY <1>1, <1>2, <2>1 DEF t
  <2> QED BY <2>2 DEF ToSet
<1>6. ToSet(q) = {h} \cup ToSet(t)
  BY <1>3, <1>4, <1>5
<1> QED BY <1>1, <1>6 DEF t, h

LEMMA ConcatSet ==
  ASSUME NEW a \in Seq(Nat), NEW b \in Seq(Nat)
  PROVE  a \o b \in Seq(Nat) /\ Len(a \o b) = Len(a) + Len(b) /\ ToSet(a \o b) = ToSet(a) \cup ToSet(b)
<1> DEFINE c == a \o b
<1>1. /\ c \in Seq(Nat) /\ Len(c) = Len(a) + Len(b) /\ Len(a) \in Nat /\ Len(b) \in Nat
      /\ DOMAIN c = 1 .. Len(a) + Len(b) /\ DOMAIN a = 1 .. Len(a) /\ DOMAIN b = 1 .. Len(b)
      /\ \A i \in 1 .. Len(a) : c[i] = a[i]
      /\ \A i \in 1 .. Len(b) : c[i + Len(a)] = b[i]
  OBVIOUS
<1> HIDE DEF c
<1>2. \A x \in ToSet(c) : x \in ToSet(a) \/ x \in ToSet(b)
  <2> TAKE x \in ToSet(c)
  <2>1. PICK i \in DOMAIN c : x = c[i]
    BY DEF ToSet
  <2>2. CASE i <= Len(a)
    <3>1. i \in DOMAIN a /\ x = a[i]
      BY <1>1, <2>1, <2>2
    <3> QED BY <3>1 DEF ToSet
  <2>3. CASE ~(i <= Len(a))
    <3>1. i - Len(a) \in DOMAIN b /\ x = b[i - Len(a)]
      <4>1. i - Len(a) \in 1 .. Len(b) /\ (i - Len(a)) + Len(a) = i
        BY <1>1, <2>1, <2>3
      <4> QED BY <1>1, <2>1, <4>1
    <3> QED BY <3>1 DEF ToSet
  <2> QED BY <2>2, <2>3
<1>3. \A x \in ToSet(a) : x \in ToSet(c)
  <2> TAKE x \in ToSet(a)
  <2>1. PICK i \in DOMAIN a : x = a[i]
    BY DEF ToSet
  <2>2. i \in DOMAIN c /\ x = c[i]
    BY <1>1, <2>1
  <2> QED BY <2>2 DEF ToSet
<1>4. \A x \in ToSet(b) : x \in ToSet(c)
  <2> TAKE x \in ToSet(b)
  <2>1. PICK i \in DOMAIN b : x = b[i]
    BY DEF ToSet
  <2>2. i + Len(a) \in DOMAIN c /\ x = c[i + Len(a)]
    BY <1>1, <2>1
  <2> QED BY <2>2 DEF ToSet
<1>5. ToSet(c) = ToSet(a) \cup ToSet(b)
  BY <1>2, <1>3, <1>4
<1> QED BY <1>1, <1>5 DEF c

LEMMA ReverseSet ==
  ASSUME NEW S, NEW q \in Seq(S)
  PROVE  Reverse(q) \in Seq(S) /\ ToSet(Reverse(q)) = ToSet(q) /\ (Reverse(q) = <<>> <=> q = <<>>)
<1> DEFINE n == Len(q)
           t == Reverse(q)
<1>1. n \in Nat /\ DOMAIN q = 1 .. n /\ \A i \in 1 .. n : q[i] \in S /\ n - i + 1 \in 1 .. n
  OBVIOUS
<1>2. t = [i \in 1 .. n |-> q[n - i + 1]]
  BY DEF Reverse
<1> HIDE DEF t, n
<1>3. t \in [1 .. n -> S]
  BY <1>1, <1>2
<1>4. t \in Seq(S) /\ Len(t) = n
  BY <1>1, <1>3
<1>5. \A x \in ToSet(t) : x \in ToSet(q)
  <2> TAKE x \in ToSet(t)
  <2>1. PICK i \in 1 .. n : x = t[i]
    BY <1>3 DEF ToSet
  <2> QED BY <1>1, <1>2, <2>1 DEF ToSet
<1>6. \A x \in ToSet(q) : x \in ToSet(t)
  <2> TAKE x \in ToSet(q)
  <2>1. PICK i \in 1 .. n : x = q[i]
    BY <1>1 DEF ToSet
  <2>2. n - i + 1 \in 1 .. n /\ n - (n - i + 1) + 1 = i
    BY <1>1
  <2>3. t[n - i + 1] = q[i] /\ DOMAIN t = 1 .. n
    BY <1>2, <2>2
  <2> QED BY <2>1, <2>2, <2>3 DEF ToSet
<1>7. t = <<>> <=> q = <<>>
  BY <1>4 DEF n
<1> QED BY <1>4, <1>5, <1>6, <1>7 DEF t

\* A list has finitely many elements.
LEMMA ToSetFinite ==
  ASSUME NEW S, NEW q \in Seq(S)
  PROVE  IsFiniteSet(ToSet(q)) /\ ToSet(q) \in SUBSET S
<1>1. DOMAIN q = 1 .. Len(q) /\ Len(q) \in Nat /\ \A i \in 1 .. Len(q) : q[i] \in S
  OBVIOUS
<1>2. IsFiniteSet(DOMAIN q)
  BY <1>1, FS_Interval
<1>3. ToSet(q) = {q[i] : i \in DOMAIN q}
  BY DEF ToSet
<1>4. IsFiniteSet({q[i] : i \in DOMAIN q})
  <2> DEFINE f == [i \in DOMAIN q |-> q[i]]
  <2>1. f \in Surjection(DOMAIN q, {q[i] : i \in DOMAIN q})
    BY DEF Surjection
  <2> QED BY <1>2, <2>1, FS_Surjection
<1> QED BY <1>1, <1>3, <1>4

\* What visiting an event adds to the queue.
Cost(g) == [e \in ToSet(g) |-> Len(ParentsOf(e))]

\* What the search still has to take from its queue, at most.
Ahead(g, s) == Len(s.queue) + SumFunctionOnSet(Cost(g), ToSet(g) \ ToSet(s.delta))

\* Every id the search has met is in its queue or its delta, if it belongs there.
Met(g, s) == ToSet(Frontier(g)) \cup UNION {ToSet(ParentsOf(c)) : c \in ToSet(s.delta)}
Searching(g, r, s) ==
  /\ s \in SearchState /\ ToSet(s.delta) \subseteq ToSet(g)
  /\ \A x \in Met(g, s) : x \in ToSet(g) /\ x \notin r => x \in ToSet(s.queue) \cup ToSet(s.delta)

\* Contains is membership in the set of elements.
LEMMA ContainsSet ==
  ASSUME NEW q \in Seq(Nat), NEW e
  PROVE  Contains(q, e) <=> e \in ToSet(q)
<1>1. DOMAIN q = 1 .. Len(q)
  OBVIOUS
<1> QED BY <1>1 DEF Contains, ToSet

\* Types of what the search reads of a causal graph.
LEMMA GraphFacts ==
  ASSUME EventList(events), NEW g, Causal(events, g)
  PROVE  /\ g \in Seq(Nat) /\ IsFiniteSet(ToSet(g)) /\ ToSet(g) \in SUBSET Nat
         /\ \A e \in ToSet(g) : ParentsOf(e) \in Seq(Nat) /\ Cost(g)[e] \in Nat
         /\ DOMAIN Cost(g) = ToSet(g)
         /\ \A id : Contains(g, id) <=> id \in ToSet(g)
<1>1. g \in Seq(Nat) /\ DOMAIN g = 1 .. Len(g) /\ ToSet(g) \in SUBSET DOMAIN events
      /\ \A e \in DOMAIN events : ParentsOf(e) \in Seq(Nat)
  BY CausalTyped
<1>2. IsFiniteSet(ToSet(g)) /\ ToSet(g) \in SUBSET Nat
  BY <1>1, ToSetFinite
<1>3. \A e \in ToSet(g) : ParentsOf(e) \in Seq(Nat)
  BY <1>1
<1>4. \A e \in ToSet(g) : Cost(g)[e] \in Nat
  BY <1>3 DEF Cost
<1>5. \A id : Contains(g, id) <=> id \in ToSet(g)
  BY <1>1 DEF Contains, ToSet
<1> QED BY <1>1, <1>2, <1>3, <1>4, <1>5 DEF Cost

\* The frontier is the events of the graph that are nobody's parents.
LEMMA FrontierSet ==
  ASSUME EventList(events), NEW g, Causal(events, g)
  PROVE  /\ Frontier(g) \in Seq(Nat)
         /\ \A x \in ToSet(g) : (\A c \in ToSet(g) : x \notin ToSet(ParentsOf(c))) => x \in ToSet(Frontier(g))
         /\ ToSet(Frontier(g)) \in SUBSET ToSet(g)
<1> DEFINE ids == ToSet(g) \ UNION {ToSet(ParentsOf(e)) : e \in ToSet(g)}
<1>1. g \in Seq(Nat)
  BY GraphFacts
<1>2. Frontier(g) = Keep(g, ids)
  BY DEF Frontier
<1>3. Keep(g, ids) \in Seq(Nat) /\ ToSet(Keep(g, ids)) = ToSet(g) \cap ids
  <2> HIDE DEF ids
  <2> QED BY <1>1, KeepSet
<1> QED BY <1>2, <1>3

\* A turn of the search keeps what it has met, and takes one off what is ahead.
LEMMA SearchTurn ==
  ASSUME EventList(events), NEW g, Causal(events, g), NEW r, NEW s, Searching(g, r, s)
  PROVE  /\ Searching(g, r, Turn(g, r, s))
         /\ s.queue = <<>> => Turn(g, r, s) = s
         /\ s.queue # <<>> => Ahead(g, Turn(g, r, s)) = Ahead(g, s) - 1
<1> DEFINE id == Head(s.queue)
           rest == Tail(s.queue)
           t == Turn(g, r, s)
<1>1. s \in SearchState /\ s.queue \in Seq(Nat) /\ s.delta \in Seq(Nat)
      /\ s = [queue |-> s.queue, delta |-> s.delta]
  BY DEF Searching, SearchState
<1>2. CASE s.queue = <<>>
  BY <1>2 DEF Turn
<1>3. CASE s.queue # <<>>
  <2>1. /\ id \in Nat /\ rest \in Seq(Nat) /\ Len(rest) = Len(s.queue) - 1
        /\ ToSet(s.queue) = {id} \cup ToSet(rest)
    BY <1>1, <1>3, HeadAndTail
  <2>2. Contains(s.delta, id) <=> id \in ToSet(s.delta)
    BY <1>1, ContainsSet
  <2>3. Contains(g, id) <=> id \in ToSet(g)
    BY GraphFacts
  <2>4. CASE id \in ToSet(s.delta) \/ id \in r \/ id \notin ToSet(g)
    <3>1. t = [queue |-> rest, delta |-> s.delta]
      BY <1>1, <1>3, <2>2, <2>3, <2>4 DEF Turn
    <3> HIDE DEF t, id, rest
    <3>2. t \in SearchState /\ t.queue = rest /\ t.delta = s.delta
      BY <1>1, <2>1, <3>1 DEF SearchState
    <3>3. Searching(g, r, t)
      BY <2>1, <2>4, <3>2 DEF Searching, Met
    <3>4. SumFunctionOnSet(Cost(g), ToSet(g) \ ToSet(s.delta)) \in Int
      <4>1. IsFiniteSet(ToSet(g) \ ToSet(s.delta))
        BY GraphFacts, FS_Subset
      <4>2. \A e \in ToSet(g) \ ToSet(s.delta) : Cost(g)[e] \in Int
        BY GraphFacts
      <4> QED BY <4>1, <4>2, SumIsInt
    <3>5. Ahead(g, t) = Ahead(g, s) - 1
      <4> DEFINE z == SumFunctionOnSet(Cost(g), ToSet(g) \ ToSet(s.delta))
      <4>1. Ahead(g, t) = Len(rest) + z /\ Ahead(g, s) = Len(s.queue) + z
        BY <3>2 DEF Ahead
      <4>2. z \in Int /\ Len(s.queue) \in Nat
        BY <1>1, <3>4
      <4> HIDE DEF z
      <4> QED BY <2>1, <4>1, <4>2
    <3> QED BY <1>3, <3>3, <3>5 DEF t
  <2>5. CASE ~(id \in ToSet(s.delta) \/ id \in r \/ id \notin ToSet(g))
    <3>1. t = [queue |-> rest \o ParentsOf(id), delta |-> Append(s.delta, id)]
      BY <1>1, <1>3, <2>2, <2>3, <2>5 DEF Turn, Pushed
    <3> HIDE DEF t, id, rest
    <3>2. ParentsOf(id) \in Seq(Nat)
      BY <2>5, GraphFacts
    <3>3. /\ rest \o ParentsOf(id) \in Seq(Nat)
          /\ Len(rest \o ParentsOf(id)) = Len(rest) + Len(ParentsOf(id))
          /\ ToSet(rest \o ParentsOf(id)) = ToSet(rest) \cup ToSet(ParentsOf(id))
      BY <2>1, <3>2, ConcatSet
    <3>4. ToSet(Append(s.delta, id)) = ToSet(s.delta) \cup {id} /\ Append(s.delta, id) \in Seq(Nat)
      BY <1>1, <2>1, AppendSet
    <3>5. /\ t \in SearchState /\ ToSet(t.delta) = ToSet(s.delta) \cup {id}
          /\ t.queue = rest \o ParentsOf(id)
      BY <3>1, <3>3, <3>4 DEF SearchState
    <3>6. ToSet(t.queue) = ToSet(rest) \cup ToSet(ParentsOf(id))
      BY <3>3, <3>5
    <3>7. Met(g, t) = Met(g, s) \cup ToSet(ParentsOf(id))
      BY <3>5 DEF Met
    <3>8. Searching(g, r, t)
      BY <2>1, <2>5, <3>5, <3>6, <3>7 DEF Searching
    <3> DEFINE D == ToSet(g) \ ToSet(s.delta)
               c == Cost(g)
    <3>9. IsFiniteSet(D) /\ id \in D /\ D \ {id} = ToSet(g) \ ToSet(t.delta)
      <4>1. IsFiniteSet(D)
        BY GraphFacts, FS_Subset
      <4> QED BY <2>5, <3>5, <4>1
    <3>10. \A e \in D : c[e] \in Int
      BY GraphFacts
    <3>11. c[id] = Len(ParentsOf(id))
      BY <2>5 DEF Cost
    <3>12. Ahead(g, s) = Len(s.queue) + SumFunctionOnSet(c, D)
      BY DEF Ahead
    <3>13. Ahead(g, t) = Len(t.queue) + SumFunctionOnSet(c, D \ {id})
      BY <3>9 DEF Ahead
    <3> HIDE DEF D, c
    <3>14. SumFunctionOnSet(c, D) = c[id] + SumFunctionOnSet(c, D \ {id})
      BY <3>9, <3>10, SumRemove
    <3>15. SumFunctionOnSet(c, D \ {id}) \in Int /\ Len(ParentsOf(id)) \in Nat /\ Len(s.queue) \in Nat
      <4>1. IsFiniteSet(D \ {id}) /\ \A e \in D \ {id} : c[e] \in Int
        BY <3>9, <3>10, FS_Subset
      <4> QED BY <1>1, <3>2, <4>1, SumIsInt
    <3>16. Ahead(g, t) = Ahead(g, s) - 1
      BY <2>1, <3>3, <3>5, <3>11, <3>12, <3>13, <3>14, <3>15
    <3> QED BY <1>3, <3>8, <3>16 DEF t
  <2> QED BY <2>4, <2>5
<1> QED BY <1>2, <1>3

\* What is ahead is a number, and a turn keeps the types.
LEMMA AheadTyped ==
  ASSUME EventList(events), NEW g, Causal(events, g), NEW r, NEW s, Searching(g, r, s)
  PROVE  Ahead(g, s) \in Int
<1>1. IsFiniteSet(ToSet(g) \ ToSet(s.delta)) /\ \A e \in ToSet(g) \ ToSet(s.delta) : Cost(g)[e] \in Int
  BY GraphFacts, FS_Subset
<1>2. SumFunctionOnSet(Cost(g), ToSet(g) \ ToSet(s.delta)) \in Int
  BY <1>1, SumIsInt
<1>3. s.queue \in Seq(Nat)
  BY DEF Searching, SearchState
<1> QED BY <1>2, <1>3 DEF Ahead

LEMMA TurnTyped ==
  ASSUME EventList(events), NEW g, Causal(events, g), NEW r, NEW s \in SearchState
  PROVE  Turn(g, r, s) \in SearchState
<1>1. s.queue \in Seq(Nat) /\ s.delta \in Seq(Nat) /\ s = [queue |-> s.queue, delta |-> s.delta]
  BY DEF SearchState
<1>2. CASE s.queue # <<>>
  <2> DEFINE id == Head(s.queue)
             rest == Tail(s.queue)
  <2>1. id \in Nat /\ rest \in Seq(Nat)
    BY <1>1, <1>2, HeadAndTail
  <2>2. Turn(g, r, s) = [queue |-> rest, delta |-> s.delta]
        \/ /\ id \in ToSet(g)
           /\ Turn(g, r, s) = [queue |-> rest \o ParentsOf(id), delta |-> Append(s.delta, id)]
    BY <1>1, <1>2, GraphFacts DEF Turn, Pushed
  <2> HIDE DEF id, rest
  <2>3. id \in ToSet(g) => ParentsOf(id) \in Seq(Nat)
    BY GraphFacts
  <2>4. CASE Turn(g, r, s) = [queue |-> rest, delta |-> s.delta]
    BY <1>1, <2>1, <2>4 DEF SearchState
  <2>5. CASE id \in ToSet(g) /\ Turn(g, r, s) = [queue |-> rest \o ParentsOf(id), delta |-> Append(s.delta, id)]
    <3>1. rest \o ParentsOf(id) \in Seq(Nat) /\ Append(s.delta, id) \in Seq(Nat)
      BY <1>1, <2>1, <2>3, <2>5
    <3> QED BY <2>5, <3>1 DEF SearchState
  <2> QED BY <2>2, <2>4, <2>5
<1> QED BY <1>1, <1>2 DEF Turn

\* The parents of what a graph has are in it.
LEMMA ParentsInside ==
  ASSUME EventList(events), NEW g, Causal(events, g), NEW c \in ToSet(g)
  PROVE  ToSet(ParentsOf(c)) \subseteq ToSet(g)
<1>1. DOMAIN g = 1 .. Len(g) /\ Len(g) \in Nat
  BY CausalTyped
<1>2. PICK i \in DOMAIN g : c = g[i]
  BY DEF ToSet
<1>3. ToSet(ParentsOf(c)) \subseteq {g[j] : j \in 1 .. i - 1}
  BY <1>2 DEF Causal, ParentsOf
<1>4. \A j \in 1 .. i - 1 : j \in DOMAIN g
  BY <1>1
<1> QED BY <1>3, <1>4 DEF ToSet

\* The largest element of a set of numbers.
LEMMA MaxIsLargest ==
  ASSUME NEW n \in Nat, NEW s \in SUBSET (1 .. n), s # {}
  PROVE  Max(s) \in s /\ \A y \in s : Max(s) >= y
<1> DEFINE D == {n - x : x \in s}
<1>1. D \in SUBSET Nat /\ D # {}
  <2>1. \A x \in s : x \in Int /\ x <= n
    OBVIOUS
  <2>2. \A x \in s : n - x \in Nat
    BY <2>1
  <2> QED BY <2>2
<1>2. PICK d \in D : \A e \in D : d <= e
  <2> HIDE DEF D
  <2> QED BY <1>1, LeastNumber
<1>3. PICK x \in s : d = n - x
  OBVIOUS
<1>4. \A y \in s : x >= y
  <2> TAKE y \in s
  <2>1. n - y \in D
    OBVIOUS
  <2>2. n - x <= n - y
    BY <1>2, <1>3, <2>1
  <2> QED BY <2>2
<1> QED BY <1>4 DEF Max

\* A list is a list of any set its elements are in.
LEMMA SeqOfItsSet == ASSUME NEW q \in Seq(Nat) PROVE \A S : ToSet(q) \subseteq S => q \in Seq(S)
<1> SUFFICES ASSUME NEW S, ToSet(q) \subseteq S PROVE q \in Seq(S)
  OBVIOUS
<1>1. DOMAIN q = 1 .. Len(q) /\ Len(q) \in Nat /\ q = [i \in 1 .. Len(q) |-> q[i]]
  OBVIOUS
<1>2. \A i \in 1 .. Len(q) : q[i] \in S
  BY <1>1 DEF ToSet
<1>3. q \in [1 .. Len(q) -> S]
  BY <1>1, <1>2
<1> QED BY <1>1, <1>3

\* When the search ends it has visited all it met, down to what the remote has.
LEMMA SearchEnds ==
  ASSUME EventList(events), NEW g, Causal(events, g), NEW r
  PROVE  /\ computeDelta(g, r) \in Seq(ToSet(g))
         /\ \A x \in ToSet(g) \ r :
              \/ x \in ToSet(computeDelta(g, r))
              \/ /\ x \notin ToSet(Frontier(g))
                 /\ \A c \in ToSet(computeDelta(g, r)) : x \notin ToSet(ParentsOf(c))
<1> DEFINE n == Turns(g)
           b == [queue |-> Frontier(g), delta |-> <<>>]
           P == [k \in 0 .. n |-> {s \in SearchState : Searching(g, r, s) /\ (s.queue = <<>> \/ Ahead(g, s) <= n - k)}]
           d == Searched(g, r, b, n)
<1>1. /\ Frontier(g) \in Seq(Nat) /\ IsFiniteSet(ToSet(g)) /\ ToSet(Frontier(g)) \in SUBSET ToSet(g)
      /\ \A e \in ToSet(g) : Cost(g)[e] \in Nat
  BY FrontierSet, GraphFacts
<1>2. b \in SearchState /\ b.queue = Frontier(g) /\ b.delta = <<>> /\ ToSet(b.delta) = {}
  <2>1. ToSet(<<>>) = {} /\ <<>> \in Seq(Nat)
    BY DEF ToSet
  <2> QED BY <1>1, <2>1 DEF SearchState
<1> HIDE DEF b
<1>3. Searching(g, r, b)
  BY <1>2 DEF Searching, Met
<1>4. n \in Nat /\ Ahead(g, b) = n
  <2>1. SumFunction(Cost(g)) = SumFunctionOnSet(Cost(g), ToSet(g))
    BY DEF SumFunction, Cost
  <2>2. n = Len(Frontier(g)) + SumFunctionOnSet(Cost(g), ToSet(g))
    BY <2>1 DEF Turns, Cost
  <2>3. SumFunctionOnSet(Cost(g), ToSet(g)) \in Nat
    BY <1>1, SumIsNat
  <2>4. Len(Frontier(g)) \in Nat
    BY <1>1
  <2>5. ToSet(g) \ {} = ToSet(g)
    OBVIOUS
  <2> DEFINE z == SumFunctionOnSet(Cost(g), ToSet(g))
  <2>6. Ahead(g, b) = Len(Frontier(g)) + z
    BY <1>2, <2>5 DEF Ahead
  <2> HIDE DEF n, z
  <2> QED BY <2>2, <2>3, <2>4, <2>6 DEF z
<1> HIDE DEF n
<1>5. b \in P[0]
  BY <1>2, <1>3, <1>4
<1>6. ASSUME NEW k \in 1 .. n, NEW s \in SearchState, s \in P[k - 1] PROVE Turn(g, r, s) \in P[k]
  <2>1. k - 1 \in 0 .. n /\ k \in 0 .. n
    BY <1>4
  <2>2. Searching(g, r, s) /\ (s.queue = <<>> \/ Ahead(g, s) <= n - (k - 1))
    BY <1>6, <2>1
  <2> DEFINE t == Turn(g, r, s)
  <2>3. /\ Searching(g, r, t)
        /\ s.queue = <<>> => t = s
        /\ s.queue # <<>> => Ahead(g, t) = Ahead(g, s) - 1
    BY <2>2, SearchTurn
  <2>4. t \in SearchState
    BY <2>3 DEF Searching
  <2>5. Ahead(g, s) \in Int
    BY <2>2, AheadTyped
  <2>6. t.queue = <<>> \/ Ahead(g, t) <= n - k
    BY <1>4, <2>2, <2>3, <2>5
  <2> HIDE DEF t
  <2>7. t \in P[k]
    BY <2>1, <2>3, <2>4, <2>6
  <2> QED BY <2>7 DEF t
<1>7. \A s \in SearchState : Turn(g, r, s) \in SearchState
  BY TurnTyped
<1>8. d \in SearchState /\ d \in P[n]
  <2> HIDE DEF P
  <2> QED BY <1>2, <1>4, <1>5, <1>6, <1>7, DeltaRule
<1>9. computeDelta(g, r) = Reverse(d.delta)
  BY DEF computeDelta, Searched, n, b
<1> HIDE DEF d
<1>10. Searching(g, r, d) /\ (d.queue = <<>> \/ Ahead(g, d) <= 0)
  <2>1. n \in 0 .. n /\ n - n = 0
    BY <1>4
  <2> QED BY <1>8, <2>1
<1>11. d.queue = <<>> /\ d.delta \in Seq(Nat)
  <2>1. d.queue \in Seq(Nat) /\ d.delta \in Seq(Nat)
    BY <1>8 DEF SearchState
  <2>2. SumFunctionOnSet(Cost(g), ToSet(g) \ ToSet(d.delta)) \in Nat
    <3>1. IsFiniteSet(ToSet(g) \ ToSet(d.delta))
      BY <1>1, FS_Subset
    <3>2. \A e \in ToSet(g) \ ToSet(d.delta) : Cost(g)[e] \in Nat
      BY <1>1
    <3> QED BY <3>1, <3>2, SumIsNat
  <2>3. CASE Ahead(g, d) <= 0
    <3>1. Len(d.queue) \in Nat /\ Ahead(g, d) = Len(d.queue) + SumFunctionOnSet(Cost(g), ToSet(g) \ ToSet(d.delta))
      BY <2>1 DEF Ahead
    <3>2. Len(d.queue) = 0
      BY <2>2, <2>3, <3>1
    <3> QED BY <2>1, <3>2
  <2> QED BY <1>10, <2>1, <2>3
<1>12. /\ ToSet(d.delta) \subseteq ToSet(g)
       /\ \A x \in ToSet(g) \ r : x \in Met(g, d) => x \in ToSet(d.delta)
  <2>1. ToSet(<<>>) = {}
    BY DEF ToSet
  <2> QED BY <1>10, <1>11, <2>1 DEF Searching
<1>13. d.delta \in Seq(ToSet(g))
  <2> QED BY <1>11, <1>12, SeqOfItsSet
<1>14. Reverse(d.delta) \in Seq(ToSet(g)) /\ ToSet(Reverse(d.delta)) = ToSet(d.delta)
  BY <1>13, ReverseSet
<1> QED BY <1>9, <1>12, <1>14 DEF Met

\* A delta has all that the remote lacks: what it lacks it has no child of, so the
\* search does not stop above it.
LEMMA DeltaComplete ==
  ASSUME EventList(events), NEW g, Causal(events, g), NEW h, Causal(events, h),
         NEW r \in SUBSET ToSet(h)
  PROVE  /\ computeDelta(g, r) \in Seq(DOMAIN events)
         /\ ToSet(g) \ ToSet(h) \subseteq ToSet(computeDelta(g, r))
<1> DEFINE d == ToSet(computeDelta(g, r))
           X == (ToSet(g) \ ToSet(h)) \ d
<1>1. computeDelta(g, r) \in Seq(ToSet(g)) /\ ToSet(g) \in SUBSET DOMAIN events /\ DOMAIN events = 1 .. Len(events)
      /\ Len(events) \in Nat
  BY SearchEnds, CausalTyped DEF EventList
<1>2. computeDelta(g, r) \in Seq(DOMAIN events)
  BY <1>1
<1>3. ASSUME X # {} PROVE FALSE
  <2>1. PICK x \in X : \A y \in X : x >= y
    <3>1. X \in SUBSET (1 .. Len(events))
      BY <1>1
    <3>2. Max(X) \in X /\ \A y \in X : Max(X) >= y
      <4> HIDE DEF X
      <4> QED BY <1>1, <1>3, <3>1, MaxIsLargest
    <3> QED BY <3>2
  <2>2. x \in ToSet(g) /\ x \notin ToSet(h) /\ x \notin d
    OBVIOUS
  <2>3. x \notin r
    BY <2>2
  <2>4. x \notin ToSet(Frontier(g)) /\ \A c \in d : x \notin ToSet(ParentsOf(c))
    BY <2>2, <2>3, SearchEnds
  <2>5. PICK c \in ToSet(g) : x \in ToSet(ParentsOf(c))
    BY <2>2, <2>4, FrontierSet
  <2>6. x < c /\ x \in Nat /\ c \in Nat
    <3>1. c \in DOMAIN events /\ ParentsOf(c) = events[c].parents
      BY <1>1 DEF ParentsOf
    <3>2. x \in 1 .. c - 1
      BY <2>5, <3>1 DEF EventList
    <3> QED BY <1>1, <3>1, <3>2
  <2>7. c \notin ToSet(h)
    <3>1. SUFFICES ASSUME c \in ToSet(h) PROVE FALSE
      OBVIOUS
    <3>2. x \in ToSet(h)
      BY <2>5, <3>1, ParentsInside
    <3> QED BY <2>2, <3>2
  <2>8. c \notin d
    BY <2>4, <2>5
  <2>9. c \in X
    BY <2>7, <2>8
  <2>10. x >= c
    BY <2>1, <2>9
  <2> QED BY <2>6, <2>10
<1> QED BY <1>2, <1>3

-----------------------------------------------------------------------------
\* The steps that add to logs and graphs.

\* The empty list is causal.
LEMMA NoneCausal == ASSUME NEW E, EventList(E) PROVE Causal(E, <<>>)
<1>1. <<>> \in Seq(DOMAIN E) /\ DOMAIN <<>> = {}
  OBVIOUS
<1> QED BY <1>1 DEF Causal

\* A new event leaves the others as they were,
LEMMA EventsGrow ==
  ASSUME NEW E, EventList(E), NEW r \in [parents : Seq(Nat), node : Node],
         ToSet(r.parents) \subseteq DOMAIN E, NEW F, F = Append(E, r)
  PROVE  /\ EventList(F) /\ DOMAIN E = 1 .. Len(E) /\ Len(E) \in Nat
         /\ DOMAIN F = 1 .. Len(E) + 1 /\ \A e \in DOMAIN E : F[e] = E[e]
         /\ F[Len(E) + 1] = r
<1>1. E \in Seq([parents : Seq(Nat), node : Node])
  BY DEF EventList
<1>2. /\ F \in Seq([parents : Seq(Nat), node : Node]) /\ DOMAIN E = 1 .. Len(E) /\ Len(E) \in Nat
      /\ DOMAIN F = 1 .. Len(E) + 1 /\ \A e \in DOMAIN E : F[e] = E[e]
      /\ F[Len(E) + 1] = r
  BY <1>1
<1>3. ASSUME NEW e \in DOMAIN F PROVE ToSet(F[e].parents) \subseteq 1 .. e - 1
  <2>1. CASE e \in DOMAIN E
    BY <1>2, <2>1 DEF EventList
  <2>2. CASE e = Len(E) + 1
    <3>1. F[e] = r /\ e - 1 = Len(E)
      BY <1>2, <2>2
    <3> QED BY <1>2, <3>1
  <2> QED BY <1>2, <2>1, <2>2
<1> QED BY <1>2, <1>3 DEF EventList

\* and causal lists causal.
LEMMA CausalGrows ==
  ASSUME NEW E, NEW F, DOMAIN E \subseteq DOMAIN F, \A e \in DOMAIN E : F[e] = E[e],
         DOMAIN E = 1 .. Len(E), Len(E) \in Nat
  PROVE  /\ \A g : Causal(E, g) => Causal(F, g)
         /\ \A b : b \in Seq(DOMAIN E) => b \in Seq(DOMAIN F)
<1>1. \A b : b \in Seq(DOMAIN E) => b \in Seq(DOMAIN F)
  OBVIOUS
<1>2. ASSUME NEW g, Causal(E, g) PROVE Causal(F, g)
  <2>1. g \in Seq(DOMAIN E) /\ \A i \in DOMAIN g : g[i] \in DOMAIN E
    BY <1>2 DEF Causal
  <2>2. \A i \in DOMAIN g : F[g[i]] = E[g[i]]
    BY <2>1
  <2> QED BY <1>1, <1>2, <2>1, <2>2 DEF Causal
<1> QED BY <1>1, <1>2

\* A list stays causal when an event comes after its parents; and the last one came so.
LEMMA CausalAppend ==
  ASSUME NEW E, EventList(E), NEW g, Causal(E, g), NEW e \in DOMAIN E, e \notin ToSet(g),
         ToSet(E[e].parents) \subseteq ToSet(g)
  PROVE  Causal(E, Append(g, e))
<1> DEFINE t == Append(g, e)
           n == Len(g)
<1>1. g \in Seq(DOMAIN E)
  BY DEF Causal
<1>2. /\ t \in Seq(DOMAIN E) /\ n \in Nat /\ DOMAIN g = 1 .. n /\ DOMAIN t = 1 .. n + 1
      /\ t[n + 1] = e /\ \A i \in 1 .. n : t[i] = g[i]
  BY <1>1
<1> HIDE DEF t, n
<1>3. \A i \in 1 .. n : g[i] # e
  BY <1>2 DEF ToSet
<1>4. \A i, j \in DOMAIN t : i < j => t[i] # t[j]
  <2> TAKE i, j \in DOMAIN t
  <2> HAVE i < j
  <2>1. i \in 1 .. n /\ (j \in 1 .. n \/ j = n + 1)
    BY <1>2
  <2> QED BY <1>2, <1>3, <2>1 DEF Causal
<1>5. \A i \in DOMAIN t : ToSet(E[t[i]].parents) \subseteq {t[j] : j \in 1 .. i - 1}
  <2> TAKE i \in DOMAIN t
  <2>1. CASE i \in 1 .. n
    <3>1. \A j \in 1 .. i - 1 : t[j] = g[j]
      BY <1>2, <2>1
    <3>2. {t[j] : j \in 1 .. i - 1} = {g[j] : j \in 1 .. i - 1}
      BY <3>1
    <3> QED BY <1>2, <2>1, <3>2 DEF Causal
  <2>2. CASE i = n + 1
    <3>1. ToSet(g) = {t[j] : j \in 1 .. n}
      BY <1>2 DEF ToSet
    <3>2. i - 1 = n /\ t[i] = e
      BY <1>2, <2>2
    <3> QED BY <3>1, <3>2
  <2> QED BY <1>2, <2>1, <2>2
<1>6. Causal(E, t)
  BY <1>2, <1>4, <1>5 DEF Causal
<1> QED BY <1>6 DEF t

LEMMA CausalLast ==
  ASSUME NEW E, NEW g \in Seq(DOMAIN E), NEW e \in DOMAIN E, Causal(E, Append(g, e))
  PROVE  e \notin ToSet(g) /\ ToSet(E[e].parents) \subseteq ToSet(g)
<1> DEFINE t == Append(g, e)
           n == Len(g)
<1>1. /\ n \in Nat /\ DOMAIN g = 1 .. n /\ DOMAIN t = 1 .. n + 1
      /\ t[n + 1] = e /\ \A i \in 1 .. n : t[i] = g[i]
  OBVIOUS
<1>2. Causal(E, t)
  OBVIOUS
<1> HIDE DEF t, n
<1>3. \A i \in 1 .. n : g[i] # e
  <2> TAKE i \in 1 .. n
  <2>1. i \in DOMAIN t /\ n + 1 \in DOMAIN t /\ i < n + 1
    BY <1>1
  <2> QED BY <1>1, <1>2, <2>1 DEF Causal
<1>4. ToSet(E[e].parents) \subseteq {t[j] : j \in 1 .. n}
  <2>1. n + 1 \in DOMAIN t /\ (n + 1) - 1 = n
    BY <1>1
  <2> QED BY <1>1, <1>2, <2>1 DEF Causal
<1>5. {t[j] : j \in 1 .. n} = ToSet(g)
  BY <1>1 DEF ToSet
<1> QED BY <1>1, <1>3, <1>4, <1>5 DEF ToSet

\* A new event's parents are in its node's graph.
LEMMA ParentsKnown ==
  ASSUME GenesisInv, NEW n \in Node, NEW p \in ParentLists(n)
  PROVE  p \in Seq(Nat) /\ ToSet(p) \subseteq ToSet(graph[n])
<1>1. graph[n] \in Seq(Nat) /\ DOMAIN graph[n] = 1 .. Len(graph[n])
  BY DEF GenesisInv, GraphsTyped
<1>2. CASE p = <<>>
  BY <1>2 DEF ToSet
<1>3. CASE \E e \in ToSet(graph[n]) : p = <<e>>
  <2>1. PICK e \in ToSet(graph[n]) : p = <<e>>
    BY <1>3
  <2>2. e \in Nat
    BY <1>1 DEF ToSet
  <2>3. DOMAIN p = {1} /\ p[1] = e
    BY <2>1
  <2>4. ToSet(p) = {e}
    BY <2>3 DEF ToSet
  <2> QED BY <2>1, <2>2, <2>4
<1>4. CASE \E P \in kSubset(2, ToSet(graph[n])) : p = Keep(graph[n], P)
  BY <1>1, <1>4, KeepSet
<1> QED BY <1>2, <1>3, <1>4 DEF ParentLists

\* The invariant holds at first.
LEMMA GenesisStart == Init => GenesisInv
<1> SUFFICES ASSUME Init PROVE GenesisInv
  OBVIOUS
<1> USE DEF Init
<1>1. EventList(events)
  BY DEF EventList
<1>2. GraphsTyped
  BY <1>1 DEF GraphsTyped
<1>3. LogInv
  BY <1>1, NoneCausal DEF LogInv, Logs
<1> QED BY <1>2, <1>3 DEF GenesisInv

\* A node is as it was when others make events.
LEMMA LogsGrow ==
  ASSUME NEW E, NEW F, DOMAIN E \subseteq DOMAIN F, \A e \in DOMAIN E : F[e] = E[e],
         DOMAIN E = 1 .. Len(E), Len(E) \in Nat,
         NEW l, NEW g, NEW b, NEW a, NEW u, Logs(E, l, g, b, a, u)
  PROVE  Logs(F, l, g, b, a, u)
<1>1. Causal(F, l) /\ Causal(F, g) /\ b \in Seq(DOMAIN F)
  BY CausalGrows DEF Logs
<1> QED BY <1>1 DEF Logs

\* Create keeps the invariant, and the events there were.
LEMMA CreateKeeps ==
  ASSUME GenesisInv, NEW n \in Node, NEW p \in ParentLists(n), Create(n, p)
  PROVE  /\ GenesisInv'
         /\ DOMAIN events' = DOMAIN events \cup {Len(events) + 1} /\ DOMAIN events \subseteq Nat
         /\ \A e \in DOMAIN events : events'[e] = events[e]
<1> DEFINE k == Len(events) + 1
           r == [parents |-> p, node |-> n]
<1>1. /\ EventList(events) /\ up[n] /\ inbox[n] = <<>> /\ adding[n] = None
      /\ Logs(events, log[n], graph[n], inbox[n], adding[n], up[n])
      /\ events' = Append(events, r) /\ None \notin Nat
      /\ log' = [log EXCEPT ![n] = Append(log[n], k)] /\ adding' = [adding EXCEPT ![n] = k]
      /\ behind' = [behind EXCEPT ![n] = {}]
      /\ UNCHANGED <<graph, inbox, up, snapshot>>
  BY GenesisAssumption DEF GenesisInv, GraphsTyped, LogInv, Create, Idle, Logged
<1>2. /\ graph[n] = log[n] /\ Causal(events, graph[n])
  BY <1>1 DEF Logs
<1>3. ToSet(graph[n]) \subseteq DOMAIN events
  BY <1>1, <1>2, CausalTyped
<1>4. p \in Seq(Nat) /\ ToSet(p) \subseteq ToSet(graph[n])
  BY ParentsKnown
<1>5. /\ EventList(events') /\ DOMAIN events = 1 .. Len(events) /\ Len(events) \in Nat
      /\ DOMAIN events' = 1 .. Len(events) + 1 /\ \A e \in DOMAIN events : events'[e] = events[e]
      /\ events'[Len(events) + 1] = r
  <2>1. ToSet(p) \subseteq DOMAIN events
    BY <1>3, <1>4
  <2>2. r \in [parents : Seq(Nat), node : Node] /\ r.parents = p
    BY <1>4
  <2> HIDE DEF r
  <2>3. ToSet(r.parents) \subseteq DOMAIN events
    BY <2>1, <2>2
  <2>4. EventList(events) /\ events' = Append(events, r)
    BY <1>1
  <2>5. \A F : F = Append(events, r) =>
          /\ EventList(F) /\ DOMAIN events = 1 .. Len(events) /\ Len(events) \in Nat
          /\ DOMAIN F = 1 .. Len(events) + 1 /\ \A e \in DOMAIN events : F[e] = events[e]
          /\ F[Len(events) + 1] = r
    BY <2>2, <2>3, <2>4, EventsGrow
  <2> QED BY <2>4, <2>5
<1>6. DOMAIN events' = DOMAIN events \cup {k} /\ k \in Nat /\ k \notin DOMAIN events
  BY <1>5
<1>7. Causal(events', graph[n])
  BY <1>2, <1>5, <1>6, CausalGrows
<1>8. Causal(events', Append(graph[n], k))
  <2>1. k \in DOMAIN events' /\ k \notin ToSet(graph[n]) /\ events'[k].parents = p
    BY <1>3, <1>5, <1>6
  <2> HIDE DEF k
  <2> QED BY <1>4, <1>5, <1>7, <2>1, CausalAppend
<1> HIDE DEF k, r
<1>9. log[n] \in Seq(Nat) /\ Append(log[n], k) \in Seq(Nat)
  BY <1>6 DEF GenesisInv, GraphsTyped
<1>10. GraphsTyped'
  BY <1>1, <1>5, <1>6, <1>9 DEF GenesisInv, GraphsTyped
<1>11. LogInv'
  <2> SUFFICES ASSUME NEW m \in Node
               PROVE  Logs(events', log'[m], graph'[m], inbox'[m], adding'[m], up'[m])
    BY DEF LogInv
  <2>1. CASE m # n
    <3>1. log'[m] = log[m] /\ graph'[m] = graph[m] /\ inbox'[m] = inbox[m] /\ adding'[m] = adding[m] /\ up'[m] = up[m]
      BY <1>1, <2>1 DEF GenesisInv, GraphsTyped
    <3>2. Logs(events, log[m], graph[m], inbox[m], adding[m], up[m])
      BY DEF GenesisInv, LogInv
    <3> QED BY <1>5, <1>6, <3>1, <3>2, LogsGrow
  <2>2. CASE m = n
    <3>1. log'[n] = Append(graph[n], k) /\ graph'[n] = graph[n] /\ inbox'[n] = <<>> /\ adding'[n] = k /\ up'[n]
      BY <1>1, <1>2 DEF GenesisInv, GraphsTyped
    <3>2. k # None /\ k \in DOMAIN events' /\ <<>> \in Seq(DOMAIN events')
      BY <1>1, <1>6
    <3> QED BY <1>7, <1>8, <2>2, <3>1, <3>2 DEF Logs
  <2> QED BY <2>1, <2>2
<1>12. DOMAIN events \subseteq Nat
  BY <1>5
<1> QED BY <1>5, <1>6, <1>10, <1>11, <1>12 DEF GenesisInv, k

\* A step that leaves the events and all nodes but one alone.
NodeBecomes(n, l, g, b, a, u, d) ==
  /\ events' = events
  /\ log' = [log EXCEPT ![n] = l] /\ graph' = [graph EXCEPT ![n] = g]
  /\ inbox' = [inbox EXCEPT ![n] = b] /\ adding' = [adding EXCEPT ![n] = a]
  /\ up' = [up EXCEPT ![n] = u] /\ behind' = [behind EXCEPT ![n] = d]

\* So the invariant holds after it if that one node is right.
LEMMA OneNodeKeeps ==
  ASSUME GenesisInv, NEW n \in Node,
         NEW l \in Seq(Nat), NEW g \in Seq(Nat), NEW b \in Seq(Nat),
         NEW a \in Nat \cup {None}, NEW u \in BOOLEAN, NEW d \in SUBSET Nat,
         NodeBecomes(n, l, g, b, a, u, d), Logs(events, l, g, b, a, u)
  PROVE  GenesisInv'
<1>1. GraphsTyped'
  BY DEF GenesisInv, GraphsTyped, NodeBecomes
<1>2. LogInv'
  <2> SUFFICES ASSUME NEW m \in Node
               PROVE  Logs(events', log'[m], graph'[m], inbox'[m], adding'[m], up'[m])
    BY DEF LogInv
  <2>1. CASE m # n
    <3>1. log'[m] = log[m] /\ graph'[m] = graph[m] /\ inbox'[m] = inbox[m] /\ adding'[m] = adding[m] /\ up'[m] = up[m]
      BY <2>1 DEF GenesisInv, GraphsTyped, NodeBecomes
    <3>2. Logs(events, log[m], graph[m], inbox[m], adding[m], up[m])
      BY DEF GenesisInv, LogInv
    <3> QED BY <3>1, <3>2 DEF NodeBecomes
  <2>2. CASE m = n
    <3>1. log'[n] = l /\ graph'[n] = g /\ inbox'[n] = b /\ adding'[n] = a /\ up'[n] = u
      BY DEF GenesisInv, GraphsTyped, NodeBecomes
    <3> QED BY <2>2, <3>1 DEF NodeBecomes
  <2> QED BY <2>1, <2>2
<1> QED BY <1>1, <1>2 DEF GenesisInv

\* What is known of a node at any moment.
LEMMA NodeFacts ==
  ASSUME GenesisInv, NEW n \in Node
  PROVE  /\ EventList(events) /\ Logs(events, log[n], graph[n], inbox[n], adding[n], up[n])
         /\ log[n] \in Seq(Nat) /\ graph[n] \in Seq(Nat) /\ inbox[n] \in Seq(Nat)
         /\ adding[n] \in Nat \cup {None} /\ up[n] \in BOOLEAN /\ behind[n] \in SUBSET Nat
         /\ log = [log EXCEPT ![n] = log[n]] /\ graph = [graph EXCEPT ![n] = graph[n]]
         /\ inbox = [inbox EXCEPT ![n] = inbox[n]] /\ adding = [adding EXCEPT ![n] = adding[n]]
         /\ up = [up EXCEPT ![n] = up[n]] /\ behind = [behind EXCEPT ![n] = behind[n]]
         /\ Causal(events, log[n]) /\ Causal(events, graph[n])
         /\ DOMAIN events = 1 .. Len(events) /\ Len(events) \in Nat
         /\ ToSet(graph[n]) \in SUBSET DOMAIN events /\ None \notin Nat
<1>1. EventList(events) /\ Logs(events, log[n], graph[n], inbox[n], adding[n], up[n])
  BY DEF GenesisInv, GraphsTyped, LogInv
<1>2. Causal(events, log[n]) /\ Causal(events, graph[n])
  BY <1>1 DEF Logs
<1>3. ToSet(graph[n]) \in SUBSET DOMAIN events
  BY <1>1, <1>2, CausalTyped
<1>4. DOMAIN events = 1 .. Len(events) /\ Len(events) \in Nat
  BY <1>1 DEF EventList
<1>5. /\ log[n] \in Seq(Nat) /\ graph[n] \in Seq(Nat) /\ inbox[n] \in Seq(Nat)
      /\ adding[n] \in Nat \cup {None} /\ up[n] \in BOOLEAN /\ behind[n] \in SUBSET Nat
  BY DEF GenesisInv, GraphsTyped
<1>6. /\ log = [log EXCEPT ![n] = log[n]] /\ graph = [graph EXCEPT ![n] = graph[n]]
      /\ inbox = [inbox EXCEPT ![n] = inbox[n]] /\ adding = [adding EXCEPT ![n] = adding[n]]
      /\ up = [up EXCEPT ![n] = up[n]] /\ behind = [behind EXCEPT ![n] = behind[n]]
  BY DEF GenesisInv, GraphsTyped
<1> QED BY <1>1, <1>2, <1>3, <1>4, <1>5, <1>6, GenesisAssumption

\* The delta of a reconciliation names all that the receiver lacks.
LEMMA ReconcileKeeps ==
  ASSUME GenesisInv, NEW n \in Node, NEW m \in Node, Reconcile(n, m)
  PROVE  /\ GenesisInv' /\ ToSet(graph[n]) \ ToSet(graph[m]) \subseteq ToSet(inbox'[m])
         /\ behind'[m] = ToSet(graph[n]) \ ToSet(graph[m])
<1> DEFINE r == ToSet(Frontier(graph[m]))
           d == computeDelta(graph[n], r)
           w == ToSet(graph[n]) \ ToSet(graph[m])
<1>1. Causal(events, graph[n]) /\ Causal(events, graph[m]) /\ EventList(events) /\ DOMAIN events \subseteq Nat
  BY NodeFacts
<1>2. r \in SUBSET ToSet(graph[m])
  BY <1>1, FrontierSet
<1>3. d \in Seq(DOMAIN events) /\ w \subseteq ToSet(d)
  <2> HIDE DEF r
  <2> QED BY <1>1, <1>2, DeltaComplete
<1>4. d \in Seq(Nat) /\ w \in SUBSET Nat
  <2> HIDE DEF d
  <2>1. ToSet(graph[n]) \in SUBSET DOMAIN events
    BY NodeFacts
  <2> QED BY <1>1, <1>3, <2>1
<1>5. /\ inbox' = [inbox EXCEPT ![m] = d] /\ behind' = [behind EXCEPT ![m] = w]
      /\ up[m] /\ adding[m] = None
      /\ UNCHANGED <<events, log, graph, adding, up, snapshot>>
  BY DEF Reconcile, Idle
<1> HIDE DEF r, d, w
<1>6. Logs(events, log[m], graph[m], d, adding[m], up[m])
  <2>1. Logs(events, log[m], graph[m], inbox[m], adding[m], up[m])
    BY NodeFacts
  <2> QED BY <1>3, <1>5, <2>1 DEF Logs
<1>7. GenesisInv'
  <2>1. /\ log[m] \in Seq(Nat) /\ log' = [log EXCEPT ![m] = log[m]]
        /\ graph[m] \in Seq(Nat) /\ graph' = [graph EXCEPT ![m] = graph[m]]
        /\ adding[m] \in Nat \cup {None} /\ adding' = [adding EXCEPT ![m] = adding[m]]
        /\ up[m] \in BOOLEAN /\ up' = [up EXCEPT ![m] = up[m]]
    BY <1>5, NodeFacts
  <2>2. events' = events /\ inbox' = [inbox EXCEPT ![m] = d] /\ behind' = [behind EXCEPT ![m] = w]
    BY <1>5
  <2>3. NodeBecomes(m, log[m], graph[m], d, adding[m], up[m], w)
    BY <2>1, <2>2 DEF NodeBecomes
  <2> QED BY <1>4, <1>6, <2>1, <2>3, OneNodeKeeps
<1>8. inbox'[m] = d /\ behind'[m] = w
  BY <1>5 DEF GenesisInv, GraphsTyped
<1> QED BY <1>3, <1>7, <1>8 DEF w

\* Types of what is taken from the inbox.
LEMMA HeadTyped ==
  ASSUME NEW S, NEW q \in Seq(S), q # <<>>
  PROVE  Head(q) \in S /\ Tail(q) \in Seq(S)
OBVIOUS

\* What is received and accepted can be added next.
LEMMA ReceiveKeeps ==
  ASSUME GenesisInv, NEW n \in Node, Receive(n)
  PROVE  GenesisInv'
<1> DEFINE e == Head(inbox[n])
           rest == Tail(inbox[n])
<1>1. /\ up[n] /\ inbox[n] # <<>> /\ adding[n] = None /\ inbox' = [inbox EXCEPT ![n] = rest]
      /\ UNCHANGED <<events, graph, up, snapshot, behind>>
      /\ \/ /\ Acceptable(n, e)
            /\ log' = [log EXCEPT ![n] = Append(log[n], e)] /\ adding' = [adding EXCEPT ![n] = e]
         \/ UNCHANGED <<log, adding>>
  BY DEF Receive, Logged, GenesisInv, GraphsTyped
<1>2. Logs(events, log[n], graph[n], inbox[n], None, TRUE)
  BY <1>1, NodeFacts
<1>3. graph[n] = log[n] /\ Causal(events, graph[n]) /\ inbox[n] \in Seq(DOMAIN events)
  BY <1>2 DEF Logs
<1>4. e \in DOMAIN events /\ rest \in Seq(DOMAIN events) /\ DOMAIN events \subseteq Nat
  <2>1. DOMAIN events \subseteq Nat
    BY NodeFacts
  <2> QED BY <1>1, <1>3, <2>1, HeadTyped
<1> HIDE DEF e, rest
<1>5. rest \in Seq(Nat) /\ e \in Nat
  BY <1>4
<1>6. CASE UNCHANGED <<log, adding>>
  <2>1. Logs(events, log[n], graph[n], rest, None, TRUE)
    BY <1>2, <1>4 DEF Logs
  <2>2. NodeBecomes(n, log[n], graph[n], rest, None, TRUE, behind[n])
    BY <1>1, <1>6, NodeFacts DEF NodeBecomes
  <2> QED BY <1>5, <2>1, <2>2, NodeFacts, OneNodeKeeps
<1>7. CASE /\ Acceptable(n, e)
           /\ log' = [log EXCEPT ![n] = Append(log[n], e)] /\ adding' = [adding EXCEPT ![n] = e]
  <2>1. e \notin ToSet(graph[n]) /\ ToSet(events[e].parents) \subseteq ToSet(graph[n])
    <3>1. graph[n] \in Seq(Nat)
      BY NodeFacts
    <3> QED BY <1>7, <3>1, ContainsSet DEF Acceptable, Has, validate, ParentsOf
  <2>2. Causal(events, Append(graph[n], e))
    BY <1>3, <1>4, <2>1, NodeFacts, CausalAppend
  <2>3. Logs(events, Append(log[n], e), graph[n], rest, e, TRUE)
    BY <1>3, <1>4, <1>5, <2>2, NodeFacts DEF Logs
  <2>4. Append(log[n], e) \in Seq(Nat)
    BY <1>5, NodeFacts
  <2>5. NodeBecomes(n, Append(log[n], e), graph[n], rest, e, TRUE, behind[n])
    BY <1>1, <1>7, NodeFacts DEF NodeBecomes
  <2> QED BY <1>5, <2>3, <2>4, <2>5, NodeFacts, OneNodeKeeps
<1> QED BY <1>1, <1>6, <1>7

\* What was logged is added: its parents are there.
LEMMA AddKeeps ==
  ASSUME GenesisInv, NEW n \in Node, AddToGraph(n)
  PROVE  GenesisInv' /\ graph'[n] = Append(graph[n], adding[n])
<1> DEFINE e == adding[n]
           g == graph[n]
<1>1. /\ e # None /\ graph' = [graph EXCEPT ![n] = add(g, e)] /\ adding' = [adding EXCEPT ![n] = None]
      /\ UNCHANGED <<events, log, inbox, up, snapshot, behind>>
  BY DEF AddToGraph, GenesisInv, GraphsTyped
<1>2. /\ Causal(events, log[n]) /\ Causal(events, g) /\ inbox[n] \in Seq(DOMAIN events)
      /\ up[n] /\ e \in DOMAIN events /\ log[n] = Append(g, e)
  BY <1>1, NodeFacts DEF Logs
<1>3. g \in Seq(Nat) /\ log[n] \in Seq(Nat) /\ g \in Seq(DOMAIN events)
  BY <1>2, NodeFacts DEF Causal
<1> HIDE DEF e, g
<1>4. e \notin ToSet(g) /\ ToSet(events[e].parents) \subseteq ToSet(g)
  BY <1>2, <1>3, CausalLast
<1>5. add(g, e) = Append(g, e)
  BY <1>3, <1>4, ContainsSet DEF add, validate, ParentsOf
<1>6. Logs(events, log[n], Append(g, e), inbox[n], None, TRUE)
  BY <1>2, GenesisAssumption DEF Logs
<1>7. /\ log' = [log EXCEPT ![n] = log[n]] /\ graph' = [graph EXCEPT ![n] = Append(g, e)]
      /\ inbox[n] \in Seq(Nat) /\ inbox' = [inbox EXCEPT ![n] = inbox[n]]
      /\ up' = [up EXCEPT ![n] = TRUE] /\ behind[n] \in SUBSET Nat /\ behind' = [behind EXCEPT ![n] = behind[n]]
  BY <1>1, <1>2, <1>5, NodeFacts
<1>8. events' = events /\ adding' = [adding EXCEPT ![n] = None] /\ Append(g, e) \in Seq(Nat)
  BY <1>1, <1>2, <1>3
<1>9. GenesisInv'
  <2>1. NodeBecomes(n, log[n], Append(g, e), inbox[n], None, TRUE, behind[n])
    BY <1>7, <1>8 DEF NodeBecomes
  <2> QED BY <1>3, <1>6, <1>7, <1>8, <2>1, OneNodeKeeps
<1>10. graph'[n] = Append(g, e)
  BY <1>7 DEF GenesisInv, GraphsTyped
<1> QED BY <1>9, <1>10 DEF e, g

\* A crash leaves nothing.
LEMMA CrashKeeps ==
  ASSUME GenesisInv, NEW n \in Node, Crash(n)
  PROVE  GenesisInv'
<1>1. /\ up' = [up EXCEPT ![n] = FALSE] /\ graph' = [graph EXCEPT ![n] = <<>>]
      /\ inbox' = [inbox EXCEPT ![n] = <<>>] /\ adding' = [adding EXCEPT ![n] = None]
      /\ behind' = [behind EXCEPT ![n] = {}] /\ events' = events
      /\ log' = [log EXCEPT ![n] = <<>>]
  BY DEF Crash
<1>3. Logs(events, <<>>, <<>>, <<>>, None, FALSE)
  <2>1. <<>> \in Seq(DOMAIN events) /\ EventList(events)
    BY NodeFacts
  <2> QED BY <2>1, NoneCausal DEF Logs
<1>4. <<>> \in Seq(Nat) /\ {} \in SUBSET Nat /\ None \in Nat \cup {None} /\ FALSE \in BOOLEAN
  OBVIOUS
<1>5. NodeBecomes(n, <<>>, <<>>, <<>>, None, FALSE, {})
  BY <1>1 DEF NodeBecomes
<1> QED BY <1>3, <1>4, <1>5, OneNodeKeeps

\* Recovery makes the graph the log.
LEMMA RecoverKeeps ==
  ASSUME GenesisInv, NEW n \in Node, Recover(n)
  PROVE  GenesisInv' /\ (up[n] => graph'[n] = graph[n])
<1>1. /\ inbox[n] = <<>> /\ adding[n] = None
      /\ up' = [up EXCEPT ![n] = TRUE] /\ graph' = [graph EXCEPT ![n] = recover(log[n])]
      /\ UNCHANGED <<events, log, inbox, adding, snapshot, behind>>
  BY DEF Recover
<1>2. EventList(events) /\ Logs(events, log[n], graph[n], inbox[n], adding[n], up[n]) /\ log[n] \in Seq(Nat)
  BY NodeFacts
<1>3. recover(log[n]) = log[n]
  <2>1. Causal(events, log[n])
    BY <1>2 DEF Logs
  <2> QED BY <1>2, <2>1, RecoverAll
<1>4. Logs(events, log[n], log[n], inbox[n], None, TRUE) /\ (up[n] => graph[n] = log[n])
  BY <1>1, <1>2 DEF Logs
<1>5. /\ log' = [log EXCEPT ![n] = log[n]] /\ graph' = [graph EXCEPT ![n] = log[n]]
      /\ inbox[n] \in Seq(Nat) /\ inbox' = [inbox EXCEPT ![n] = inbox[n]]
      /\ adding' = [adding EXCEPT ![n] = None]
      /\ behind[n] \in SUBSET Nat /\ behind' = [behind EXCEPT ![n] = behind[n]]
  BY <1>1, <1>3, <1>4, NodeFacts
<1>6. events' = events /\ up' = [up EXCEPT ![n] = TRUE] /\ None \in Nat \cup {None} /\ TRUE \in BOOLEAN
  BY <1>1
<1>7. GenesisInv'
  <2>1. NodeBecomes(n, log[n], log[n], inbox[n], None, TRUE, behind[n])
    BY <1>5, <1>6 DEF NodeBecomes
  <2> QED BY <1>2, <1>4, <1>5, <1>6, <2>1, OneNodeKeeps
<1>8. graph'[n] = log[n]
  BY <1>5 DEF GenesisInv, GraphsTyped
<1> QED BY <1>4, <1>7, <1>8

\* Every step keeps the invariant.
LEMMA GenesisStep == GenesisInv /\ [Next]_vars => GenesisInv'
<1> SUFFICES ASSUME GenesisInv, [Next]_vars PROVE GenesisInv'
  OBVIOUS
<1>1. CASE UNCHANGED vars
  BY <1>1 DEF vars, GenesisInv, GraphsTyped, LogInv
<1>2. ASSUME NEW n \in Node, NEW p \in ParentLists(n), Create(n, p) PROVE GenesisInv'
  BY <1>2, CreateKeeps
<1>3. ASSUME NEW n \in Node, NEW m \in Node, Reconcile(n, m) PROVE GenesisInv'
  BY <1>3, ReconcileKeeps
<1>4. ASSUME NEW n \in Node, Receive(n) PROVE GenesisInv'
  BY <1>4, ReceiveKeeps
<1>5. ASSUME NEW n \in Node, AddToGraph(n) PROVE GenesisInv'
  BY <1>5, AddKeeps
<1>6. ASSUME NEW n \in Node, Crash(n) PROVE GenesisInv'
  BY <1>6, CrashKeeps
<1>7. ASSUME NEW n \in Node, Recover(n) PROVE GenesisInv'
  BY <1>7, RecoverKeeps
<1>8. ASSUME NEW n \in Node, TakeSnapshot(n) PROVE GenesisInv'
  BY <1>8 DEF TakeSnapshot, GenesisInv, GraphsTyped, LogInv
<1> QED BY <1>1, <1>2, <1>3, <1>4, <1>5, <1>6, <1>7, <1>8 DEF Next

\* In every behaviour each node's log is its graph followed by the event on its
\* way there, both list parents before children, and nothing twice.
THEOREM GraphInvariant == Spec => []GenesisInv
BY GenesisStart, GenesisStep, PTL DEF Spec

\* While a node runs, its log rebuilds its graph and no more than the event being
\* added: recovery ignores nothing, since the log has parents before children.
THEOREM LogIsEnough == Spec => []LogRebuildsGraph
<1>1. GenesisInv => LogRebuildsGraph
  <2> SUFFICES ASSUME GenesisInv, NEW n \in Node
               PROVE  /\ ToSet(graph[n]) \subseteq ToSet(recover(log[n]))
                      /\ ToSet(recover(log[n])) \subseteq ToSet(graph[n]) \cup {adding[n]}
    BY DEF LogRebuildsGraph
  <2>1. /\ EventList(events) /\ Logs(events, log[n], graph[n], inbox[n], adding[n], up[n])
        /\ Causal(events, log[n]) /\ graph[n] \in Seq(Nat) /\ DOMAIN events \in SUBSET Nat
    BY NodeFacts
  <2>2. recover(log[n]) = log[n]
    BY <2>1, RecoverAll
  <2>3. CASE graph[n] = log[n]
    BY <2>2, <2>3
  <2>4. CASE adding[n] # None
    <3>1. adding[n] \in Nat /\ log[n] = Append(graph[n], adding[n])
      BY <2>1, <2>4 DEF Logs
    <3>2. ToSet(log[n]) = ToSet(graph[n]) \cup {adding[n]}
      BY <2>1, <3>1, AppendSet
    <3> QED BY <2>2, <3>2
  <2> QED BY <2>1, <2>3, <2>4 DEF Logs
<1> QED BY <1>1, GraphInvariant, PTL

-----------------------------------------------------------------------------
\* Every round advances.

\* What a node expects does not depend on later events.
LEMMA ExpectedStays ==
  ASSUME NEW E, NEW F, DOMAIN E \subseteq DOMAIN F, \A e \in DOMAIN E : F[e] = E[e],
         NEW w, NEW g, NEW b, NEW a, Expected(E, w, g, b, a)
  PROVE  Expected(F, w, g, b, a)
BY DEF Expected

\* A step that leaves all nodes but one alone.
LEMMA OneNodeRound ==
  ASSUME GenesisInv, RoundInv, NEW n \in Node,
         NEW l, NEW g, NEW b, NEW a, NEW u, NEW d, NodeBecomes(n, l, g, b, a, u, d),
         Expected(events, d, g, b, a), ~u => d = {}
  PROVE  RoundInv'
<1> SUFFICES ASSUME NEW m \in Node
             PROVE  /\ Expected(events', behind'[m], graph'[m], inbox'[m], adding'[m])
                    /\ ~up'[m] => behind'[m] = {}
  BY DEF RoundInv
<1>1. CASE m # n
  <2>1. /\ events' = events /\ behind'[m] = behind[m] /\ graph'[m] = graph[m] /\ inbox'[m] = inbox[m]
        /\ adding'[m] = adding[m] /\ up'[m] = up[m]
    BY <1>1 DEF NodeBecomes, GenesisInv, GraphsTyped
  <2> QED BY <2>1 DEF RoundInv
<1>2. CASE m = n
  <2>1. /\ events' = events /\ behind'[m] = d /\ graph'[m] = g /\ inbox'[m] = b
        /\ adding'[m] = a /\ up'[m] = u
    BY <1>2 DEF NodeBecomes, GenesisInv, GraphsTyped
  <2> QED BY <2>1
<1> QED BY <1>1, <1>2

\* A node that lacks nothing expects nothing.
LEMMA ExpectsNothing == \A E, g, b, a : Expected(E, {}, g, b, a)
BY DEF Expected

\* A node that makes an event waits for nothing; the others wait as before.
LEMMA CreateRound ==
  ASSUME GenesisInv, RoundInv, NEW n \in Node, NEW p \in ParentLists(n), Create(n, p)
  PROVE  RoundInv'
<1>1. DOMAIN events \subseteq DOMAIN events' /\ \A e \in DOMAIN events : events'[e] = events[e]
  BY CreateKeeps
<1>2. /\ graph' = graph /\ inbox' = inbox /\ up' = up /\ up[n] /\ behind' = [behind EXCEPT ![n] = {}]
      /\ \A m \in Node : m # n => adding'[m] = adding[m]
  BY DEF Create, Idle, GenesisInv, GraphsTyped
<1> SUFFICES ASSUME NEW m \in Node
             PROVE  /\ Expected(events', behind'[m], graph'[m], inbox'[m], adding'[m])
                    /\ ~up'[m] => behind'[m] = {}
  BY DEF RoundInv
<1>3. CASE m # n
  <2>1. /\ behind'[m] = behind[m] /\ graph'[m] = graph[m] /\ inbox'[m] = inbox[m]
        /\ adding'[m] = adding[m] /\ up'[m] = up[m]
    BY <1>2, <1>3 DEF GenesisInv, GraphsTyped
  <2>2. Expected(events, behind[m], graph[m], inbox[m], adding[m]) /\ (~up[m] => behind[m] = {})
    BY DEF RoundInv
  <2>3. Expected(events', behind[m], graph[m], inbox[m], adding[m])
    BY <1>1, <2>2, ExpectedStays
  <2> QED BY <2>1, <2>2, <2>3
<1>4. CASE m = n
  <2>1. behind'[m] = {}
    BY <1>2, <1>4 DEF GenesisInv, GraphsTyped
  <2> QED BY <2>1, ExpectsNothing
<1> QED BY <1>3, <1>4

\* The oldest event that the receiver lacks has its parents there.
LEMMA ReconcileRound ==
  ASSUME GenesisInv, RoundInv, NEW n \in Node, NEW m \in Node, Reconcile(n, m)
  PROVE  RoundInv'
<1> DEFINE w == ToSet(graph[n]) \ ToSet(graph[m])
<1>1. w \subseteq ToSet(inbox'[m]) /\ behind'[m] = w /\ GenesisInv'
  BY ReconcileKeeps
<1>2. /\ EventList(events) /\ Causal(events, graph[n]) /\ ToSet(graph[n]) \in SUBSET DOMAIN events
      /\ DOMAIN events = 1 .. Len(events) /\ Len(events) \in Nat
  BY NodeFacts
<1>3. \A e \in ToSet(graph[n]) : ToSet(ParentsOf(e)) \subseteq ToSet(graph[n])
  BY <1>2, ParentsInside
<1>4. \A e \in ToSet(graph[n]) : ToSet(ParentsOf(e)) \subseteq 1 .. e - 1 /\ e \in Nat
  BY <1>2 DEF EventList, ParentsOf
<1>5. CASE w # {}
  <2>1. w \in SUBSET Nat
    BY <1>4
  <2>2. PICK e \in w : \A f \in w : e <= f
    <3> HIDE DEF w
    <3> QED BY <1>5, <2>1, LeastNumber
  <2>3. ToSet(events[e].parents) \subseteq ToSet(graph[m])
    BY <1>3, <1>4, <2>2 DEF ParentsOf
  <2>4. Expected(events, w, graph[m], inbox'[m], adding[m])
    BY <1>1, <1>2, <2>2, <2>3 DEF Expected
  <2>5. NodeBecomes(m, log[m], graph[m], inbox'[m], adding[m], up[m], w) /\ up[m]
    <3>1. /\ events' = events /\ log' = log /\ graph' = graph /\ adding' = adding /\ up' = up /\ up[m]
          /\ behind' = [behind EXCEPT ![m] = w]
      BY DEF Reconcile, Idle
    <3>2. inbox' = [inbox EXCEPT ![m] = inbox'[m]]
      BY DEF Reconcile, GenesisInv, GraphsTyped
    <3> QED BY <3>1, <3>2, NodeFacts DEF NodeBecomes
  <2> HIDE DEF w
  <2> QED BY <2>4, <2>5, OneNodeRound
<1>6. CASE w = {}
  <2>5. NodeBecomes(m, log[m], graph[m], inbox'[m], adding[m], up[m], w) /\ up[m]
    <3>1. /\ events' = events /\ log' = log /\ graph' = graph /\ adding' = adding /\ up' = up /\ up[m]
          /\ behind' = [behind EXCEPT ![m] = w]
      BY DEF Reconcile, Idle
    <3>2. inbox' = [inbox EXCEPT ![m] = inbox'[m]]
      BY DEF Reconcile, GenesisInv, GraphsTyped
    <3> QED BY <3>1, <3>2, NodeFacts DEF NodeBecomes
  <2> HIDE DEF w
  <2> QED BY <1>6, <2>5, ExpectsNothing, OneNodeRound
<1> QED BY <1>5, <1>6

\* When that event comes, it is accepted.
LEMMA ReceiveRound ==
  ASSUME GenesisInv, RoundInv, NEW n \in Node, Receive(n)
  PROVE  RoundInv'
<1> DEFINE q == inbox[n]
           rest == Tail(q)
           a == adding'[n]
           w == behind[n]
<1>1. /\ up[n] /\ q # <<>> /\ adding[n] = None /\ inbox' = [inbox EXCEPT ![n] = rest]
      /\ events' = events /\ graph' = graph /\ up' = up /\ behind' = behind
      /\ adding' = [adding EXCEPT ![n] = a] /\ log' = [log EXCEPT ![n] = log'[n]]
      /\ Acceptable(n, Head(q)) => a = Head(q)
  BY DEF Receive, Logged, GenesisInv, GraphsTyped
<1>2. Expected(events, w, graph[n], q, None) /\ (~up[n] => w = {})
  BY <1>1 DEF RoundInv
<1>3. q \in Seq(Nat) /\ None \notin Nat /\ DOMAIN events \subseteq Nat /\ graph[n] \in Seq(Nat)
  BY NodeFacts
<1>4. ToSet(q) = {Head(q)} \cup ToSet(rest)
  <2> HIDE DEF q
  <2> QED BY <1>1, <1>3, HeadAndTail
<1>5. Expected(events, w, graph[n], rest, a)
  <2> SUFFICES ASSUME w # {}
               PROVE  \E e \in w : /\ ToSet(events[e].parents) \subseteq ToSet(graph[n])
                                   /\ (e \in ToSet(graph[n]) \/ e \in ToSet(rest) \/ a = e)
    BY <1>2 DEF Expected
  <2>1. PICK e \in w : /\ ToSet(events[e].parents) \subseteq ToSet(graph[n])
                       /\ (e \in ToSet(graph[n]) \/ e \in ToSet(q) \/ None = e)
    BY <1>2 DEF Expected
  <2>2. e \in Nat
    BY <1>2, <1>3, <2>1 DEF Expected
  <2>3. CASE e = Head(q) /\ e \notin ToSet(graph[n])
    <3>1. Acceptable(n, e)
      BY <1>3, <2>1, <2>3, ContainsSet DEF Acceptable, Has, validate, ParentsOf
    <3> QED BY <1>1, <2>1, <2>3, <3>1
  <2> QED BY <1>3, <1>4, <2>1, <2>2, <2>3
<1>6. NodeBecomes(n, log'[n], graph[n], rest, a, up[n], w)
  BY <1>1, NodeFacts DEF NodeBecomes
<1> HIDE DEF rest, a, w
<1> QED BY <1>2, <1>5, <1>6, OneNodeRound

\* When it is added, it is there.
LEMMA AddRound ==
  ASSUME GenesisInv, RoundInv, NEW n \in Node, AddToGraph(n)
  PROVE  RoundInv'
<1> DEFINE e == adding[n]
           g == graph'[n]
           w == behind[n]
<1>1. /\ g = Append(graph[n], e) /\ e # None /\ graph[n] \in Seq(Nat) /\ e \in Nat
      /\ None \notin Nat /\ DOMAIN events \subseteq Nat
  <2>1. /\ adding[n] # None /\ graph[n] \in Seq(Nat) /\ adding[n] \in Nat \cup {None}
        /\ None \notin Nat /\ DOMAIN events \subseteq Nat
    BY NodeFacts DEF AddToGraph
  <2>2. graph'[n] = Append(graph[n], adding[n])
    BY AddKeeps
  <2> QED BY <2>1, <2>2
<1>2. ToSet(g) = ToSet(graph[n]) \cup {e}
  BY <1>1, AppendSet
<1>3. Expected(events, w, graph[n], inbox[n], e) /\ (~up[n] => w = {})
  BY DEF RoundInv
<1>4. Expected(events, w, g, inbox[n], None)
  BY <1>2, <1>3 DEF Expected
<1>5. /\ log' = log /\ inbox' = inbox /\ up' = up /\ behind' = behind /\ events' = events
      /\ graph' = [graph EXCEPT ![n] = g] /\ adding' = [adding EXCEPT ![n] = None]
  BY DEF AddToGraph, GenesisInv, GraphsTyped
<1>6. NodeBecomes(n, log[n], g, inbox[n], None, up[n], w)
  BY <1>5, NodeFacts DEF NodeBecomes
<1> HIDE DEF g, w
<1> QED BY <1>3, <1>4, <1>6, OneNodeRound

\* A crash ends the round, and recovery starts none.
LEMMA CrashRound ==
  ASSUME GenesisInv, RoundInv, NEW n \in Node, Crash(n)
  PROVE  RoundInv'
<1>1. NodeBecomes(n, <<>>, <<>>, <<>>, None, FALSE, {})
  BY DEF Crash, NodeBecomes
<1> QED BY <1>1, ExpectsNothing, OneNodeRound

\* A node that starts again expects nothing yet, and one that rebuilds its graph
\* has it as before.
LEMMA RecoverRound ==
  ASSUME GenesisInv, RoundInv, NEW n \in Node, Recover(n)
  PROVE  RoundInv'
<1>1. NodeBecomes(n, log[n], recover(log[n]), inbox[n], adding[n], TRUE, behind[n])
  BY NodeFacts DEF Recover, NodeBecomes
<1>2. CASE ~up[n]
  <2>1. behind[n] = {}
    BY <1>2 DEF RoundInv
  <2>2. NodeBecomes(n, log[n], recover(log[n]), inbox[n], adding[n], TRUE, {})
    BY <1>1, <2>1
  <2> QED BY <2>2, ExpectsNothing, OneNodeRound
<1>3. CASE up[n]
  <2>1. graph'[n] = graph[n] /\ graph'[n] = recover(log[n])
    BY <1>3, RecoverKeeps DEF Recover, GenesisInv, GraphsTyped
  <2>2. Expected(events, behind[n], recover(log[n]), inbox[n], adding[n])
    BY <2>1 DEF RoundInv
  <2> QED BY <1>1, <2>2, OneNodeRound
<1> QED BY <1>2, <1>3

\* Every step keeps what nodes expect.
LEMMA RoundStep == GenesisInv /\ RoundInv /\ [Next]_vars => RoundInv'
<1> SUFFICES ASSUME GenesisInv, RoundInv, [Next]_vars PROVE RoundInv'
  OBVIOUS
<1>1. CASE UNCHANGED vars
  BY <1>1 DEF vars, RoundInv
<1>2. ASSUME NEW n \in Node, NEW p \in ParentLists(n), Create(n, p) PROVE RoundInv'
  BY <1>2, CreateRound
<1>3. ASSUME NEW n \in Node, NEW m \in Node, Reconcile(n, m) PROVE RoundInv'
  BY <1>3, ReconcileRound
<1>4. ASSUME NEW n \in Node, Receive(n) PROVE RoundInv'
  BY <1>4, ReceiveRound
<1>5. ASSUME NEW n \in Node, AddToGraph(n) PROVE RoundInv'
  BY <1>5, AddRound
<1>6. ASSUME NEW n \in Node, Crash(n) PROVE RoundInv'
  BY <1>6, CrashRound
<1>7. ASSUME NEW n \in Node, Recover(n) PROVE RoundInv'
  BY <1>7, RecoverRound
<1>8. ASSUME NEW n \in Node, TakeSnapshot(n) PROVE RoundInv'
  BY <1>8 DEF TakeSnapshot, RoundInv
<1> QED BY <1>1, <1>2, <1>3, <1>4, <1>5, <1>6, <1>7, <1>8 DEF Next

\* Whatever a delta leaves out of order, one delivered to its end brought the
\* receiver at least one of the events it lacked.
THEOREM RoundsAdvance == Spec => []EveryRoundAdvances
<1>1. Init => RoundInv
  BY ExpectsNothing DEF Init, RoundInv
<1>2. GenesisInv /\ RoundInv => EveryRoundAdvances
  <2> SUFFICES ASSUME GenesisInv, RoundInv, NEW n \in Node, Idle(n), behind[n] # {}
               PROVE  behind[n] \cap ToSet(graph[n]) # {}
    BY DEF EveryRoundAdvances
  <2>1. Expected(events, behind[n], graph[n], <<>>, None)
    BY DEF RoundInv, Idle
  <2>2. DOMAIN events \subseteq Nat /\ None \notin Nat /\ ToSet(<<>>) = {}
    BY NodeFacts DEF ToSet
  <2> QED BY <2>1, <2>2 DEF Expected
<1> QED BY <1>1, <1>2, RoundStep, GraphInvariant, PTL DEF Spec

-----------------------------------------------------------------------------
\* The order of the events, and the snapshot.

\* compare on the events of E.
Before(E, a, b) ==
  \/ E[a].node < E[b].node
  \/ E[a].node = E[b].node /\ a < b

\* The positions in which Ordered puts the events ids, as a function of the
\* events alone.
Position(E, ids) == [e \in ids |-> Cardinality({f \in ids : Before(E, f, e)})]
InOrder(E, ids) ==
  [k \in 1 .. Cardinality(ids) |-> CHOOSE e \in ids : Position(E, ids)[e] = k - 1]

\* Ordered is a function of the events and the ids, not of the graph.
LEMMA OrderedIs == ASSUME NEW ids, NEW g PROVE Ordered(ids, g) = InOrder(events, ids)
<1> DEFINE before == [e \in ids |-> {f \in ids : compare(f, e)}]
<1>1. \A e \in ids : before[e] = {f \in ids : Before(events, f, e)}
  BY DEF compare, Before
<1>2. \A e \in ids : Cardinality(before[e]) = Position(events, ids)[e]
  BY <1>1 DEF Position
<1>3. Ordered(ids, g) = [k \in 1 .. Cardinality(ids) |-> CHOOSE e \in ids : Cardinality(before[e]) = k - 1]
  BY DEF Ordered
<1> HIDE DEF before
<1> QED BY <1>2, <1>3 DEF InOrder

\* Later events do not change the order of earlier ones.
LEMMA OrderStays ==
  ASSUME NEW E, NEW F, NEW ids, \A e \in ids : F[e] = E[e]
  PROVE  InOrder(F, ids) = InOrder(E, ids)
<1>1. \A e, f \in ids : Before(F, f, e) <=> Before(E, f, e)
  BY DEF Before
<1>2. \A e \in ids : {f \in ids : Before(F, f, e)} = {f \in ids : Before(E, f, e)}
  BY <1>1
<1>3. \A e \in ids : Position(F, ids)[e] = Position(E, ids)[e]
  BY <1>2 DEF Position
<1> QED BY <1>3 DEF InOrder

\* The state after the events o, and the state that a set of events describes.
StateAfter(o) == FoldLeft(ApplyEvent, NoState, o)
StateOf(E, ids) == StateAfter(InOrder(E, ids))

\* A snapshot's root describes its state, for as long as events are added.
SnapshotInv ==
  snapshot # None => /\ snapshot.rootHash \in SUBSET DOMAIN events
                     /\ snapshot.state = StateOf(events, snapshot.rootHash)

\* The projection of a graph is the state its committed events describe.
LEMMA ProjectIs == ASSUME NEW g PROVE project(g) = StateOf(events, resolve(g))
<1>1. project(g) = StateAfter(Ordered(resolve(g), g))
  BY DEF project, StateAfter
<1> QED BY <1>1, OrderedIs DEF StateOf

\* No step changes an event.
LEMMA EventsStay ==
  ASSUME GenesisInv, [Next]_vars
  PROVE  DOMAIN events \subseteq DOMAIN events' /\ \A e \in DOMAIN events : events'[e] = events[e]
<1>1. ASSUME NEW n \in Node, NEW p \in ParentLists(n), Create(n, p)
      PROVE  DOMAIN events \subseteq DOMAIN events' /\ \A e \in DOMAIN events : events'[e] = events[e]
  BY <1>1, CreateKeeps
<1>2. ASSUME events' = events
      PROVE  DOMAIN events \subseteq DOMAIN events' /\ \A e \in DOMAIN events : events'[e] = events[e]
  BY <1>2
<1> QED BY <1>1, <1>2 DEF Next, Reconcile, Receive, AddToGraph, Crash, Recover, TakeSnapshot, vars

\* Every step keeps it so.
LEMMA SnapshotStep == GenesisInv /\ SnapshotInv /\ [Next]_vars => SnapshotInv'
<1> SUFFICES ASSUME GenesisInv, SnapshotInv, [Next]_vars, snapshot' # None
             PROVE  /\ snapshot'.rootHash \in SUBSET DOMAIN events'
                    /\ snapshot'.state = StateOf(events', snapshot'.rootHash)
  BY DEF SnapshotInv
<1>1. DOMAIN events \subseteq DOMAIN events' /\ \A e \in DOMAIN events : events'[e] = events[e]
  BY EventsStay
<1>2. \/ snapshot' = snapshot
      \/ \E n \in Node : TakeSnapshot(n)
  BY DEF Next, Create, Reconcile, Receive, AddToGraph, Crash, Recover, vars
<1>3. CASE snapshot' = snapshot
  <2>1. snapshot.rootHash \in SUBSET DOMAIN events /\ snapshot.state = StateOf(events, snapshot.rootHash)
    BY <1>3 DEF SnapshotInv
  <2>2. InOrder(events', snapshot.rootHash) = InOrder(events, snapshot.rootHash)
    BY <1>1, <2>1, OrderStays
  <2> QED BY <1>1, <1>3, <2>1, <2>2 DEF StateOf
<1>4. ASSUME NEW n \in Node, TakeSnapshot(n)
      PROVE  /\ snapshot'.rootHash \in SUBSET DOMAIN events'
             /\ snapshot'.state = StateOf(events', snapshot'.rootHash)
  <2>1. snapshot'.rootHash = resolve(graph[n]) /\ snapshot'.state = project(graph[n]) /\ events' = events
    BY <1>4 DEF TakeSnapshot, create
  <2>2. resolve(graph[n]) = ToSet(graph[n]) /\ ToSet(graph[n]) \in SUBSET DOMAIN events
    BY NodeFacts, ResolveAll
  <2> QED BY <2>1, <2>2, ProjectIs
<1> QED BY <1>2, <1>3, <1>4

\* A snapshot whose root a node expects describes that node's own state.
THEOREM SnapshotTellsState == Spec => []SnapshotDescribesRoot
<1>1. Init => SnapshotInv
  BY DEF Init, SnapshotInv
<1>2. SnapshotInv => SnapshotDescribesRoot
  BY ProjectIs DEF SnapshotInv, SnapshotDescribesRoot, verify
<1> QED BY <1>1, <1>2, SnapshotStep, GraphInvariant, PTL DEF Spec

-----------------------------------------------------------------------------
\* The supply.

\* compare is a strict total order on ids, so no two have the same position.
LEMMA PositionsDiffer ==
  ASSUME NEW E, EventList(E), NEW ids \in SUBSET DOMAIN E
  PROVE  /\ IsFiniteSet(ids) /\ Cardinality(ids) \in Nat
         /\ Position(E, ids) \in Injection(ids, 0 .. Cardinality(ids) - 1)
<1> DEFINE B == [e \in ids |-> {f \in ids : Before(E, f, e)}]
<1>1. DOMAIN E = 1 .. Len(E) /\ Len(E) \in Nat /\ \A e \in DOMAIN E : E[e].node \in Nat
  <2>1. E \in Seq([parents : Seq(Nat), node : Node]) /\ Node \subseteq Nat
    BY GenesisAssumption DEF EventList
  <2>2. DOMAIN E = 1 .. Len(E) /\ Len(E) \in Nat
    BY <2>1
  <2>3. \A e \in DOMAIN E : E[e] \in [parents : Seq(Nat), node : Node]
    BY <2>1, <2>2, ElementTyped
  <2> QED BY <2>1, <2>2, <2>3
<1>2. IsFiniteSet(DOMAIN E)
  BY <1>1, FS_Interval
<1>3. IsFiniteSet(ids) /\ Cardinality(ids) \in Nat
  BY <1>2, FS_Subset, FS_CardinalityType
<1>4. \A e \in ids : B[e] \in SUBSET (ids \ {e})
  BY <1>1 DEF Before
<1>5. ASSUME NEW e \in ids, NEW f \in ids, f \in B[e] PROVE B[f] \in SUBSET B[e]
  <2>1. Before(E, f, e) /\ \A c \in ids : Before(E, c, f) => Before(E, c, e)
    BY <1>1, <1>5 DEF Before
  <2> QED BY <2>1
<1>6. ASSUME NEW e \in ids, NEW f \in ids, e # f PROVE e \in B[f] \/ f \in B[e]
  <2>1. E[e].node \in Nat /\ E[f].node \in Nat /\ e \in Nat /\ f \in Nat
    BY <1>1
  <2>2. Before(E, e, f) \/ Before(E, f, e)
    BY <1>6, <2>1 DEF Before
  <2> QED BY <2>2
<1>7. Position(E, ids) = [e \in ids |-> Cardinality(B[e])]
  BY DEF Position
<1> HIDE DEF B
<1>8. Orders(B, ids)
  BY <1>4, <1>5, <1>6 DEF Orders
<1>9. /\ \A e \in ids : Cardinality(B[e]) \in 0 .. Cardinality(ids) - 1
      /\ \A e, f \in ids : Cardinality(B[e]) = Cardinality(B[f]) => e = f
  BY <1>3, <1>8, RankIsPosition
<1> QED BY <1>3, <1>7, <1>9 DEF Injection, IsInjective

\* So the ordered events are the committed ones, each of them once.
LEMMA InOrderLists ==
  ASSUME NEW E, EventList(E), NEW ids \in SUBSET DOMAIN E
  PROVE  /\ InOrder(E, ids) \in Seq(ids) /\ Len(InOrder(E, ids)) = Cardinality(ids)
         /\ \A i, j \in 1 .. Cardinality(ids) : i < j => InOrder(E, ids)[i] # InOrder(E, ids)[j]
<1> DEFINE n == Cardinality(ids)
           pos == Position(E, ids)
           o == InOrder(E, ids)
<1>1. n \in Nat /\ IsFiniteSet(ids) /\ pos \in Injection(ids, 0 .. n - 1)
  BY PositionsDiffer
<1>2. IsFiniteSet(0 .. n - 1) /\ Cardinality(0 .. n - 1) = n
  BY <1>1, FS_Interval
<1> HIDE DEF n, pos
<1>3. pos \in Surjection(ids, 0 .. n - 1)
  BY <1>1, <1>2, FS_Injection DEF n
<1>4. \A k \in 1 .. n : \E e \in ids : pos[e] = k - 1
  BY <1>1, <1>3 DEF Surjection
<1>5. o = [k \in 1 .. n |-> CHOOSE e \in ids : pos[e] = k - 1]
  BY DEF InOrder, n, pos
<1>6. \A k \in 1 .. n : o[k] \in ids /\ pos[o[k]] = k - 1
  BY <1>4, <1>5
<1> HIDE DEF o
<1>7. o \in Seq(ids) /\ Len(o) = n
  BY <1>1, <1>5, <1>6
<1>8. \A i, j \in 1 .. n : i < j => o[i] # o[j]
  <2> SUFFICES ASSUME NEW i \in 1 .. n, NEW j \in 1 .. n, i < j, o[i] = o[j] PROVE FALSE
    OBVIOUS
  <2>1. i - 1 = j - 1
    BY <1>6
  <2> QED BY <1>1, <2>1
<1> QED BY <1>7, <1>8 DEF n, o

\* The balances and the nonces of a state.
Balances(s) == [a \in Accounts |-> s.accounts[a].balance]
Nonces(s)   == [a \in Accounts |-> s.accounts[a].nonce]

\* What each event does to the sums.
LEMMA TransferSums ==
  ASSUME NEW s \in KernelState, NEW e \in 1 .. MaxEvents, NEW s1, s1 = ApplyEvent(s, e)
  PROVE  /\ SumFunctionOnSet(Balances(s1), Accounts) = SumFunctionOnSet(Balances(s), Accounts)
         /\ \/ /\ s1.rejections = s.rejections \cup {e}
               /\ SumFunctionOnSet(Nonces(s1), Accounts) = SumFunctionOnSet(Nonces(s), Accounts)
            \/ /\ s1.rejections = s.rejections
               /\ SumFunctionOnSet(Nonces(s1), Accounts) = SumFunctionOnSet(Nonces(s), Accounts) + 1
<1> DEFINE f == Payload[e].from
           t == Payload[e].to
           x == Payload[e].amount
<1>1. f \in Accounts /\ t \in Accounts /\ x \in Int
  BY GenesisAssumption
<1>2. s.accounts \in [Accounts -> Account] /\ s1 \in KernelState
  BY ApplyTyped DEF KernelState
<1>3. IsFiniteSet(Accounts)
  BY GenesisAssumption
<1>4. \A a \in Accounts : Balances(s)[a] \in Int /\ Nonces(s)[a] \in Int
  BY <1>2 DEF Balances, Nonces, Account
<1>5. CASE s.accounts[f].balance < x
  <2>1. s1 = [s EXCEPT !.rejections = @ \cup {e}]
    BY <1>5 DEF ApplyEvent
  <2>2. s1.rejections = s.rejections \cup {e} /\ s1.accounts = s.accounts
    BY <2>1 DEF KernelState
  <2> QED BY <2>2 DEF Balances, Nonces
<1>6. CASE ~ (s.accounts[f].balance < x)
  <2>1. s1 = [s EXCEPT !.accounts = Transfer(@, Payload[e])]
    BY <1>6 DEF ApplyEvent
  <2>2. s1.rejections = s.rejections /\ s1.accounts = Transfer(s.accounts, Payload[e])
    BY <2>1 DEF KernelState
  <2> DEFINE A == s.accounts
             A1 == [A EXCEPT ![f] = [balance |-> @.balance - x, nonce |-> @.nonce + 1]]
             A2 == [A1 EXCEPT ![t].balance = @ + x]
             b1 == [a \in Accounts |-> A1[a].balance]
  <2>3. s1.accounts = A2
    BY <2>2 DEF Transfer
  <2>4. A1 \in [Accounts -> Account]
    BY <1>1, <1>2 DEF Account
  <2>5. /\ A1[f].balance = A[f].balance - x /\ A1[f].nonce = A[f].nonce + 1
        /\ \A a \in Accounts : a # f => A1[a] = A[a]
    BY <1>1, <1>2
  <2> HIDE DEF A1
  <2>6. /\ A2[t].balance = A1[t].balance + x
        /\ \A a \in Accounts : a # t => A2[a] = A1[a]
        /\ A2[t].nonce = A1[t].nonce
    BY <1>1, <2>4 DEF Account
  <2> HIDE DEF A2
  <2>7. \A a \in Accounts : /\ b1[a] \in Int
                            /\ Balances(s)[a] = A[a].balance /\ Balances(s1)[a] = A2[a].balance
                            /\ Nonces(s)[a] = A[a].nonce /\ Nonces(s1)[a] = A2[a].nonce
    BY <2>3, <2>4 DEF Balances, Nonces, Account
  <2>8. \A a \in Accounts : b1[a] = A1[a].balance
    OBVIOUS
  <2> HIDE DEF b1, f, t, x
  <2>9. SumFunctionOnSet(b1, Accounts) = SumFunctionOnSet(Balances(s), Accounts) - x
    <3>1. b1[f] = Balances(s)[f] - x /\ \A a \in Accounts : a # f => b1[a] = Balances(s)[a]
      BY <1>1, <2>5, <2>7, <2>8
    <3>2. SumFunctionOnSet(b1, Accounts) = SumFunctionOnSet(Balances(s), Accounts) + b1[f] - Balances(s)[f]
      BY <1>1, <1>3, <1>4, <2>7, <3>1, SumChange
    <3> QED BY <1>1, <1>3, <1>4, <3>1, <3>2, SumIsInt
  <2>10. SumFunctionOnSet(Balances(s1), Accounts) = SumFunctionOnSet(b1, Accounts) + x
    <3>1. Balances(s1)[t] = b1[t] + x /\ \A a \in Accounts : a # t => Balances(s1)[a] = b1[a]
      BY <1>1, <2>6, <2>7, <2>8
    <3>2. SumFunctionOnSet(Balances(s1), Accounts) = SumFunctionOnSet(b1, Accounts) + Balances(s1)[t] - b1[t]
      BY <1>1, <1>3, <2>7, <3>1, SumChange
    <3> QED BY <1>1, <1>3, <2>7, <3>1, <3>2, SumIsInt
  <2>11. SumFunctionOnSet(Nonces(s1), Accounts) = SumFunctionOnSet(Nonces(s), Accounts) + 1
    <3>1. Nonces(s1)[f] = Nonces(s)[f] + 1 /\ \A a \in Accounts : a # f => Nonces(s1)[a] = Nonces(s)[a]
      BY <1>1, <2>5, <2>6, <2>7
    <3>2. SumFunctionOnSet(Nonces(s1), Accounts)
            = SumFunctionOnSet(Nonces(s), Accounts) + Nonces(s1)[f] - Nonces(s)[f]
      BY <1>1, <1>3, <1>4, <3>1, SumChange
    <3> QED BY <1>1, <1>3, <1>4, <3>1, <3>2, SumIsInt
  <2>12. SumFunctionOnSet(Balances(s), Accounts) \in Int
    BY <1>3, <1>4, SumIsInt
  <2> QED BY <1>1, <2>2, <2>9, <2>10, <2>11, <2>12
<1> QED BY <1>5, <1>6

\* The states in which nothing is created or lost by the first k of the events o.
ConservedAfter(o, k) ==
  {s \in KernelState : /\ SumFunctionOnSet(Balances(s), Accounts) = 0
                      /\ IsFiniteSet(s.rejections)
                      /\ s.rejections \subseteq {o[i] : i \in 1 .. k}
                      /\ SumFunctionOnSet(Nonces(s), Accounts) + Cardinality(s.rejections) = k}

\* What a set of events describes creates and loses nothing.
LEMMA StateConserves ==
  ASSUME EventList(events), Len(events) <= MaxEvents, NEW ids \in SUBSET DOMAIN events
  PROVE  LET s == StateOf(events, ids) IN
         /\ s \in KernelState
         /\ SumFunctionOnSet(Balances(s), Accounts) = 0
         /\ SumFunctionOnSet(Nonces(s), Accounts) + Cardinality(s.rejections) = Cardinality(ids)
<1> DEFINE o == InOrder(events, ids)
           n == Cardinality(ids)
           P == [k \in 0 .. n |-> ConservedAfter(o, k)]
<1>1. /\ o \in Seq(ids) /\ Len(o) = n /\ n \in Nat
      /\ \A i, j \in 1 .. n : i < j => o[i] # o[j]
  BY InOrderLists, PositionsDiffer
<1>2. DOMAIN events \subseteq 1 .. MaxEvents
  BY GenesisAssumption DEF EventList
<1> HIDE DEF o, n
<1>3. o \in Seq(1 .. MaxEvents) /\ \A k \in 1 .. n : o[k] \in 1 .. MaxEvents
  <2>1. \A k \in 1 .. n : o[k] \in ids
    BY <1>1, ElementTyped
  <2>2. \A k \in 1 .. n : o[k] \in 1 .. MaxEvents
    BY <1>2, <2>1
  <2>3. o = [k \in 1 .. n |-> o[k]]
    BY <1>1
  <2>4. [k \in 1 .. n |-> o[k]] \in Seq(1 .. MaxEvents)
    BY <1>1, <2>2
  <2> QED BY <2>2, <2>3, <2>4
<1>4. IsFiniteSet(Accounts)
  BY GenesisAssumption
<1>5. NoState \in P[0]
  <2>1. NoState \in KernelState /\ NoState.rejections = {}
    BY NoStateTyped DEF NoState
  <2>2. \A a \in Accounts : Balances(NoState)[a] = 0 /\ Nonces(NoState)[a] = 0
    BY DEF Balances, Nonces, NoState
  <2>3. SumFunctionOnSet(Balances(NoState), Accounts) = 0 /\ SumFunctionOnSet(Nonces(NoState), Accounts) = 0
    BY <1>4, <2>2, SumOfZeros
  <2>4. IsFiniteSet(NoState.rejections) /\ Cardinality(NoState.rejections) = 0
    BY <2>1, FS_EmptySet
  <2>5. NoState \in ConservedAfter(o, 0)
    <3> DEFINE s == NoState
    <3>1. /\ s \in KernelState /\ SumFunctionOnSet(Balances(s), Accounts) = 0 /\ IsFiniteSet(s.rejections)
          /\ s.rejections \subseteq {o[i] : i \in 1 .. 0}
          /\ SumFunctionOnSet(Nonces(s), Accounts) + Cardinality(s.rejections) = 0
      BY <2>1, <2>3, <2>4
    <3> HIDE DEF s
    <3>2. s \in ConservedAfter(o, 0)
      BY <3>1 DEF ConservedAfter
    <3> QED BY <3>2 DEF s
  <2> QED BY <1>1, <2>5
<1>6. ASSUME NEW k \in 1 .. n, NEW s \in KernelState, s \in P[k - 1]
      PROVE  ApplyEvent(s, o[k]) \in P[k]
  <2> DEFINE s1 == ApplyEvent(s, o[k])
  <2>1. k - 1 \in 0 .. n /\ k \in 0 .. n /\ k \in Nat
    BY <1>1
  <2>2. /\ SumFunctionOnSet(Balances(s), Accounts) = 0 /\ IsFiniteSet(s.rejections)
        /\ s.rejections \subseteq {o[i] : i \in 1 .. k - 1}
        /\ SumFunctionOnSet(Nonces(s), Accounts) + Cardinality(s.rejections) = k - 1
    BY <1>6, <2>1 DEF ConservedAfter
  <2>3. o[k] \in 1 .. MaxEvents /\ o[k] \notin {o[i] : i \in 1 .. k - 1}
    BY <1>1, <1>3, <2>1
  <2>4. s1 \in KernelState
    BY <2>3, ApplyTyped
  <2> HIDE DEF s1
  <2>5. /\ SumFunctionOnSet(Balances(s1), Accounts) = SumFunctionOnSet(Balances(s), Accounts)
        /\ \/ /\ s1.rejections = s.rejections \cup {o[k]}
              /\ SumFunctionOnSet(Nonces(s1), Accounts) = SumFunctionOnSet(Nonces(s), Accounts)
           \/ /\ s1.rejections = s.rejections
              /\ SumFunctionOnSet(Nonces(s1), Accounts) = SumFunctionOnSet(Nonces(s), Accounts) + 1
    BY <2>3, TransferSums DEF s1
  <2>6. {o[i] : i \in 1 .. k - 1} \cup {o[k]} \subseteq {o[i] : i \in 1 .. k}
    BY <2>1
  <2>7. SumFunctionOnSet(Nonces(s), Accounts) \in Int /\ Cardinality(s.rejections) \in Nat
    <3>1. \A a \in Accounts : Nonces(s)[a] \in Int
      BY DEF Nonces, KernelState, Account
    <3> QED BY <1>4, <2>2, <3>1, SumIsInt, FS_CardinalityType
  <2>8. /\ IsFiniteSet(s1.rejections) /\ s1.rejections \subseteq {o[i] : i \in 1 .. k}
        /\ SumFunctionOnSet(Nonces(s1), Accounts) + Cardinality(s1.rejections) = k
    <3>1. /\ IsFiniteSet(s.rejections \cup {o[k]})
          /\ Cardinality(s.rejections \cup {o[k]}) = Cardinality(s.rejections) + 1
      BY <2>2, <2>3, FS_AddElement
    <3>2. CASE /\ s1.rejections = s.rejections \cup {o[k]}
               /\ SumFunctionOnSet(Nonces(s1), Accounts) = SumFunctionOnSet(Nonces(s), Accounts)
      BY <2>1, <2>2, <2>6, <2>7, <3>1, <3>2
    <3>3. CASE /\ s1.rejections = s.rejections
               /\ SumFunctionOnSet(Nonces(s1), Accounts) = SumFunctionOnSet(Nonces(s), Accounts) + 1
      BY <2>1, <2>2, <2>6, <2>7, <3>3
    <3> QED BY <2>5, <3>2, <3>3
  <2>9. s1 \in ConservedAfter(o, k)
    BY <2>2, <2>4, <2>5, <2>8 DEF ConservedAfter
  <2> QED BY <2>1, <2>9 DEF s1
<1>7. P[n] = ConservedAfter(o, n)
  BY <1>1
<1> HIDE DEF P
<1>8. StateAfter(o) \in KernelState /\ StateAfter(o) \in P[n]
  BY <1>1, <1>3, <1>5, <1>6, ApplyRule DEF StateAfter
<1> QED BY <1>7, <1>8 DEF StateOf, ConservedAfter, o, n

\* There are payloads for all events.
EventsFit == Len(events) <= MaxEvents

\* There stay payloads for all events.
LEMMA EventsBounded == GenesisInv /\ EventsFit /\ [Next]_vars => EventsFit'
<1> SUFFICES ASSUME GenesisInv, Len(events) <= MaxEvents, [Next]_vars PROVE Len(events') <= MaxEvents
  BY DEF EventsFit
<1>1. ASSUME NEW n \in Node, NEW p \in ParentLists(n), Create(n, p) PROVE Len(events') <= MaxEvents
  <2>1. events' = Append(events, [parents |-> p, node |-> n]) /\ Len(events) < MaxEvents
    BY <1>1 DEF Create
  <2>2. events \in Seq([parents : Seq(Nat), node : Node])
    BY DEF GenesisInv, GraphsTyped, EventList
  <2>3. Len(events') = Len(events) + 1 /\ Len(events) \in Nat
    BY <2>1, <2>2
  <2> QED BY <2>1, <2>3, GenesisAssumption
<1>2. CASE events' = events
  BY <1>2
<1> QED BY <1>1, <1>2 DEF Next, Reconcile, Receive, AddToGraph, Crash, Recover, TakeSnapshot, vars

\* Balances sum up to what there was at first, and each committed event is in
\* some nonce or among the rejections, for all payloads, in any order.
THEOREM MoneyConserved == Spec => []SupplyConserved
<1>1. Init => EventsFit
  BY GenesisAssumption DEF Init, EventsFit
<1>2. GenesisInv /\ EventsFit => SupplyConserved
  <2> SUFFICES ASSUME GenesisInv, Len(events) <= MaxEvents, NEW n \in Node,
                      NEW s, s = project(graph[n])
               PROVE  /\ SumFunction([a \in Accounts |-> s.accounts[a].balance]) = 0
                      /\ SumFunction([a \in Accounts |-> s.accounts[a].nonce]) + Cardinality(s.rejections)
                           = Cardinality(resolve(graph[n]))
    BY DEF SupplyConserved, EventsFit
  <2>1. /\ EventList(events) /\ Causal(events, graph[n]) /\ ToSet(graph[n]) \in SUBSET DOMAIN events
        /\ resolve(graph[n]) = ToSet(graph[n])
    BY NodeFacts, ResolveAll
  <2>2. s = StateOf(events, resolve(graph[n]))
    BY ProjectIs
  <2>3. /\ SumFunctionOnSet(Balances(s), Accounts) = 0
        /\ SumFunctionOnSet(Nonces(s), Accounts) + Cardinality(s.rejections) = Cardinality(resolve(graph[n]))
    BY <2>1, <2>2, StateConserves
  <2>4. /\ SumFunction(Balances(s)) = SumFunctionOnSet(Balances(s), DOMAIN Balances(s))
        /\ SumFunction(Nonces(s)) = SumFunctionOnSet(Nonces(s), DOMAIN Nonces(s))
    BY DEF SumFunction
  <2>5. DOMAIN Balances(s) = Accounts /\ DOMAIN Nonces(s) = Accounts
    BY DEF Balances, Nonces
  <2>6. SumFunction(Balances(s)) = 0 /\ SumFunction(Nonces(s)) = SumFunctionOnSet(Nonces(s), Accounts)
    BY <2>3, <2>4, <2>5
  <2> QED BY <2>3, <2>6 DEF Balances, Nonces
<1> QED BY <1>1, <1>2, EventsBounded, GraphInvariant, PTL DEF Spec
=============================================================================
