----------------------------- MODULE GatewayProofs -----------------------------
(***************************************************************************)
(* Proofs about what stands around a handler: RequestGateway for any       *)
(* requests, limits and plans, and, at the end, CircuitBreakers for any    *)
(* callers, limits and timeouts.                                           *)
(***************************************************************************)
EXTENDS RequestGateway, CircuitBreakers, FiniteSetTheorems, TLAPS

\* What a request has been through, by where it is.
Journey(r) ==
  /\ pc[r] = "idle" => admitted[r] = NoTime
  /\ pc[r] # "idle" => input[r] \in Inputs
  /\ pc[r] \in {"idle", "handling", "finding"} => answer[r] = {}
  /\ caller[r] = checked[r]
  /\ pc[r] = "finding" => checked[r] # Nobody
  /\ pc[r] \in {"billed", "saving"} =>
       input[r].tenant \in DOMAIN PlanOf /\ billing[r] = input[r].tenant
  /\ r \in charged => pc[r] \notin {"idle", "handling", "finding", "billed"}
  /\ \A t \in answer[r] : checked[r] # Nobody /\ t = checked[r].tenant

\* The request q brought the identity u and got no further than the static field;
\* those that do get to a handler brought none.
Left(q, u) == pc[q] = "broken" /\ input[q].user = u

\* The records the audit log holds of a request.
Records(r) == {x \in audit : x.request = r}
Audited(r) ==
  IF pc[r] = "answered"
  THEN \E t \in Requests : /\ Records(r) = {[request |-> r, trace |-> t]}
                           /\ r \notin overlapped => t = r
  ELSE Records(r) = {}

\* A request that was never traced beside another one is the only traced one,
\* and its trace is the one in the static field.
Alone(r) ==
  r \notin overlapped =>
    /\ r \in Traced => Traced = {r} /\ trace = r
    /\ pc[r] # "unaudited"

\* Every tenant's object is the one on record, whoever was handed it.
UsageInv ==
  \A t \in Tenants :
    /\ db[t] = t
    /\ t \in DOMAIN PlanOf =>
         /\ object[t] = Cardinality(ChargedTo(t))
         /\ object[t] <= PLANS[PlanOf[t].plan].maxRequestsPerDay

\* The locals of the handlers, which TypeOK says nothing of.
LocalsOK ==
  /\ caller \in [Requests -> UserIdentity \cup {Nobody}]
  /\ checked \in [Requests -> UserIdentity \cup {Nobody}]
  /\ billing \in [Requests -> Tenants \cup {NoEntry}]

Types == TypeOK /\ LocalsOK
Journeys == \A r \in Requests : Journey(r)
Identities ==
  /\ current # Nobody => \E q \in Requests : Left(q, current)
  /\ \A r \in Requests : checked[r] # Nobody => \E q \in Requests : Left(q, checked[r])
  /\ \A r \in Requests : pc[r] \in InFlight \/ answer[r] # {} => input[r].user = Nobody
AllAudited == \A r \in Requests : Audited(r)
AllAlone == \A r \in Requests : Alone(r)
GatewayInv == Types /\ UsageInv /\ Journeys /\ Identities /\ AllAudited /\ AllAlone

-----------------------------------------------------------------------------
\* Types

LEMMA CountedEntry ==
  ASSUME NEW e \in Entry, now \in Nat, limiter \in {"guard", "hook"}
  PROVE  Counted(e) \in Entry
<1>0. Limit \in Nat \ {0} /\ Window \in Nat
  BY GatewayAssumption
<1>1. CASE e = NoEntry
  BY <1>0, <1>1 DEF Counted, Expired, Entry
<1>2. CASE e \in [count : 1 .. Limit + 1, resetAt : Nat]
  <2>1. CASE Expired(e)
    BY <1>0, <2>1 DEF Counted, Entry
  <2>2. CASE ~Expired(e)
    BY <1>0, <1>2, <2>2 DEF Counted, Entry
  <2> QED BY <2>1, <2>2
<1> QED BY <1>1, <1>2 DEF Entry

LEMMA InputFields ==
  ASSUME NEW i \in Inputs
  PROVE  /\ i.ip \in Addresses /\ i.user \in UserIdentity \cup {Nobody}
         /\ i.url \in Urls /\ i.tenant \in Tenants
BY InputsAssumption

LEMMA EnterTypes ==
  ASSUME Types, NEW r \in Requests, NEW i \in Inputs,
         Limited(r, i) \/ Pass(r, i) \/ PreHandle(r, i)
  PROVE  Types'
<1>1. /\ now \in Nat /\ limiter \in {"guard", "hook"}
      /\ i.ip \in Addresses /\ store[i.ip] \in Entry /\ store \in [Addresses -> Entry]
      /\ i.user \in UserIdentity \cup {Nobody}
  BY InputFields, GatewayAssumption DEF Types, TypeOK
<1>2. Counted(store[i.ip]) \in Entry
  BY <1>1, CountedEntry
<1>3. store' \in [Addresses -> Entry]
  BY <1>1, <1>2 DEF Limited, Pass, PreHandle
<1>4. admitted' \in [Requests -> 0 .. MaxTime \cup {NoTime}]
  BY DEF Types, TypeOK, Limited, Pass, PreHandle
<1>5. pc' \in [Requests -> InFlight \cup
       {"idle", "limited", "broken", "passed", "answered", "unaudited", "failed"}]
  BY DEF Types, TypeOK, Limited, Pass, PreHandle, To, WrapHead, InFlight
<1>6. input' \in [Requests -> Inputs \cup {NoEntry}]
  BY DEF Types, TypeOK, Limited, Pass, PreHandle
<1>7. /\ current' \in UserIdentity \cup {Nobody} /\ trace' \in Requests \cup {NoTrace}
      /\ overlapped' \subseteq Requests
  BY <1>1 DEF Types, TypeOK, Limited, Pass, PreHandle, UserContextSet, WrapHead, start, To,
     traced, Traced
<1>8. UNCHANGED <<limiter, now, requests, errors, audit, account, reading>>
  BY DEF Limited, Pass, PreHandle, traced
<1> QED BY <1>3, <1>4, <1>5, <1>6, <1>7, <1>8
        DEF Types, TypeOK, LocalsOK, account, reading

LEMMA HandlerTypes ==
  ASSUME Types, UsageInv, Journeys, NEW r \in Requests, Handler(r)
  PROVE  Types'
<1>1. pc' \in [Requests -> InFlight \cup
       {"idle", "limited", "broken", "passed", "answered", "unaudited", "failed"}]
  BY DEF Types, TypeOK, Handler, Probe, CheckPermission, Found, GetBilling, Charge, Save,
     CheckUsers, To, InFlight
<1>2. input' = input /\ UNCHANGED <<current, limits, traced>>
  BY DEF Handler, Probe, CheckPermission, Found, GetBilling, Charge, Save, CheckUsers
<1>3. caller' \in [Requests -> UserIdentity \cup {Nobody}]
  BY DEF Types, TypeOK, LocalsOK, Handler, Probe, CheckPermission, Found, GetBilling, Charge,
     Save, CheckUsers, reading
<1>4. checked' \in [Requests -> UserIdentity \cup {Nobody}]
  BY DEF Types, TypeOK, LocalsOK, Handler, Probe, CheckPermission, Found, GetBilling, Charge,
     Save, CheckUsers, reading
<1>5. pc[r] # "idle"
  BY DEF Handler, Probe, CheckPermission, Found, GetBilling, Charge, Save, CheckUsers, In
<1>6. input[r] \in Inputs /\ input[r].tenant \in Tenants
  BY <1>5, InputFields DEF Journeys, Journey
<1>7. answer' \in [Requests -> SUBSET Tenants]
  BY <1>6 DEF Types, TypeOK, Handler, Probe, CheckPermission, Found, GetBilling, Charge,
     Save, CheckUsers, reading
<1>8. billing' \in [Requests -> Tenants \cup {NoEntry}]
  BY <1>6 DEF Types, LocalsOK, TypeOK, UsageInv, Handler, Probe, CheckPermission, Found,
     GetBilling, Charge, Save, CheckUsers, account, HandedOut
<1>9. object' \in [Tenants \cup Requests -> Nat]
  <2>1. CASE GetBilling(r)
    BY <1>6, <2>1 DEF Types, TypeOK, UsageInv, GetBilling, HandedOut
  <2>2. CASE Charge(r)
    <3>1. billing[r] \in Tenants
      BY <1>6, <2>2 DEF Journeys, Journey, Charge, In
    <3> QED BY <3>1, <2>2 DEF Types, TypeOK, Charge
  <2>3. CASE ~GetBilling(r) /\ ~Charge(r)
    BY <2>3 DEF Types, TypeOK, Handler, Probe, CheckPermission, Found, Save, CheckUsers, account
  <2> QED BY <2>1, <2>2, <2>3
<1>10. db' \in [Tenants -> Tenants \cup Requests]
  <2>1. CASE Save(r)
    BY <1>6, <2>1 DEF Types, TypeOK, Journeys, Journey, Save
  <2>2. CASE ~Save(r)
    BY <2>2 DEF Types, TypeOK, Handler, Probe, CheckPermission, Found, GetBilling, Charge,
       CheckUsers, account
  <2> QED BY <2>1, <2>2
<1>11. charged' \subseteq Requests
  BY DEF Types, TypeOK, Handler, Probe, CheckPermission, Found, GetBilling, Charge, Save,
     CheckUsers, account
<1> QED BY <1>1, <1>2, <1>3, <1>4, <1>7, <1>8, <1>9, <1>10, <1>11
        DEF Types, TypeOK, LocalsOK, limits, traced

LEMMA EndTypes ==
  ASSUME Types, NEW r \in Requests, Settle(r) \/ Catch(r)
  PROVE  Types'
<1>1. pc' \in [Requests -> InFlight \cup
       {"idle", "limited", "broken", "passed", "answered", "unaudited", "failed"}]
  BY DEF Types, TypeOK, Settle, Catch, To
<1>2. requests' \in Nat /\ errors' \in Nat /\ trace' \in Requests \cup {NoTrace}
  BY DEF Types, TypeOK, Settle, Catch, recordRequest, recordError, clear
<1>3. audit' \subseteq AuditEvent
  BY DEF Types, TypeOK, Settle, Catch, log, TraceAtLog, AuditEvent
<1>4. UNCHANGED <<input, current, limits, overlapped, account, reading>>
  BY DEF Settle, Catch
<1> QED BY <1>1, <1>2, <1>3, <1>4 DEF Types, TypeOK, LocalsOK, limits, account, reading

LEMMA IdleTypes ==
  ASSUME Types, Tick \/ UNCHANGED vars
  PROVE  Types'
<1>1. now' \in 0 .. MaxTime
  BY GatewayAssumption DEF Types, TypeOK, Tick, vars, limits
<1> QED BY <1>1 DEF Types, TypeOK, LocalsOK, Tick, vars, limits, traced, account, reading

-----------------------------------------------------------------------------
\* Where a request is and what it has been through

LEMMA EnterJourneys ==
  ASSUME Types, Journeys, NEW r \in Requests, NEW i \in Inputs,
         Limited(r, i) \/ Pass(r, i) \/ PreHandle(r, i)
  PROVE  Journeys'
<1> SUFFICES ASSUME NEW q \in Requests PROVE Journey(q)'
  BY DEF Journeys
<1>1. Journey(q) /\ Journey(r)
  BY DEF Journeys
<1>2. pc[r] = "idle" /\ UNCHANGED <<account, reading>>
  BY DEF Limited, Pass, PreHandle
<1>3. /\ pc'[r] \in {"limited", "passed", "broken", "handling"}
      /\ input'[r] = i
      /\ q # r => UNCHANGED <<pc[q], input[q], admitted[q]>>
  BY DEF Limited, Pass, PreHandle, To, WrapHead, Types, TypeOK
<1> QED BY <1>1, <1>2, <1>3 DEF Journey, account, reading

LEMMA HandlerJourneys ==
  ASSUME Types, UsageInv, Journeys, NEW r \in Requests, Handler(r)
  PROVE  Journeys'
<1> SUFFICES ASSUME NEW q \in Requests PROVE Journey(q)'
  BY DEF Journeys
<1>1. Journey(q) /\ Journey(r)
  BY DEF Journeys
<1>2. UNCHANGED <<input, limits>>
  BY DEF Handler, Probe, CheckPermission, Found, GetBilling, Charge, Save, CheckUsers
<1>3. CASE Probe(r)
  BY <1>1, <1>3 DEF Journey, Types, TypeOK, Probe, To, In, limits, account, reading
<1>4. CASE CheckPermission(r)
  BY <1>1, <1>4 DEF Journey, Types, TypeOK, LocalsOK, CheckPermission, To, In, limits, account, check
<1>5. CASE Found(r)
  BY <1>1, <1>5 DEF Journey, Types, TypeOK, LocalsOK, Found, To, In, UserOf, limits, account
<1>6. CASE GetBilling(r)
  <2>1. input[r].tenant \in Tenants
    BY <1>1, <1>6, InputFields DEF Journey, GetBilling, In
  <2> QED BY <1>1, <1>6, <2>1 DEF Journey, Types, TypeOK, LocalsOK, UsageInv, GetBilling,
             HandedOut, To, In, limits, reading
<1>7. CASE Charge(r)
  BY <1>1, <1>7 DEF Journey, Types, TypeOK, Charge, To, In, limits, reading
<1>8. CASE Save(r)
  BY <1>1, <1>8 DEF Journey, Types, TypeOK, Save, To, In, limits, reading
<1>9. CASE CheckUsers(r)
  BY <1>1, <1>9 DEF Journey, Types, TypeOK, CheckUsers, To, In, limits, account, reading
<1> QED BY <1>3, <1>4, <1>5, <1>6, <1>7, <1>8, <1>9 DEF Handler

LEMMA EndJourneys ==
  ASSUME Types, Journeys, NEW r \in Requests, Settle(r) \/ Catch(r)
  PROVE  Journeys'
<1> SUFFICES ASSUME NEW q \in Requests PROVE Journey(q)'
  BY DEF Journeys
<1>1. Journey(q) /\ Journey(r)
  BY DEF Journeys
<1>2. /\ UNCHANGED <<input, limits, account, reading>>
      /\ pc[r] \in {"handled", "threw"} /\ pc'[r] \in {"answered", "unaudited", "failed"}
      /\ q # r => pc'[q] = pc[q]
  BY DEF Settle, Catch, To, Types, TypeOK
<1> QED BY <1>1, <1>2 DEF Journey, limits, account, reading

LEMMA IdleJourneys ==
  ASSUME Journeys, Tick \/ UNCHANGED vars
  PROVE  Journeys'
BY DEF Journeys, Journey, Tick, vars, limits, account, reading

-----------------------------------------------------------------------------
\* The static identity

LEMMA EnterIdentities ==
  ASSUME Types, Journeys, Identities, NEW r \in Requests, NEW i \in Inputs,
         Limited(r, i) \/ Pass(r, i) \/ PreHandle(r, i)
  PROVE  Identities'
<1>1. pc[r] = "idle" /\ UNCHANGED <<checked, answer>> /\ answer[r] = {}
  BY DEF Limited, Pass, PreHandle, reading, Journeys, Journey
<1>2. /\ pc'[r] \notin InFlight \ {"handling"} /\ input'[r] = i
      /\ \A q \in Requests \ {r} : UNCHANGED <<pc[q], input[q]>>
  BY DEF Limited, Pass, PreHandle, To, WrapHead, Types, TypeOK, InFlight
<1>3. \A q \in Requests : \A u : Left(q, u) => Left(q, u)'
  BY <1>1, <1>2 DEF Left
<1>4. \/ current' = current /\ (pc'[r] = "handling" => i.user = Nobody)
      \/ current' = i.user /\ pc'[r] = "broken"
  BY DEF Limited, Pass, PreHandle, UserContextSet, TenantContextMethods, To, WrapHead,
         Types, TypeOK
<1>5. current' # Nobody => \E q \in Requests : Left(q, current)'
  BY <1>2, <1>3, <1>4 DEF Identities, Left
<1>6. \A q \in Requests : checked'[q] # Nobody => \E p \in Requests : Left(p, checked[q])'
  BY <1>1, <1>3 DEF Identities
<1>7. \A q \in Requests : pc'[q] \in InFlight \/ answer'[q] # {} => input'[q].user = Nobody
  BY <1>1, <1>2, <1>4 DEF Identities, InFlight
<1> QED BY <1>1, <1>5, <1>6, <1>7 DEF Identities, Left

\* A step of a request in flight moves it alone, and reads the static field.
LEMMA FlightIdentities ==
  ASSUME Identities, NEW r \in Requests, pc[r] \in InFlight, UNCHANGED <<input, current>>,
         \A q \in Requests \ {r} : UNCHANGED <<pc[q], checked[q], answer[q]>>,
         checked'[r] \in {checked[r], current}
  PROVE  Identities'
<1>1. \A q \in Requests : \A u : Left(q, u) => Left(q, u)'
  BY DEF Left, InFlight
<1>2. current' # Nobody => \E q \in Requests : Left(q, current)'
  BY <1>1 DEF Identities
<1>3. \A q \in Requests : checked'[q] # Nobody =>
        \E p \in Requests : Left(p, checked'[q])
  BY DEF Identities, Left
<1>4. \A q \in Requests : checked'[q] # Nobody => \E p \in Requests : Left(p, checked[q])'
  BY <1>1, <1>3 DEF Left
<1>5. \A q \in Requests : pc'[q] \in InFlight \/ answer'[q] # {} => input'[q].user = Nobody
  BY DEF Identities
<1> QED BY <1>2, <1>4, <1>5 DEF Identities, Left

LEMMA HandlerIdentities ==
  ASSUME Types, Identities, NEW r \in Requests, Handler(r) \/ Settle(r) \/ Catch(r)
  PROVE  Identities'
<1>1. pc[r] \in InFlight /\ UNCHANGED <<input, current>>
  BY DEF Handler, Probe, CheckPermission, Found, GetBilling, Charge, Save, CheckUsers, In,
         Settle, Catch, InFlight
<1>2. \E x : pc' = [pc EXCEPT ![r] = x]
  BY DEF Handler, Probe, CheckPermission, Found, GetBilling, Charge, Save, CheckUsers,
         Settle, Catch, To
<1>3. checked' = checked \/ checked' = [checked EXCEPT ![r] = current]
  BY DEF Handler, Probe, CheckPermission, Found, GetBilling, Charge, Save, CheckUsers,
         Settle, Catch, reading
<1>4. answer' = answer \/ \E x : answer' = [answer EXCEPT ![r] = x]
  BY DEF Handler, Probe, CheckPermission, Found, GetBilling, Charge, Save, CheckUsers,
         Settle, Catch, reading
<1>5. \A q \in Requests \ {r} : UNCHANGED <<pc[q], checked[q], answer[q]>>
  BY <1>2, <1>3, <1>4 DEF Types, TypeOK, LocalsOK
<1>6. checked'[r] \in {checked[r], current}
  BY <1>3 DEF Types, LocalsOK
<1> QED BY <1>1, <1>5, <1>6, FlightIdentities

LEMMA IdleIdentities ==
  ASSUME Identities, Tick \/ UNCHANGED vars
  PROVE  Identities'
BY DEF Identities, Left, Tick, vars, limits, reading

-----------------------------------------------------------------------------
\* The static trace

LEMMA EnterAlone ==
  ASSUME Types, Journeys, AllAlone, NEW r \in Requests, NEW i \in Inputs,
         Limited(r, i) \/ Pass(r, i) \/ PreHandle(r, i)
  PROVE  AllAlone'
<1> SUFFICES ASSUME NEW q \in Requests, q \notin overlapped' PROVE Alone(q)'
  BY DEF AllAlone, Alone
<1>1. Alone(q) /\ pc[r] = "idle"
  BY DEF AllAlone, Limited, Pass, PreHandle
<1>2. CASE UNCHANGED <<trace, overlapped>> /\ pc'[r] \in {"limited", "passed", "broken"}
  <2>1. \A p \in Requests : p # r => pc'[p] = pc[p]
    BY DEF Limited, Pass, PreHandle, To, WrapHead, Types, TypeOK
  <2>2. Traced' = Traced
    BY <1>1, <1>2, <2>1 DEF Traced, InFlight
  <2> QED BY <1>1, <1>2, <2>1, <2>2 DEF Alone
<1>3. CASE WrapHead(r)
  <2>1. \A p \in Requests : p # r => pc'[p] = pc[p]
    BY <1>3 DEF To, WrapHead, Types, TypeOK
  <2>2. pc'[r] = "handling" /\ trace' = r
    BY <1>3 DEF To, WrapHead, start, Types, TypeOK
  <2>3. Traced' = Traced \cup {r}
    BY <1>1, <2>1, <2>2 DEF Traced, InFlight
  <2>4. CASE Traced = {}
    BY <1>1, <1>3, <2>1, <2>2, <2>3, <2>4 DEF Alone, WrapHead
  <2>5. CASE Traced # {}
    <3>1. q \notin Traced \cup {r} /\ q \notin overlapped
      BY <1>3, <2>5 DEF WrapHead
    <3> QED BY <1>1, <2>1, <2>3, <3>1 DEF Alone
  <2> QED BY <2>4, <2>5
<1>4. \/ UNCHANGED <<trace, overlapped>> /\ pc'[r] \in {"limited", "passed", "broken"}
      \/ WrapHead(r)
  BY DEF Limited, Pass, PreHandle, To, traced, Types, TypeOK
<1> QED BY <1>2, <1>3, <1>4

LEMMA HandlerAlone ==
  ASSUME Types, AllAlone, NEW r \in Requests, Handler(r)
  PROVE  AllAlone'
<1> SUFFICES ASSUME NEW q \in Requests PROVE Alone(q)'
  BY DEF AllAlone
<1>1. Alone(q) /\ UNCHANGED traced
  BY DEF AllAlone, Handler, Probe, CheckPermission, Found, GetBilling, Charge, Save, CheckUsers
<1>2. /\ \A p \in Requests : p # r => pc'[p] = pc[p]
      /\ pc[r] \in InFlight /\ pc'[r] \in InFlight
  BY DEF Types, TypeOK, Handler, Probe, CheckPermission, Found, GetBilling, Charge, Save,
     CheckUsers, To, In, InFlight
<1>3. Traced' = Traced
  BY <1>2 DEF Traced
<1> QED BY <1>1, <1>2, <1>3 DEF Alone, traced, InFlight

LEMMA EndAlone ==
  ASSUME Types, AllAlone, NEW r \in Requests, Settle(r) \/ Catch(r)
  PROVE  AllAlone'
<1> SUFFICES ASSUME NEW q \in Requests, q \notin overlapped PROVE Alone(q)'
  BY DEF AllAlone, Alone, Settle, Catch
<1>1. Alone(q) /\ Alone(r)
  BY DEF AllAlone
<1>2. /\ \A p \in Requests : p # r => pc'[p] = pc[p]
      /\ pc[r] \in {"handled", "threw"} /\ pc'[r] \in {"answered", "unaudited", "failed"}
      /\ pc'[r] = "unaudited" => trace = NoTrace
  BY DEF Types, TypeOK, Settle, Catch, To, TraceAtLog
<1>3. r \in Traced /\ Traced' = Traced \ {r}
  BY <1>2 DEF Traced, InFlight
<1>4. q \notin Traced'
  BY <1>1, <1>3 DEF Alone
<1>5. pc'[q] # "unaudited"
  BY <1>1, <1>2, <1>3, GatewayAssumption DEF Alone
<1> QED BY <1>4, <1>5 DEF Alone

LEMMA IdleAlone ==
  ASSUME AllAlone, Tick \/ UNCHANGED vars
  PROVE  AllAlone'
<1>1. UNCHANGED <<pc, trace, overlapped>>
  BY DEF Tick, vars, traced
<1> QED BY <1>1 DEF AllAlone, Alone, Traced

-----------------------------------------------------------------------------
\* The audit log

\* Steps that neither log nor answer leave every request's records alone.
LEMMA AuditedKept ==
  ASSUME AllAudited, UNCHANGED audit, overlapped \subseteq overlapped',
         \A q \in Requests : pc'[q] = "answered" <=> pc[q] = "answered"
  PROVE  AllAudited'
<1> SUFFICES ASSUME NEW q \in Requests PROVE Audited(q)'
  BY DEF AllAudited
<1>1. Audited(q) /\ Records(q)' = Records(q)
  BY DEF AllAudited, Records
<1> QED BY <1>1 DEF Audited

LEMMA EnterAudited ==
  ASSUME Types, AllAudited, NEW r \in Requests, NEW i \in Inputs,
         Limited(r, i) \/ Pass(r, i) \/ PreHandle(r, i)
  PROVE  AllAudited'
<1>1. UNCHANGED audit /\ overlapped \subseteq overlapped'
  BY DEF Limited, Pass, PreHandle, traced, WrapHead
<1>2. \A q \in Requests : pc'[q] = "answered" <=> pc[q] = "answered"
  BY DEF Limited, Pass, PreHandle, To, WrapHead, Types, TypeOK
<1> QED BY <1>1, <1>2, AuditedKept

LEMMA HandlerAudited ==
  ASSUME Types, AllAudited, NEW r \in Requests, Handler(r)
  PROVE  AllAudited'
<1>1. UNCHANGED traced
  BY DEF Handler, Probe, CheckPermission, Found, GetBilling, Charge, Save, CheckUsers
<1>2. \A q \in Requests : pc'[q] = "answered" <=> pc[q] = "answered"
  BY DEF Types, TypeOK, Handler, Probe, CheckPermission, Found, GetBilling, Charge, Save,
     CheckUsers, To, In
<1> QED BY <1>1, <1>2, AuditedKept DEF traced

LEMMA EndAudited ==
  ASSUME Types, AllAlone, AllAudited, NEW r \in Requests, Settle(r) \/ Catch(r)
  PROVE  AllAudited'
<1>1. CASE Settle(r) /\ trace # NoTrace
  <2>1. audit' = audit \cup {[request |-> r, trace |-> trace]} /\ pc'[r] = "answered"
    BY <1>1 DEF Settle, log, TraceAtLog, To, Types, TypeOK
  <2>2. UNCHANGED overlapped /\ trace \in Requests /\ pc[r] = "handled"
    BY <1>1 DEF Settle, Types, TypeOK
  <2>3. ASSUME NEW q \in Requests, q # r PROVE Audited(q)'
    <3>1. pc'[q] = pc[q]
      BY <1>1, <2>3 DEF Settle, To, Types, TypeOK
    <3>2. Records(q)' = Records(q)
      BY <2>1, <2>3 DEF Records
    <3> QED BY <2>2, <3>1, <3>2 DEF AllAudited, Audited
  <2>4. Audited(r)'
    <3>1. Records(r) = {}
      BY <2>2 DEF AllAudited, Audited
    <3>2. Records(r)' = {[request |-> r, trace |-> trace]}
      BY <2>1, <3>1 DEF Records
    <3>3. r \notin overlapped => trace = r
      BY <2>2 DEF AllAlone, Alone, Traced, InFlight
    <3> QED BY <2>1, <2>2, <3>2, <3>3 DEF Audited
  <2> QED BY <2>3, <2>4 DEF AllAudited
<1>2. CASE ~(Settle(r) /\ trace # NoTrace)
  <2>1. UNCHANGED <<audit, overlapped>>
    BY <1>2 DEF Settle, Catch, TraceAtLog
  <2>2. \A q \in Requests : pc'[q] = "answered" <=> pc[q] = "answered"
    BY <1>2 DEF Settle, Catch, TraceAtLog, To, Types, TypeOK
  <2> QED BY <2>1, <2>2, AuditedKept
<1> QED BY <1>1, <1>2

LEMMA IdleAudited ==
  ASSUME AllAudited, Tick \/ UNCHANGED vars
  PROVE  AllAudited'
<1>1. UNCHANGED <<pc, audit, overlapped>>
  BY DEF Tick, vars, traced
<1> QED BY <1>1, AuditedKept

-----------------------------------------------------------------------------
\* Usage

\* Only Charge changes a request count and who was charged: any other step
\* leaves the objects on record and what the charged requests asked for.
LEMMA UsageKept ==
  ASSUME UsageInv, charged' = charged,
         \A t \in Tenants : db'[t] = t /\ object'[t] = object[t],
         \A r \in charged : input'[r] = input[r]
  PROVE  UsageInv'
<1> SUFFICES ASSUME NEW t \in Tenants, t \in DOMAIN PlanOf
             PROVE  /\ object'[t] = Cardinality(ChargedTo(t)')
                    /\ object'[t] <= PLANS[PlanOf[t].plan].maxRequestsPerDay
  BY DEF UsageInv
<1>1. ChargedTo(t)' = ChargedTo(t)
  BY DEF ChargedTo
<1> QED BY <1>1 DEF UsageInv

LEMMA EnterUsage ==
  ASSUME Types, UsageInv, Journeys, NEW r \in Requests, NEW i \in Inputs,
         Limited(r, i) \/ Pass(r, i) \/ PreHandle(r, i)
  PROVE  UsageInv'
<1>1. UNCHANGED account /\ r \notin charged
  BY DEF Limited, Pass, PreHandle, Journeys, Journey
<1>2. \A q \in charged : input'[q] = input[q]
  BY <1>1 DEF Limited, Pass, PreHandle, Types, TypeOK
<1> QED BY <1>1, <1>2, UsageKept DEF account, UsageInv

LEMMA ChargeUsage ==
  ASSUME Types, UsageInv, Journeys, NEW r \in Requests, Charge(r)
  PROVE  UsageInv'
<1>1. /\ UNCHANGED <<input, db>> /\ pc[r] = "billed" /\ r \notin charged
      /\ billing[r] = input[r].tenant /\ input[r].tenant \in DOMAIN PlanOf
  BY DEF Charge, In, Journeys, Journey
<1> DEFINE m == input[r].tenant
<1>2. m \in Tenants /\ object[m] \in Nat /\ object \in [Tenants \cup Requests -> Nat]
  BY <1>1, GatewayAssumption DEF Types, TypeOK
<1>3. CASE ~checkRequestLimit(m, object[m])
  BY <1>1, <1>3, UsageKept DEF Charge, UsageInv
<1>4. CASE checkRequestLimit(m, object[m])
  <2>1. /\ object' = [object EXCEPT ![m] = object[m] + 1]
        /\ charged' = charged \cup {r}
    BY <1>1, <1>4 DEF Charge
  <2> SUFFICES ASSUME NEW t \in Tenants, t \in DOMAIN PlanOf
               PROVE  /\ object'[t] = Cardinality(ChargedTo(t)')
                      /\ object'[t] <= PLANS[PlanOf[t].plan].maxRequestsPerDay
    BY <1>1 DEF UsageInv
  <2>2. CASE t # m
    <3>1. ChargedTo(t)' = ChargedTo(t)
      BY <1>1, <2>1, <2>2 DEF ChargedTo
    <3> QED BY <1>2, <2>1, <2>2, <3>1 DEF UsageInv
  <2>3. CASE t = m
    <3>1. ChargedTo(t)' = ChargedTo(t) \cup {r} /\ r \notin ChargedTo(t)
      BY <1>1, <2>1, <2>3 DEF ChargedTo
    <3>2. IsFiniteSet(ChargedTo(t))
      BY FS_Subset, GatewayAssumption DEF ChargedTo, Types, TypeOK
    <3>3. Cardinality(ChargedTo(t)') = Cardinality(ChargedTo(t)) + 1
      BY <3>1, <3>2, FS_AddElement
    <3>4. PLANS[PlanOf[t].plan].maxRequestsPerDay \in Nat
      BY GatewayAssumption
    <3> HIDE DEF m
    <3> QED BY <1>2, <1>4, <2>1, <2>3, <3>3, <3>4 DEF UsageInv, checkRequestLimit
  <2> QED BY <2>2, <2>3
<1> QED BY <1>3, <1>4

LEMMA HandlerUsage ==
  ASSUME Types, UsageInv, Journeys, NEW r \in Requests, Handler(r)
  PROVE  UsageInv'
<1>1. UNCHANGED input
  BY DEF Handler, Probe, CheckPermission, Found, GetBilling, Charge, Save, CheckUsers
<1>2. CASE UNCHANGED account
  BY <1>1, <1>2, UsageKept DEF account, UsageInv
<1>3. CASE GetBilling(r)
  <2>1. input[r].tenant \in Tenants
    BY <1>3, InputFields DEF Journeys, Journey, GetBilling, In
  <2> QED BY <1>1, <1>3, <2>1, UsageKept DEF GetBilling, HandedOut, UsageInv, Types, TypeOK
<1>4. CASE Save(r)
  <2>1. UNCHANGED <<object, charged>> /\ db' = [db EXCEPT ![input[r].tenant] = input[r].tenant]
    BY <1>4 DEF Save, Journeys, Journey
  <2> QED BY <1>1, <2>1, UsageKept DEF UsageInv, Types, TypeOK
<1> QED BY <1>2, <1>3, <1>4, ChargeUsage
        DEF Handler, Probe, CheckPermission, Found, CheckUsers

LEMMA EndUsage ==
  ASSUME UsageInv, UNCHANGED <<input, account>>
  PROVE  UsageInv'
BY UsageKept DEF account, UsageInv

-----------------------------------------------------------------------------
\* The inductive invariant: where every request is and what it has been through,
\* its records, the static trace, and the objects on record.
THEOREM GatewayInvariant == Spec => []GatewayInv
<1>1. Init => GatewayInv
  <2> SUFFICES ASSUME Init PROVE GatewayInv
    OBVIOUS
  <2>1. Types
    BY GatewayAssumption DEF Init, Types, TypeOK, LocalsOK, Entry, InFlight
  <2>2. UsageInv
    <3>1. \A t \in Tenants : ChargedTo(t) = {}
      BY DEF Init, ChargedTo
    <3>2. \A t \in Tenants : Cardinality(ChargedTo(t)) = 0
      BY <3>1, FS_EmptySet
    <3>3. \A t \in Tenants : db[t] = t /\ object[t] = 0
      BY DEF Init
    <3> QED BY <3>2, <3>3, GatewayAssumption DEF UsageInv
  <2>3. Journeys
    BY DEF Init, Journeys, Journey
  <2>4. AllAudited
    BY DEF Init, AllAudited, Audited, Records
  <2>5. AllAlone
    BY DEF Init, AllAlone, Alone, Traced, InFlight
  <2>6. Identities
    BY DEF Init, Identities, InFlight
  <2> QED BY <2>1, <2>2, <2>3, <2>4, <2>5, <2>6 DEF GatewayInv
<1>2. GatewayInv /\ [Next]_vars => GatewayInv'
  <2> SUFFICES ASSUME GatewayInv, [Next]_vars PROVE GatewayInv'
    OBVIOUS
  <2>1. ASSUME NEW r \in Requests, NEW i \in Inputs,
               Limited(r, i) \/ Pass(r, i) \/ PreHandle(r, i)
        PROVE  GatewayInv'
    BY <2>1, EnterTypes, EnterUsage, EnterJourneys, EnterIdentities, EnterAudited,
       EnterAlone DEF GatewayInv
  <2>2. ASSUME NEW r \in Requests, Handler(r)
        PROVE  GatewayInv'
    BY <2>2, HandlerTypes, HandlerUsage, HandlerJourneys, HandlerIdentities,
       HandlerAudited, HandlerAlone DEF GatewayInv
  <2>3. ASSUME NEW r \in Requests, Settle(r) \/ Catch(r)
        PROVE  GatewayInv'
    <3>1. UNCHANGED <<input, account>>
      BY <2>3 DEF Settle, Catch
    <3> QED BY <2>3, <3>1, EndTypes, EndUsage, EndJourneys, HandlerIdentities, EndAudited,
               EndAlone DEF GatewayInv
  <2>4. CASE Tick \/ UNCHANGED vars
    <3>1. UNCHANGED <<input, account>>
      BY <2>4 DEF Tick, vars
    <3> QED BY <2>4, <3>1, IdleTypes, EndUsage, IdleJourneys, IdleIdentities, IdleAudited,
               IdleAlone DEF GatewayInv
  <2> QED BY <2>1, <2>2, <2>3, <2>4 DEF Next
<1> QED BY <1>1, <1>2, PTL DEF Spec

\* Every variable keeps its type; in particular the limiter's counts stay at
\* Limit + 1 or below, however many requests of an address it turns away.
THEOREM GatewayTypes == Spec => []TypeOK
<1>1. GatewayInv => TypeOK
  BY DEF GatewayInv, Types
<1> QED BY <1>1, GatewayInvariant, PTL

\* A request that succeeded is in the audit log once, under its own trace, unless
\* it was traced while another one was.
THEOREM AuditHolds == Spec => []AuditedUnlessOverlapped
<1>1. GatewayInv => AuditedUnlessOverlapped
  <2> SUFFICES ASSUME GatewayInv PROVE AuditedUnlessOverlapped
    OBVIOUS
  <2>1. \A r \in Requests \ overlapped : pc[r] # "unaudited"
    BY DEF GatewayInv, AllAlone, Alone
  <2>2. ASSUME NEW x \in audit, x.request \notin overlapped PROVE x.trace = x.request
    <3>1. x.request \in Requests /\ x \in Records(x.request)
      BY DEF GatewayInv, Types, TypeOK, AuditEvent, Records
    <3> QED BY <2>2, <3>1 DEF GatewayInv, AllAudited, Audited
  <2>3. ASSUME NEW r \in Requests
        PROVE  pc[r] = "answered" <=> Cardinality({x \in audit : x.request = r}) = 1
    <3>1. Audited(r) /\ Records(r) = {x \in audit : x.request = r}
      BY DEF GatewayInv, AllAudited, Records
    <3>2. CASE pc[r] = "answered"
      BY <3>1, <3>2, FS_Singleton DEF Audited
    <3>3. CASE pc[r] # "answered"
      BY <3>1, <3>3, FS_EmptySet DEF Audited
    <3> QED BY <3>2, <3>3
  <2> QED BY <2>1, <2>2, <2>3 DEF AuditedUnlessOverlapped
<1> QED BY <1>1, GatewayInvariant, PTL

\* What an agreement handler answers, it answers to a request without a user and
\* under one identity, which one earlier request left.
THEOREM OneIdentityAnswers == Spec => []AnswersFollowOneIdentity
<1>1. GatewayInv => AnswersFollowOneIdentity
  <2> SUFFICES ASSUME GatewayInv, NEW r \in Requests, NEW t \in answer[r]
               PROVE  /\ input[r].user = Nobody
                      /\ \E q \in Requests : pc[q] = "broken" /\ input[q].user = checked[r]
                                             /\ t = input[q].user.tenant
    BY DEF AnswersFollowOneIdentity
  <2>1. checked[r] # Nobody /\ t = checked[r].tenant
    BY DEF GatewayInv, Journeys, Journey
  <2>2. input[r].user = Nobody /\ \E q \in Requests : Left(q, checked[r])
    BY <2>1 DEF GatewayInv, Identities
  <2> QED BY <2>1, <2>2 DEF Left
<1> QED BY <1>1, GatewayInvariant, PTL

\* Usage on record counts the requests let through billing, within the plan.
THEOREM UsageExact == Spec => []UsageCountsCharges
<1>1. GatewayInv => UsageCountsCharges
  BY GatewayAssumption DEF GatewayInv, UsageInv, UsageCountsCharges
<1> QED BY <1>1, GatewayInvariant, PTL

-----------------------------------------------------------------------------
\* The limiter

\* The requests of an address that were let in at some times.
Among(when, what, a, times) ==
  {r \in Requests : when[r] # NoTime /\ what[r].ip = a /\ when[r] \in times}
LetInDuring(a, times) == Among(admitted, input, a, times)

\* The window that is open at an address, or was last: it opened with a request
\* let in; no later one was let in after its end, and no more than it counted,
\* or than Limit, since it opened; and fewer than Limit in the time of a window
\* before it, for the window before opened with a request too early for that.
WindowOf(a) ==
  IF store[a] = NoEntry
  THEN \A r \in Requests : admitted[r] # NoTime => input[r].ip # a
  ELSE LET e == store[a]
           opened == e.resetAt - Window IN
       /\ opened \in 0 .. now
       /\ \E r \in LetInDuring(a, {opened}) : TRUE
       /\ \A r \in Requests : admitted[r] # NoTime /\ input[r].ip = a => admitted[r] <= e.resetAt
       /\ Cardinality(LetInDuring(a, opened .. e.resetAt)) <= Limit
       /\ Cardinality(LetInDuring(a, opened .. e.resetAt)) <= e.count
       /\ Cardinality(LetInDuring(a, opened - Window .. opened - 1)) <= Limit - 1
WindowsInv == \A a \in Addresses : WindowOf(a)
NoneFromTheFuture == \A r \in Requests : admitted[r] # NoTime => admitted[r] <= now

LEMMA LetInFinite ==
  ASSUME NEW a, NEW times, NEW S \in SUBSET LetInDuring(a, times)
  PROVE  /\ IsFiniteSet(LetInDuring(a, times)) /\ IsFiniteSet(S)
         /\ Cardinality(S) <= Cardinality(LetInDuring(a, times))
         /\ Cardinality(S) \in Nat /\ Cardinality(LetInDuring(a, times)) \in Nat
<1>1. IsFiniteSet(LetInDuring(a, times))
  BY FS_Subset, GatewayAssumption DEF LetInDuring, Among
<1>2. IsFiniteSet(S) /\ Cardinality(S) <= Cardinality(LetInDuring(a, times))
  BY <1>1, FS_Subset
<1> QED BY <1>1, <1>2, FS_CardinalityType

\* A step that lets nobody in, and leaves the limiter's entries but for a higher
\* count of one, keeps every window.
LEMMA WindowsKept ==
  ASSUME Types, WindowsInv, NoneFromTheFuture, AdmissionsBounded,
         now' \in Nat, now' >= now, admitted' = admitted,
         \A r \in Requests : admitted[r] # NoTime => input'[r] = input[r],
         \A a \in Addresses :
           \/ store'[a] = store[a]
           \/ /\ store[a] # NoEntry /\ store'[a] # NoEntry
              /\ store'[a].resetAt = store[a].resetAt
              /\ store'[a].count \in Nat /\ store'[a].count >= store[a].count
  PROVE  WindowsInv' /\ NoneFromTheFuture' /\ AdmissionsBounded'
<1>1. \A a, times : LetInDuring(a, times)' = LetInDuring(a, times)
  BY DEF LetInDuring, Among
<1>2. NoneFromTheFuture'
  BY DEF NoneFromTheFuture, Types, TypeOK
<1>3. AdmissionsBounded'
  <2>1. \A a, t : AdmittedIn(a, t)' = AdmittedIn(a, t)
    BY DEF AdmittedIn
  <2> QED BY <2>1 DEF AdmissionsBounded
<1>4. ASSUME NEW a \in Addresses PROVE WindowOf(a)'
  <2>1. WindowOf(a)
    BY DEF WindowsInv
  <2>2. \A r \in Requests : admitted[r] # NoTime => input'[r].ip = input[r].ip
    OBVIOUS
  <2>3. CASE store[a] = NoEntry
    BY <2>1, <2>2, <2>3 DEF WindowOf
  <2>4. CASE store[a] # NoEntry
    <3> DEFINE w == store[a].resetAt
               C == Cardinality(LetInDuring(a, w - Window .. w))
    <3>1. w \in Nat /\ store[a].count \in Nat /\ Window \in Nat /\ now \in Nat
      BY <2>4, GatewayAssumption DEF Types, TypeOK, Entry
    <3>2. /\ store'[a] # NoEntry /\ store'[a].resetAt = w
          /\ store'[a].count \in Nat /\ store'[a].count >= store[a].count
      BY <2>4, <3>1
    <3>3. C \in Nat /\ C <= store'[a].count
      <4>1. C \in Nat
        BY LetInFinite
      <4>2. C <= store[a].count
        BY <2>1, <2>4 DEF WindowOf
      <4> HIDE DEF C, w
      <4> QED BY <3>1, <3>2, <4>1, <4>2
    <3>4. w - Window \in 0 .. now'
      BY <2>1, <2>4, <3>1 DEF WindowOf
    <3>5. /\ \A q \in Requests : admitted'[q] # NoTime /\ input'[q].ip = a => admitted'[q] <= w
          /\ \E q \in LetInDuring(a, {w - Window})' : TRUE
      BY <1>1, <2>1, <2>2, <2>4 DEF WindowOf
    <3>6. /\ Cardinality(LetInDuring(a, w - Window .. w)') <= Limit
          /\ Cardinality(LetInDuring(a, w - Window - Window .. w - Window - 1)') <= Limit - 1
      BY <1>1, <2>1, <2>4 DEF WindowOf
    <3>7. Cardinality(LetInDuring(a, w - Window .. w)') <= store'[a].count
      BY <1>1, <3>3
    <3> QED BY <3>2, <3>4, <3>5, <3>6, <3>7 DEF WindowOf
  <2> QED BY <2>3, <2>4
<1> QED BY <1>2, <1>3, <1>4 DEF WindowsInv

\* A request is let in: its address's window counts it or opens anew.
LEMMA WindowsLetIn ==
  ASSUME Types, WindowsInv, NoneFromTheFuture, AdmissionsBounded,
         NEW r \in Requests, NEW a \in Addresses,
         admitted[r] = NoTime, LetIn(store[a]), now' = now,
         store' = [store EXCEPT ![a] = Counted(store[a])],
         admitted' = [admitted EXCEPT ![r] = now],
         input'[r].ip = a, \A q \in Requests : q # r => input'[q] = input[q]
  PROVE  WindowsInv' /\ NoneFromTheFuture' /\ AdmissionsBounded'
<1> DEFINE After(b, times) == Among(admitted', input', b, times)
<1>1. /\ Limit \in Nat \ {0} /\ Window \in Nat /\ now \in Nat /\ MaxTime \in Nat
      /\ NoTime \notin Nat /\ now # NoTime
      /\ store[a] \in Entry /\ store \in [Addresses -> Entry]
      /\ \A q \in Requests : admitted[q] # NoTime => admitted[q] \in 0 .. now
      /\ admitted \in [Requests -> 0 .. MaxTime \cup {NoTime}]
  BY GatewayAssumption DEF Types, TypeOK, NoneFromTheFuture
<1>2. ASSUME NEW b, NEW times, b # a \/ now \notin times
      PROVE  After(b, times) = LetInDuring(b, times)
  BY <1>1, <1>2 DEF LetInDuring, Among
<1>3. ASSUME NEW times, now \in times
      PROVE  /\ After(a, times) = LetInDuring(a, times) \cup {r}
             /\ Cardinality(After(a, times)) = Cardinality(LetInDuring(a, times)) + 1
  <2>1. /\ After(a, times) = LetInDuring(a, times) \cup {r}
        /\ r \notin LetInDuring(a, times)
    BY <1>1, <1>3 DEF LetInDuring, Among
  <2> QED BY <2>1, LetInFinite, FS_AddElement
<1> HIDE DEF After, Among
<1>4. NoneFromTheFuture'
  BY <1>1 DEF NoneFromTheFuture
<1>5. ASSUME NEW b \in Addresses, b # a PROVE WindowOf(b)'
  <2>1. WindowOf(b) /\ store'[b] = store[b]
    BY <1>1, <1>5 DEF WindowsInv
  <2>2. \A q \in Requests : admitted'[q] # NoTime /\ input'[q].ip = b =>
          admitted[q] # NoTime /\ input[q].ip = b /\ admitted'[q] = admitted[q]
    BY <1>1, <1>5
  <2>3. \A times : After(b, times) = LetInDuring(b, times)
    BY <1>2, <1>5
  <2> QED BY <2>1, <2>2, <2>3 DEF WindowOf, LetInDuring, After
<1>6. /\ store'[a] # NoEntry /\ store'[a].resetAt \in Nat /\ now <= store'[a].resetAt
      /\ WindowOf(a)'
  <2>1. WindowOf(a)
    BY DEF WindowsInv
  <2>2. CASE Expired(store[a])
    <3>1. store'[a] = [count |-> 1, resetAt |-> now + Window]
      BY <1>1, <2>2 DEF Counted
    <3>2. store'[a] # NoEntry /\ store'[a].resetAt = now + Window /\ store'[a].count = 1
      BY <1>1, <3>1, GatewayAssumption
    <3>3. /\ LetInDuring(a, now .. now + Window) = {}
          /\ Cardinality(LetInDuring(a, now - Window .. now - 1)) <= Limit - 1
      <4>1. CASE store[a] = NoEntry
        <5>1. \A times : LetInDuring(a, times) = {}
          BY <2>1, <4>1 DEF WindowOf, LetInDuring, Among
        <5>2. /\ LetInDuring(a, now .. now + Window) = {}
              /\ LetInDuring(a, now - Window .. now - 1) = {}
          BY <5>1
        <5>3. Cardinality(LetInDuring(a, now - Window .. now - 1)) = 0
          BY <5>2, FS_EmptySet
        <5> QED BY <1>1, <5>2, <5>3
      <4>2. CASE store[a] # NoEntry
        <5> DEFINE w == store[a].resetAt
                   Old == LetInDuring(a, w - Window .. w)
                   Recent == LetInDuring(a, now - Window .. now - 1)
        <5>1. w \in Nat /\ now > w
          BY <1>1, <2>2, <4>2 DEF Entry, Expired
        <5>2. /\ \A q \in Requests : admitted[q] # NoTime /\ input[q].ip = a => admitted[q] <= w
              /\ Cardinality(Old) <= Limit
          BY <2>1, <4>2 DEF WindowOf
        <5>3. LetInDuring(a, now .. now + Window) = {}
          BY <1>1, <5>1, <5>2 DEF LetInDuring, Among
        <5>4. PICK q \in LetInDuring(a, {w - Window}) : TRUE
          BY <2>1, <4>2 DEF WindowOf
        <5>5. q \in Old /\ Recent \subseteq Old \ {q}
          BY <1>1, <5>1, <5>2, <5>4 DEF LetInDuring, Among
        <5>6. IsFiniteSet(Old) /\ Cardinality(Old) \in Nat
          BY LetInFinite
        <5> HIDE DEF Old, Recent
        <5>7. /\ IsFiniteSet(Old \ {q})
              /\ Cardinality(Old \ {q}) = Cardinality(Old) - 1
          BY <5>5, <5>6, FS_RemoveElement
        <5>8. Cardinality(Recent) <= Cardinality(Old \ {q})
          BY <5>5, <5>7, FS_Subset
        <5>9. IsFiniteSet(Recent) /\ Cardinality(Recent) \in Nat
          BY <5>5, <5>7, FS_Subset, FS_CardinalityType
        <5>10. Cardinality(Recent) <= Limit - 1
          BY <1>1, <5>2, <5>6, <5>7, <5>8, <5>9
        <5> QED BY <5>3, <5>10 DEF Recent
      <4> QED BY <4>1, <4>2
    <3>4. r \in After(a, {now})
      BY <1>1, <1>3
    <3>5. \A q \in Requests : admitted'[q] # NoTime => admitted'[q] <= now + Window
      BY <1>1
    <3>6. Cardinality(After(a, now .. now + Window)) = 1
      <4>1. now \in now .. now + Window
        BY <1>1
      <4>2. Cardinality(LetInDuring(a, now .. now + Window)) = 0
        BY <3>3, FS_EmptySet
      <4>3. Cardinality(After(a, now .. now + Window))
              = Cardinality(LetInDuring(a, now .. now + Window)) + 1
        BY <1>3, <4>1
      <4> QED BY <4>2, <4>3
    <3>7. After(a, now - Window .. now - 1) = LetInDuring(a, now - Window .. now - 1)
      BY <1>1, <1>2
    <3>8. store'[a].resetAt - Window = now
      BY <1>1, <3>2
    <3> DEFINE w == store'[a].resetAt
    <3>9. /\ w - Window \in 0 .. now'
          /\ r \in After(a, {w - Window})
          /\ Cardinality(After(a, w - Window .. w)) = 1
          /\ Cardinality(After(a, w - Window - Window .. w - Window - 1)) <= Limit - 1
      <4>1. w - Window = now /\ w = now + Window /\ now \in 0 .. now'
        BY <1>1, <3>2
      <4> HIDE DEF w
      <4> QED BY <3>3, <3>4, <3>6, <3>7, <4>1
    <3>10. WindowOf(a)'
      BY <1>1, <3>2, <3>5, <3>9 DEF WindowOf, LetInDuring, After
    <3> QED BY <1>1, <3>2, <3>10
  <2>3. CASE ~Expired(store[a])
    <3> DEFINE w == store[a].resetAt
               n == store[a].count
    <3>1. /\ store[a] # NoEntry /\ w \in Nat /\ n \in Nat /\ now <= w /\ n < Limit
      BY <1>1, <2>3 DEF Entry, Expired, LetIn
    <3>2. store'[a] # NoEntry /\ store'[a].resetAt = w /\ store'[a].count = n + 1
      BY <1>1, <2>3, <3>1, GatewayAssumption DEF Counted, Entry
    <3>3. /\ w - Window \in 0 .. now
          /\ \E q \in LetInDuring(a, {w - Window}) : TRUE
          /\ \A q \in Requests : admitted[q] # NoTime /\ input[q].ip = a => admitted[q] <= w
          /\ Cardinality(LetInDuring(a, w - Window .. w)) <= n
          /\ Cardinality(LetInDuring(a, w - Window - Window .. w - Window - 1)) <= Limit - 1
      BY <2>1, <3>1 DEF WindowOf
    <3>4. Cardinality(LetInDuring(a, w - Window .. w)) \in Nat
      BY LetInFinite
    <3>5. now \in w - Window .. w
      BY <1>1, <3>1, <3>3
    <3>6. Cardinality(After(a, w - Window .. w))
            = Cardinality(LetInDuring(a, w - Window .. w)) + 1
      BY <1>3, <3>5
    <3>7. now \notin w - Window - Window .. w - Window - 1
      BY <1>1, <3>1, <3>3
    <3>8. After(a, w - Window - Window .. w - Window - 1)
            = LetInDuring(a, w - Window - Window .. w - Window - 1)
      BY <1>2, <3>7
    <3>9. \E q \in After(a, {w - Window}) : TRUE
      BY <1>2, <1>3, <3>3
    <3>10. \A q \in Requests : admitted'[q] # NoTime /\ input'[q].ip = a => admitted'[q] <= w
      BY <1>1, <3>1, <3>3
    <3> HIDE DEF w, n
    <3>11. /\ w - Window \in 0 .. now'
           /\ Cardinality(After(a, w - Window .. w)) <= Limit
           /\ Cardinality(After(a, w - Window .. w)) <= n + 1
           /\ Cardinality(After(a, w - Window - Window .. w - Window - 1)) <= Limit - 1
      BY <1>1, <3>1, <3>3, <3>4, <3>6, <3>8
    <3>12. WindowOf(a)'
      BY <3>2, <3>9, <3>10, <3>11 DEF WindowOf, LetInDuring, After
    <3> QED BY <1>1, <3>1, <3>2, <3>12
  <2> QED BY <2>2, <2>3
<1>7. ASSUME NEW b \in Addresses, NEW t \in 0 .. MaxTime
      PROVE  Cardinality(AdmittedIn(b, t)') <= 2 * Limit - 1
  <2>1. AdmittedIn(b, t) = LetInDuring(b, t .. t + Window)
    BY DEF AdmittedIn, LetInDuring, Among
  <2>2. AdmittedIn(b, t)' = After(b, t .. t + Window)
    BY DEF AdmittedIn, After, Among
  <2>3. CASE b # a \/ now \notin t .. t + Window
    BY <1>2, <2>1, <2>2, <2>3 DEF AdmissionsBounded
  <2>4. CASE b = a /\ now \in t .. t + Window
    <3> DEFINE w == store'[a].resetAt
               Before == After(a, w - Window - Window .. w - Window - 1)
               Since == After(a, w - Window .. w)
    <3>1. /\ w \in Nat /\ w - Window <= now
          /\ Cardinality(Before) <= Limit - 1 /\ Cardinality(Since) <= Limit
          /\ \A q \in Requests : admitted'[q] # NoTime /\ input'[q].ip = a => admitted'[q] <= w
      BY <1>1, <1>6 DEF WindowOf, LetInDuring, After
    <3>2. AdmittedIn(a, t)' \subseteq Before \cup Since
      <4> SUFFICES ASSUME NEW q \in AdmittedIn(a, t)' PROVE q \in Before \cup Since
        OBVIOUS
      <4>1. /\ q \in Requests /\ admitted'[q] # NoTime /\ input'[q].ip = a
            /\ admitted'[q] \in t .. t + Window /\ admitted'[q] <= w
        BY <3>1 DEF AdmittedIn
      <4>2. admitted'[q] \in w - Window - Window .. w - Window - 1 \/ admitted'[q] \in w - Window .. w
        BY <1>1, <2>4, <3>1, <4>1
      <4> QED BY <4>1, <4>2 DEF After, Among
    <3>3. IsFiniteSet(Before) /\ IsFiniteSet(Since)
      BY FS_Subset, GatewayAssumption DEF After, Among
    <3> HIDE DEF Before, Since
    <3>4. /\ IsFiniteSet(Before \cup Since)
          /\ Cardinality(Before \cup Since)
               = Cardinality(Before) + Cardinality(Since) - Cardinality(Before \cap Since)
      BY <3>3, FS_Union
    <3>5. /\ Cardinality(Before) \in Nat /\ Cardinality(Since) \in Nat
          /\ Cardinality(Before \cap Since) \in Nat
      BY <3>3, FS_Intersection, FS_CardinalityType
    <3>6. /\ Cardinality(AdmittedIn(a, t)') <= Cardinality(Before \cup Since)
          /\ Cardinality(AdmittedIn(a, t)') \in Nat
      BY <3>2, <3>4, FS_Subset, FS_CardinalityType
    <3> QED BY <1>1, <2>4, <3>1, <3>4, <3>5, <3>6
  <2> QED BY <2>3, <2>4
<1>8. AdmissionsBounded'
  BY <1>7 DEF AdmissionsBounded
<1> QED BY <1>4, <1>5, <1>6, <1>8 DEF WindowsInv

LEMMA EnterWindows ==
  ASSUME GatewayInv, WindowsInv, NoneFromTheFuture, AdmissionsBounded,
         NEW r \in Requests, NEW i \in Inputs,
         Limited(r, i) \/ Pass(r, i) \/ PreHandle(r, i)
  PROVE  WindowsInv' /\ NoneFromTheFuture' /\ AdmissionsBounded'
<1>1. /\ Types /\ admitted[r] = NoTime /\ i.ip \in Addresses /\ now \in Nat /\ now' = now
      /\ store \in [Addresses -> Entry] /\ limiter \in {"guard", "hook"}
      /\ input'[r] = i /\ \A q \in Requests : q # r => input'[q] = input[q]
  BY InputFields, GatewayAssumption
     DEF GatewayInv, Types, TypeOK, Journeys, Journey, Limited, Pass, PreHandle
<1>2. CASE admitted' = admitted
  <2>1. \A q \in Requests : admitted[q] # NoTime => input'[q] = input[q]
    BY <1>1
  <2>2. CASE store' = store
    BY <1>1, <1>2, <2>1, <2>2, WindowsKept
  <2>3. CASE store' # store
    <3>1. store' = [store EXCEPT ![i.ip] = Counted(store[i.ip])] /\ ~LetIn(store[i.ip])
      <4>1. ~Pass(r, i) /\ ~PreHandle(r, i)
        BY <1>1, <1>2, <2>3, GatewayAssumption DEF Pass, PreHandle, Types, TypeOK
      <4> QED BY <4>1 DEF Limited
    <3>2. /\ store[i.ip] # NoEntry /\ store'[i.ip] # NoEntry
          /\ store'[i.ip].resetAt = store[i.ip].resetAt
          /\ store'[i.ip].count \in Nat /\ store'[i.ip].count >= store[i.ip].count
      <4>1. store[i.ip] # NoEntry /\ ~Expired(store[i.ip])
        BY <3>1 DEF LetIn, Expired
      <4>2. store[i.ip] \in [count : 1 .. Limit + 1, resetAt : Nat]
        BY <1>1, <4>1 DEF Entry
      <4>3. Counted(store[i.ip]) \in [count : 1 .. Limit + 1, resetAt : Nat]
        BY <1>1, <4>1, <4>2, GatewayAssumption DEF Counted
      <4> QED BY <1>1, <3>1, <4>1, <4>2, <4>3, GatewayAssumption DEF Counted
    <3>3. \A a \in Addresses : a # i.ip => store'[a] = store[a]
      BY <1>1, <3>1
    <3>4. \A a \in Addresses :
            \/ store'[a] = store[a]
            \/ /\ store[a] # NoEntry /\ store'[a] # NoEntry
               /\ store'[a].resetAt = store[a].resetAt
               /\ store'[a].count \in Nat /\ store'[a].count >= store[a].count
      BY <3>2, <3>3
    <3> QED BY <1>1, <1>2, <2>1, <3>4, WindowsKept
  <2> QED BY <2>2, <2>3
<1>3. CASE admitted' # admitted
  <2>1. /\ LetIn(store[i.ip])
        /\ store' = [store EXCEPT ![i.ip] = Counted(store[i.ip])]
        /\ admitted' = [admitted EXCEPT ![r] = now]
    BY <1>3 DEF Limited, Pass, PreHandle
  <2> QED BY <1>1, <2>1, WindowsLetIn
<1> QED BY <1>2, <1>3

LEMMA OtherWindows ==
  ASSUME GatewayInv, WindowsInv, NoneFromTheFuture, AdmissionsBounded,
         UNCHANGED <<store, input, admitted>>, now' \in {now, now + 1}
  PROVE  WindowsInv' /\ NoneFromTheFuture' /\ AdmissionsBounded'
<1>1. Types /\ now \in Nat
  BY GatewayAssumption DEF GatewayInv, Types, TypeOK
<1> QED BY <1>1, WindowsKept

\* However the requests of an address fall around a reset, fewer than twice the
\* limit are let in during any stretch of time as long as a window.
THEOREM AdmissionsHold == Spec => []AdmissionsBounded
<1> DEFINE Inv == GatewayInv /\ WindowsInv /\ NoneFromTheFuture /\ AdmissionsBounded
<1>1. Init /\ GatewayInv => Inv
  <2> SUFFICES ASSUME Init, GatewayInv PROVE Inv
    OBVIOUS
  <2>1. WindowsInv /\ NoneFromTheFuture
    BY DEF Init, WindowsInv, WindowOf, NoneFromTheFuture
  <2>2. \A a, t : AdmittedIn(a, t) = {}
    BY DEF Init, AdmittedIn
  <2>3. \A a, t : Cardinality(AdmittedIn(a, t)) = 0
    BY <2>2, FS_EmptySet
  <2> QED BY <2>1, <2>3, GatewayAssumption DEF AdmissionsBounded
<1>2. Inv /\ [Next]_vars /\ GatewayInv' => Inv'
  <2> SUFFICES ASSUME Inv, [Next]_vars PROVE (WindowsInv /\ NoneFromTheFuture /\ AdmissionsBounded)'
    OBVIOUS
  <2>1. ASSUME NEW r \in Requests, NEW i \in Inputs,
               Limited(r, i) \/ Pass(r, i) \/ PreHandle(r, i)
        PROVE  (WindowsInv /\ NoneFromTheFuture /\ AdmissionsBounded)'
    BY <2>1, EnterWindows
  <2>2. ASSUME NEW r \in Requests, Handler(r) \/ Settle(r) \/ Catch(r)
        PROVE  UNCHANGED <<store, input, admitted, now>>
    BY <2>2 DEF Handler, Probe, CheckPermission, Found, GetBilling, Charge, Save, CheckUsers,
       Settle, Catch, limits
  <2>3. CASE Tick \/ UNCHANGED vars
    BY <2>3, OtherWindows DEF Tick, vars, limits
  <2> QED BY <2>1, <2>2, <2>3, OtherWindows DEF Next
<1>3. Inv => AdmissionsBounded
  OBVIOUS
<1> HIDE DEF Inv
<1> QED BY <1>1, <1>2, <1>3, GatewayInvariant, PTL DEF Spec

-----------------------------------------------------------------------------
\* The circuit breakers.

\* The types and the agreement of count and state carry each other: an OPEN
\* circuit turns HALF_OPEN only where there is a timeout.
BreakerInv == BreakersTypeOK /\ CountMatchesState

LEMMA AdmitBreakerInv ==
  ASSUME BreakerInv, NEW c \in Callers, Admit(c)
  PROVE  BreakerInv'
<1>1. BreakersTypeOK'
  BY BreakerAssumption DEF BreakerInv, BreakersTypeOK, Admit,
     PcValues
<1>2. CountMatchesState'
  BY BreakerAssumption DEF BreakerInv, BreakersTypeOK, CountMatchesState,
     Admit
<1> QED BY <1>1, <1>2 DEF BreakerInv

LEMMA AttemptBreakerInv ==
  ASSUME BreakerInv, NEW c \in Callers,
         AttemptSucceeds(c) \/ AttemptFails(c) \/ BackoffEnds(c)
  PROVE  BreakerInv'
<1>1. CountMatchesState'
  BY DEF BreakerInv, CountMatchesState, AttemptSucceeds,
     AttemptFails, BackoffEnds
<1>2. BreakersTypeOK'
  <2>1. CASE AttemptSucceeds(c)
    BY <2>1, BreakerAssumption DEF BreakerInv, BreakersTypeOK,
       AttemptSucceeds, PcValues
  <2>2. CASE AttemptFails(c)
    BY <2>2, BreakerAssumption DEF BreakerInv, BreakersTypeOK, AttemptFails,
       PcValues, UpTo
  <2>3. CASE BackoffEnds(c)
    <3>1. attempt' \in [Callers -> 1 .. Attempts]
      BY <2>3, BreakerAssumption DEF BreakerInv, BreakersTypeOK, BackoffEnds,
         TriesLeft
    <3>2. at' \in [Callers -> PcValues]
      BY <2>3 DEF BreakerInv, BreakersTypeOK, BackoffEnds, PcValues
    <3> QED BY <2>3, <3>1, <3>2 DEF BreakerInv, BreakersTypeOK, BackoffEnds
  <2> QED BY <2>1, <2>2, <2>3
<1> QED BY <1>1, <1>2 DEF BreakerInv

LEMMA ResetBreakerInv ==
  ASSUME BreakerInv, NEW c \in Callers, Reset(c)
  PROVE  BreakerInv'
<1>1. BreakersTypeOK'
  BY BreakerAssumption DEF BreakerInv, BreakersTypeOK, Reset,
     StateAfterSuccess, PcValues
<1>2. CountMatchesState'
  BY BreakerAssumption
     DEF BreakerInv, BreakersTypeOK, CountMatchesState, Reset,
        StateAfterSuccess
<1> QED BY <1>1, <1>2 DEF BreakerInv

\* The one step that counts: a failure that reaches the threshold opens the
\* circuit, and one that does not leaves the state as it was.
LEMMA RecordFailureBreakerInv ==
  ASSUME BreakerInv, NEW c \in Callers, RecordFailure(c)
  PROVE  BreakerInv'
<1>1. /\ failures \in 0 .. Threshold + 1 /\ Threshold \in Nat \ {0}
      /\ kind \in Kinds
      /\ kind' = kind /\ failures' = UpTo(Threshold + 1, failures + 1)
      /\ state' = IF TooMany(failures + 1) THEN "OPEN" ELSE state
  BY BreakerAssumption DEF BreakerInv, BreakersTypeOK, RecordFailure
<1>2. BreakersTypeOK'
  <2>1. failures' \in 0 .. Threshold + 1
    BY <1>1 DEF UpTo
  <2>2. at' \in [Callers -> PcValues]
    BY DEF BreakerInv, BreakersTypeOK, RecordFailure, PcValues
  <2>3. elapsed' \in 0 .. ResetTimeout + 1
    BY BreakerAssumption DEF BreakerInv, BreakersTypeOK, RecordFailure
  <2> QED BY <2>1, <2>2, <2>3 DEF BreakerInv, BreakersTypeOK, RecordFailure
<1>3. CountMatchesState'
  <2>1. CASE kind = "gateway"
    BY <1>1, <2>1 DEF BreakerInv, CountMatchesState, TooMany, UpTo
  <2>2. CASE kind # "gateway"
    BY <1>1, <2>2 DEF BreakerInv, CountMatchesState, TooMany, UpTo
  <2> QED BY <2>1, <2>2
<1> QED BY <1>2, <1>3 DEF BreakerInv

LEMMA EnvironmentBreakerInv ==
  ASSUME BreakerInv,
         PassTime \/ Toggle \/ UNCHANGED breakerVars
  PROVE  BreakerInv'
<1>1. BreakersTypeOK'
  <2>1. CASE PassTime
    BY <2>1, BreakerAssumption DEF BreakerInv, BreakersTypeOK, PassTime
  <2>2. CASE Toggle
    <3>1. up' \in BOOLEAN
      BY <2>2, Zenon DEF Toggle
    <3> QED BY <2>2, <3>1 DEF BreakerInv, BreakersTypeOK, Toggle
  <2>3. CASE UNCHANGED breakerVars
    BY <2>3 DEF BreakerInv, BreakersTypeOK, breakerVars
  <2> QED BY <2>1, <2>2, <2>3
<1>2. CountMatchesState'
  BY DEF BreakerInv, CountMatchesState, PassTime, Toggle, breakerVars
<1> QED BY <1>1, <1>2 DEF BreakerInv

\* The inductive invariant of the three breakers.
THEOREM BreakerInvariant == BreakersSpec => []BreakerInv
<1>1. BreakersInit => BreakerInv
  BY BreakerAssumption DEF BreakersInit, BreakerInv, BreakersTypeOK,
     CountMatchesState, Kinds, PcValues
<1>2. BreakerInv /\ [BreakersNext]_breakerVars => BreakerInv'
  BY AdmitBreakerInv, AttemptBreakerInv, ResetBreakerInv, RecordFailureBreakerInv,
     EnvironmentBreakerInv DEF BreakersNext, Continue
<1> QED BY <1>1, <1>2, PTL DEF BreakersSpec

\* Counters stay within their thresholds and no call makes more attempts than
\* retry allows.
THEOREM BreakerTypes == BreakersSpec => []BreakersTypeOK
<1>1. BreakerInv => BreakersTypeOK
  BY DEF BreakerInv
<1> QED BY <1>1, BreakerInvariant, PTL

\* Count and state of every breaker agree, in whatever order overlapping calls
\* end.
THEOREM StateFollowsCount == BreakersSpec => []CountMatchesState
<1>1. BreakerInv => CountMatchesState
  BY DEF BreakerInv
<1> QED BY <1>1, BreakerInvariant, PTL
=============================================================================
