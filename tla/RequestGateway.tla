---------------------------- MODULE RequestGateway ----------------------------
(***************************************************************************)
(* A request on its way through the production server: the rate limiter,   *)
(* the static contexts, the observability wrapper, and the services behind *)
(* it (agreements under role permissions, billing counters). One process   *)
(* runs all requests, so a step is the code between two awaits, and        *)
(* everything declared static is shared by the requests in flight.         *)
(*                                                                         *)
(* The Fastify hook limits the same way in front of other routes: `limiter`*)
(* says which of the two limiters a behaviour is about.                    *)
(***************************************************************************)
EXTENDS Integers, FiniteSets

CONSTANTS
  Requests,
  Addresses,
  Inputs,       \* what a request may be: address, user, url, tenant, id
  Tenants,
  Limit,        \* requests let through a window
  Window,       \* its length, in ticks
  MaxTime,      \* bound on the clock
  MaxHandled,   \* bound on the requests the guard lets in
  PLANS,        \* limits of each plan: maxUsers, maxRequestsPerDay
  PlanOf,       \* TenantBilling: plan and usersCount of each tenant on record
  Nobody, NoTrace, NoEntry, NoTime

ASSUME GatewayAssumption ==
  /\ Limit \in Nat \ {0} /\ Window \in Nat /\ MaxTime \in Nat
  /\ DOMAIN PlanOf \subseteq Tenants
  /\ \A t \in DOMAIN PlanOf : PLANS[PlanOf[t].plan].maxRequestsPerDay \in Nat
  /\ IsFiniteSet(Requests)
  /\ NoTrace \notin Requests /\ NoTime \notin Nat
  /\ NoEntry \notin [count : Nat, resetAt : Nat]

VARIABLES
  limiter,      \* "guard" (core/gateway) or "hook" (middleware)
  now,
  store,        \* the limiter's entry of each address
  input, pc,    \* of each request
  current,      \* UserContext
  trace,        \* TraceContext
  caller,       \* the local `user` of an agreement handler
  answer,       \* tenants of the agreements a handler answered
  object,       \* TenantBilling.requestsToday of each object
  db,           \* the object on record for each tenant
  billing,      \* the object each handler was handed
  requests, errors,   \* Metrics
  audit,        \* AuditLogger: [request, trace]
  admitted,     \* history: when each request was let in
  overlapped,   \* history: requests traced while another one was
  checked,      \* history: whose permission a handler checked
  charged       \* history: requests that were counted against their plan

limits  == <<limiter, now, store, admitted>>
traced  == <<trace, requests, errors, audit, overlapped>>
account == <<object, db, billing, charged>>
reading == <<caller, answer, checked>>
vars == <<input, pc, current, limits, traced, account, reading>>

InFlight == {"handling", "finding", "billed", "saving", "handled", "threw"}
Traced == {r \in Requests : pc[r] \in InFlight}

-----------------------------------------------------------------------------
ROLE_PERMISSIONS ==
  [admin   |-> {"tenant:read", "tenant:write", "billing:read", "billing:write",
                "agreement:read", "agreement:write"},
   manager |-> {"tenant:read", "billing:read", "agreement:read", "agreement:write"},
   user    |-> {"tenant:read", "agreement:read"}]

UserIdentity == [tenant : Tenants, role : DOMAIN ROLE_PERMISSIONS]
Urls == {"health", "agreement", "agreements", "billing", "users"}

ASSUME InputsAssumption ==
  /\ \A i \in Inputs :
       i \in [ip : Addresses, user : UserIdentity \cup {Nobody}, url : Urls, tenant : Tenants]
  /\ Nobody \notin UserIdentity

hasPermission(role, permission) == permission \in ROLE_PERMISSIONS[role]
\* SecurityGuard.check, of whoever is in the static UserContext.
check(permission) == current # Nobody /\ hasPermission(current.role, permission)

\* core/context/TenantContext has no `set`, which preHandle calls.
TenantContextMethods == {"setTenant", "getTenant", "clear"}

checkRequestLimit(t, used) == used < PLANS[PlanOf[t].plan].maxRequestsPerDay
checkUserLimit(t) == PlanOf[t].usersCount < PLANS[PlanOf[t].plan].maxUsers

Init ==
  /\ limiter \in {"guard", "hook"}
  /\ now = 0 /\ store = [a \in Addresses |-> NoEntry]
  /\ input = [r \in Requests |-> NoEntry] /\ pc = [r \in Requests |-> "idle"]
  /\ current = Nobody /\ trace = NoTrace
  /\ caller = [r \in Requests |-> Nobody] /\ checked = [r \in Requests |-> Nobody]
  /\ answer = [r \in Requests |-> {}]
  /\ object = [o \in Tenants \cup Requests |-> 0]
  /\ db = [t \in Tenants |-> t] /\ billing = [r \in Requests |-> NoEntry]
  /\ requests = 0 /\ errors = 0 /\ audit = {}
  /\ admitted = [r \in Requests |-> NoTime] /\ overlapped = {} /\ charged = {}

\* The static stores: UserContext.set, TraceContext.start and clear, Metrics and
\* AuditLogger.
UserContextSet(u) == current' = IF u # Nobody THEN u ELSE current
start(r) == trace' = r
clear == trace' = NoTrace
recordRequest == requests' = requests + 1
recordError == errors' = errors + 1
log(r, id) == audit' = audit \cup {[request |-> r, trace |-> id]}

-----------------------------------------------------------------------------
\* The entry of an address after a request, and whether the request is let in.
ExpiredAtReset(e) == e # NoEntry => now >= e.resetAt                \* mutant
Expired(e)        == e # NoEntry => now > e.resetAt
LetIn(e) == ~Expired(e) => e.count < Limit
Counted(e) ==
  IF Expired(e) THEN [count |-> 1, resetAt |-> now + Window]
  ELSE IF e.count < Limit \/ (limiter = "hook" /\ e.count = Limit)
       THEN [e EXCEPT !.count = @ + 1]   \* the hook's count saturates at Limit + 1
       ELSE e

\* The hook lets the probes through uncounted.
Exempt(i) == limiter = "hook" /\ i.url = "health"

\* RATE_LIMIT_EXCEEDED, or status 429.
Limited(r, i) ==
  /\ pc[r] = "idle" /\ ~Exempt(i) /\ ~LetIn(store[i.ip])
  /\ store' = [store EXCEPT ![i.ip] = Counted(@)]
  /\ pc' = [pc EXCEPT ![r] = "limited"] /\ input' = [input EXCEPT ![r] = i]
  /\ UNCHANGED <<limiter, now, admitted, current, traced, account, reading>>

\* The hook passes the request on.
Pass(r, i) ==
  /\ pc[r] = "idle" /\ limiter = "hook" /\ (~Exempt(i) => LetIn(store[i.ip]))
  /\ IF Exempt(i) THEN UNCHANGED <<store, admitted>>
     ELSE /\ store' = [store EXCEPT ![i.ip] = Counted(@)]
          /\ admitted' = [admitted EXCEPT ![r] = now]
  /\ pc' = [pc EXCEPT ![r] = "passed"] /\ input' = [input EXCEPT ![r] = i]
  /\ UNCHANGED <<limiter, now, current, traced, account, reading>>

To(r, where) == pc' = [pc EXCEPT ![r] = where]
In(r, where, urls) == pc[r] = where /\ input[r].url \in urls

\* wrap up to the await of its handler.
WrapHead(r) ==
  /\ start(r)
  /\ To(r, "handling")
  /\ overlapped' = IF Traced = {} THEN overlapped ELSE overlapped \cup Traced \cup {r}

\* preHandle and, when it returns, the head of wrap: one synchronous block.
\* With a user it ends in the call of TenantContext.set.
PreHandle(r, i) ==
  LET fails == i.user # Nobody /\ "set" \notin TenantContextMethods IN
  /\ pc[r] = "idle" /\ limiter = "guard" /\ LetIn(store[i.ip])
  /\ Cardinality({q \in Requests : admitted[q] # NoTime}) < MaxHandled
  /\ store' = [store EXCEPT ![i.ip] = Counted(@)]
  /\ admitted' = [admitted EXCEPT ![r] = now]
  /\ input' = [input EXCEPT ![r] = i]
  /\ UserContextSet(i.user)
  /\ IF fails THEN To(r, "broken") /\ UNCHANGED <<trace, overlapped>> ELSE WrapHead(r)
  /\ UNCHANGED <<limiter, now, requests, errors, audit, account, reading>>

-----------------------------------------------------------------------------
\* GET /health and GET /.
Probe(r) ==
  /\ In(r, "handling", {"health"})
  /\ To(r, "handled")
  /\ UNCHANGED <<input, current, limits, traced, account, reading>>

\* SecurityGuard.check and UserContext.get, up to the await of the repository.
CheckPermission(r) ==
  /\ In(r, "handling", {"agreement", "agreements"})
  /\ IF check("agreement:read")
     THEN /\ caller' = [caller EXCEPT ![r] = current]
          /\ checked' = [checked EXCEPT ![r] = current]
          /\ To(r, "finding")
     ELSE To(r, "threw") /\ UNCHANGED <<caller, checked>>
  /\ UNCHANGED <<input, current, limits, traced, account, answer>>

\* getAgreement and listAgreements after the await: the tenant compared with is
\* that of the local `user`.
UserNow(r)   == current                                             \* mutant
UserOf(r)    == caller[r]
Found(r) ==
  LET mine == {t \in Tenants : t = UserOf(r).tenant}
      rows == IF input[r].url = "agreement" THEN {input[r].tenant} ELSE mine IN
  /\ pc[r] = "finding"
  /\ IF rows \subseteq mine
     THEN answer' = [answer EXCEPT ![r] = rows] /\ To(r, "handled")
     ELSE To(r, "threw") /\ UNCHANGED answer
  /\ UNCHANGED <<input, current, limits, traced, account, caller, checked>>

\* BillingRepositoryImpl.get hands out the object on record, not a copy of it.
Clone(r, t)    == r                                                 \* mutant
HandedOut(r, t) == db[t]
GetBilling(r) ==
  LET t == input[r].tenant IN
  /\ In(r, "handling", {"billing", "users"})
  /\ IF t \in DOMAIN PlanOf
     THEN /\ billing' = [billing EXCEPT ![r] = HandedOut(r, t)]
          /\ object' = [object EXCEPT ![HandedOut(r, t)] = object[db[t]]]
          /\ To(r, "billed")
     ELSE To(r, "threw") /\ UNCHANGED <<billing, object>>
  /\ UNCHANGED <<input, current, limits, traced, db, charged, reading>>

\* checkRequestAllowed after the await: check and count, then await the save.
Charge(r) ==
  LET o == billing[r] IN
  /\ In(r, "billed", {"billing"})
  /\ IF checkRequestLimit(input[r].tenant, object[o])
     THEN /\ object' = [object EXCEPT ![o] = @ + 1]
          /\ charged' = charged \cup {r}
          /\ To(r, "saving")
     ELSE To(r, "threw") /\ UNCHANGED <<object, charged>>
  /\ UNCHANGED <<input, current, limits, traced, db, billing, reading>>

\* BillingRepositoryImpl.save.
Save(r) ==
  /\ pc[r] = "saving"
  /\ db' = [db EXCEPT ![input[r].tenant] = billing[r]]
  /\ To(r, "handled")
  /\ UNCHANGED <<input, current, limits, traced, object, billing, charged, reading>>

\* checkUserCreationAllowed after the await.
CheckUsers(r) ==
  /\ In(r, "billed", {"users"})
  /\ To(r, IF checkUserLimit(input[r].tenant) THEN "handled" ELSE "threw")
  /\ UNCHANGED <<input, current, limits, traced, account, reading>>

-----------------------------------------------------------------------------
\* wrap after its await: count the request, log it under the trace found in the
\* static context, and clear that in `finally`. TraceContext.get throws when it
\* finds none, which counts an error on top and fails the request.
TraceAfterClear == NoTrace                                          \* mutant
TraceAtLog == trace
Settle(r) ==
  /\ pc[r] = "handled"
  /\ recordRequest
  /\ IF TraceAtLog # NoTrace
     THEN log(r, TraceAtLog) /\ To(r, "answered") /\ UNCHANGED errors
     ELSE recordError /\ To(r, "unaudited") /\ UNCHANGED audit
  /\ clear
  /\ UNCHANGED <<input, current, limits, overlapped, account, reading>>

\* wrap's catch: recordError, rethrow, and `finally`.
Catch(r) ==
  /\ pc[r] = "threw"
  /\ recordError /\ clear
  /\ To(r, "failed")
  /\ UNCHANGED <<input, current, limits, requests, audit, overlapped, account, reading>>

Tick ==
  /\ now < MaxTime
  /\ now' = now + 1
  /\ UNCHANGED <<input, pc, current, limiter, store, admitted, traced, account, reading>>

Handler(r) ==
  \/ Probe(r) \/ CheckPermission(r) \/ Found(r)
  \/ GetBilling(r) \/ Charge(r) \/ Save(r) \/ CheckUsers(r)

Next ==
  \/ \E r \in Requests, i \in Inputs : Limited(r, i) \/ Pass(r, i) \/ PreHandle(r, i)
  \/ \E r \in Requests : Handler(r) \/ Settle(r) \/ Catch(r)
  \/ Tick

Spec == Init /\ [][Next]_vars

-----------------------------------------------------------------------------
Entry == [count : 1 .. Limit + 1, resetAt : Nat] \cup {NoEntry}
AuditEvent == [request : Requests, trace : Requests]

TypeOK ==
  /\ limiter \in {"guard", "hook"} /\ now \in 0 .. MaxTime
  /\ store \in [Addresses -> Entry]
  /\ input \in [Requests -> Inputs \cup {NoEntry}]
  /\ pc \in [Requests -> InFlight \cup
       {"idle", "limited", "broken", "passed", "answered", "unaudited", "failed"}]
  /\ current \in UserIdentity \cup {Nobody} /\ trace \in Requests \cup {NoTrace}
  /\ answer \in [Requests -> SUBSET Tenants]
  /\ object \in [Tenants \cup Requests -> Nat]
  /\ db \in [Tenants -> Tenants \cup Requests]
  /\ requests \in Nat /\ errors \in Nat
  /\ audit \subseteq AuditEvent
  /\ admitted \in [Requests -> 0 .. MaxTime \cup {NoTime}]
  /\ overlapped \subseteq Requests /\ charged \subseteq Requests

\* However the requests of an address fall around a reset, no stretch of time
\* as long as a window sees more than 2 * Limit - 1 of them let in (a fixed
\* window opens with its first request).
AdmittedIn(a, t) ==
  {r \in Requests : /\ admitted[r] # NoTime
                    /\ input[r].ip = a /\ admitted[r] \in t .. t + Window}
AdmissionsBounded ==
  \A a \in Addresses, t \in 0 .. MaxTime : Cardinality(AdmittedIn(a, t)) <= 2 * Limit - 1

\* A request whose handler succeeded is answered and found in the audit log
\* under its own trace, and a trace belongs to one record, unless the request
\* was traced while another one was: the trace is one static field.
AuditedUnlessOverlapped ==
  /\ \A r \in Requests \ overlapped : pc[r] # "unaudited"
  /\ \A x \in audit : x.request \notin overlapped => x.trace = x.request
  /\ \A r \in Requests :
       pc[r] = "answered" <=> Cardinality({x \in audit : x.request = r}) = 1

\* A request that brings a user never gets to a handler, so agreements are only
\* ever answered to requests without one, under an identity that an earlier
\* request left in the static field. It is one identity throughout: the tenant of
\* what is answered is the tenant of the user whose permission was checked, even
\* if another request has replaced the field while the handler awaited its rows.
AnswersFollowOneIdentity ==
  \A r \in Requests : \A t \in answer[r] :
    /\ input[r].user = Nobody
    /\ \E q \in Requests :
         pc[q] = "broken" /\ input[q].user = checked[r] /\ t = input[q].user.tenant

\* Usage on record is the number of requests let through billing, and within
\* the plan, for any number of handlers between get and save.
ChargedTo(t) == {r \in charged : input[r].tenant = t}
UsageCountsCharges ==
  \A t \in DOMAIN PlanOf :
    /\ object[db[t]] = Cardinality(ChargedTo(t))
    /\ object[db[t]] <= PLANS[PlanOf[t].plan].maxRequestsPerDay
=============================================================================
