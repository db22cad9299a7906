--------------------------- MODULE MCRequestGateway ---------------------------
EXTENDS RequestGateway, TLC

CONSTANTS a1, a2, t1, t2

Manager == [tenant |-> t1, role |-> "manager"]
Member  == [tenant |-> t2, role |-> "user"]
Req(ip, user, url, tenant) == [ip |-> ip, user |-> user, url |-> url, tenant |-> tenant]

\* A probe, the two users, an agreement of each kind of answer, and billing of
\* a tenant on record and of one that is not.
MCInputs == {
  Req(a1, Nobody, "health", t1),
  Req(a2, Manager, "health", t1),
  Req(a2, Member, "health", t2),
  Req(a1, Nobody, "agreement", t1),
  Req(a1, Nobody, "agreements", t1),
  Req(a1, Nobody, "billing", t1),
  Req(a1, Nobody, "billing", t2),
  Req(a2, Nobody, "users", t1)}
MCPLANS == [free |-> [maxUsers |-> 1, maxRequestsPerDay |-> 2]]
MCPlanOf == [t \in {t1} |-> [plan |-> "free", usersCount |-> 0]]
Symmetry == Permutations(Requests)
=============================================================================
