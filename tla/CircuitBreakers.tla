---------------------------- MODULE CircuitBreakers ----------------------------
(***************************************************************************)
(* The three circuit breakers the code has, each with the overlapping      *)
(* calls it lets through to a service that goes down and comes back:       *)
(*   "healing"  SelfHealing.call (infrastructure/resilience): exec of a    *)
(*              CircuitBreaker with a reset timeout, around retry, around  *)
(*              the call and HealthMonitor                                 *)
(*   "core"     core/resilience/CircuitBreaker.ts, and the same once more  *)
(*              in core/resilience/circuit-breaker                         *)
(*   "gateway"  ExternalGateway.callService (core/resilience/breaker)      *)
(* A caller calls again and again. A call that is rejected throws at once  *)
(* and changes nothing, so it is no step.                                  *)
(***************************************************************************)
EXTENDS Integers

CONSTANTS
  Callers,
  Threshold,      \* threshold: 5, 3 and 3 in the code
  Attempts,       \* of retry: 3 in the code
  ResetTimeout,   \* resetTimeoutMs, in ticks
  UnhealthyAt     \* failures of an unhealthy HealthMonitor: 3 in the code

ASSUME BreakerAssumption ==
  Threshold \in Nat \ {0} /\ Attempts \in Nat \ {0} /\ ResetTimeout \in Nat /\ UnhealthyAt \in Nat \ {0}

VARIABLES
  kind,       \* which of the breakers this is
  state, failures,
  elapsed,    \* Date.now() - lastFailureTime, up to ResetTimeout + 1
  monitor,    \* failures of HealthMonitor, up to UnhealthyAt
  up,         \* the service works
  at,         \* where each call is
  attempt     \* i + 1 of the loop of retry

breakerVars == <<kind, state, failures, elapsed, monitor, up, at, attempt>>

Kinds == {"healing", "core", "gateway"}
PcValues == {"idle", "calling", "waiting", "succeeded", "threw"}

BreakersInit ==
  /\ kind \in Kinds
  /\ state = "CLOSED"
  /\ failures = 0
  /\ elapsed = ResetTimeout + 1
  /\ monitor = 0
  /\ up = TRUE
  /\ at = [c \in Callers |-> "idle"]
  /\ attempt = [c \in Callers |-> 1]

-----------------------------------------------------------------------------
\* Counters are compared with one threshold only and saturate above it.
UpTo(max, n) == IF n > max THEN max ELSE n

\* failures >= threshold, but failures > 3 in the gateway's breaker
MoreThanLimit(n) == n > Threshold                                \* mutant
TooMany(n) == IF kind = "gateway" THEN n > Threshold ELSE n >= Threshold

\* The head of exec: OPEN rejects, unless the reset timeout is over. HALF_OPEN
\* rejects nobody.
Admit(c) ==
  /\ at[c] = "idle"
  /\ state = "OPEN" => kind = "healing" /\ elapsed > ResetTimeout
  /\ state' = IF state = "OPEN" THEN "HALF_OPEN" ELSE state
  /\ at' = [at EXCEPT ![c] = "calling"]
  /\ attempt' = [attempt EXCEPT ![c] = 1]
  /\ UNCHANGED <<kind, failures, elapsed, monitor, up>>

\* The awaited call settles; SelfHealing tells HealthMonitor. Only SelfHealing
\* retries: after a failed attempt, the last included, it waits.
AttemptSucceeds(c) ==
  /\ at[c] = "calling" /\ up
  /\ monitor' = IF kind = "healing" THEN 0 ELSE monitor
  /\ at' = [at EXCEPT ![c] = "succeeded"]
  /\ UNCHANGED <<kind, state, failures, elapsed, up, attempt>>

AttemptFails(c) ==
  /\ at[c] = "calling" /\ ~up
  /\ monitor' = IF kind = "healing" THEN UpTo(UnhealthyAt, monitor + 1) ELSE monitor
  /\ at' = [at EXCEPT ![c] = IF kind = "healing" THEN "waiting" ELSE "threw"]
  /\ UNCHANGED <<kind, state, failures, elapsed, up, attempt>>

\* i < attempts, when the backoff is over
TriesLeft(c) == attempt[c] < Attempts
BackoffEnds(c) ==
  /\ at[c] = "waiting"
  /\ attempt' = [attempt EXCEPT ![c] = IF TriesLeft(c) THEN @ + 1 ELSE @]
  /\ at' = [at EXCEPT ![c] = IF TriesLeft(c) THEN "calling" ELSE "threw"]
  /\ UNCHANGED <<kind, state, failures, elapsed, monitor, up>>

\* reset(), whatever the state has become since the call was let through. The
\* gateway's breaker forgets its failures but does not close.
StateAfterSuccessKept == state                                   \* mutant
StateAfterSuccess == IF kind = "gateway" THEN state ELSE "CLOSED"
Reset(c) ==
  /\ at[c] = "succeeded"
  /\ failures' = 0
  /\ state' = StateAfterSuccess
  /\ at' = [at EXCEPT ![c] = "idle"]
  /\ UNCHANGED <<kind, elapsed, monitor, up, attempt>>

\* recordFailure(), and the error is thrown on.
RecordFailure(c) ==
  /\ at[c] = "threw"
  /\ failures' = UpTo(Threshold + 1, failures + 1)
  /\ elapsed' = IF kind = "healing" THEN 0 ELSE elapsed
  /\ state' = IF TooMany(failures + 1) THEN "OPEN" ELSE state
  /\ at' = [at EXCEPT ![c] = "idle"]
  /\ UNCHANGED <<kind, monitor, up, attempt>>

\* Time passes.
PassTime ==
  /\ elapsed <= ResetTimeout
  /\ elapsed' = elapsed + 1
  /\ UNCHANGED <<kind, state, failures, monitor, up, at, attempt>>

\* The service goes down or comes back.
Toggle == up' = ~up /\ UNCHANGED <<kind, state, failures, elapsed, monitor, at, attempt>>

Continue(c) ==
  \/ AttemptSucceeds(c) \/ AttemptFails(c) \/ BackoffEnds(c)
  \/ Reset(c) \/ RecordFailure(c)

BreakersNext ==
  \/ \E c \in Callers : Admit(c) \/ Continue(c)
  \/ PassTime
  \/ Toggle

\* The service settles every call, timers fire and time passes. Whether anyone
\* calls is up to the callers.
BreakersSpec == BreakersInit /\ [][BreakersNext]_breakerVars /\ WF_breakerVars(PassTime) /\ \A c \in Callers : WF_breakerVars(Continue(c))

-----------------------------------------------------------------------------
BreakersTypeOK ==
  /\ kind \in Kinds
  /\ state \in {"CLOSED", "OPEN", "HALF_OPEN"}
  /\ failures \in 0 .. Threshold + 1
  /\ elapsed \in 0 .. ResetTimeout + 1
  /\ monitor \in 0 .. UnhealthyAt
  /\ up \in BOOLEAN
  /\ at \in [Callers -> PcValues]
  /\ attempt \in [Callers -> 1 .. Attempts]

\* Count and state never come apart, although calls end in another order than
\* they began: CLOSED means fewer failures than the threshold since the last
\* success, so a HALF_OPEN circuit opens again at the first failure; and only
\* the breaker with a timeout is ever HALF_OPEN.
CountMatchesState ==
  /\ kind # "gateway" => (state = "CLOSED" <=> failures < Threshold)
  /\ kind = "gateway" /\ failures > Threshold => state = "OPEN"
  /\ state = "HALF_OPEN" => kind = "healing"

\* Provided that someone calls whenever a call would be let through: SelfHealing
\* closes its circuit and reports healthy for good once the service stays up,
\* and every breaker leaves CLOSED for good once it stays down, SelfHealing
\* reporting unhealthy. The breakers without a timeout never recover.
Asked == WF_breakerVars(\E c \in Callers : Admit(c))
Recovered == state = "CLOSED" /\ monitor < UnhealthyAt
Detected == state # "CLOSED" /\ (kind = "healing" => monitor = UnhealthyAt)
FollowsService ==
  Asked => /\ (kind = "healing" /\ <>[]up) => <>[]Recovered
           /\ <>[]~up => <>[]Detected
=============================================================================
