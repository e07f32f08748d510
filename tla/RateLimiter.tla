---------------------------- MODULE RateLimiter -----------------------------
(***************************************************************************)
(* The sliding window of one rate-limit key (api/server.py).  The check    *)
(* and the record are two critical sections with no await between them, so *)
(* on the one event loop a decision is one step.  Time is in ticks, some   *)
(* of them to a second: Retry-After is a whole number of seconds, rounded  *)
(* down.                                                                   *)
(***************************************************************************)
EXTENDS Integers, FiniteSets

CONSTANTS
  Requests,  \* the requests of one key
  Max,       \* RATE_LIMIT_REQUESTS
  Window,    \* RATE_LIMIT_WINDOW, in ticks
  Second,    \* ticks in a second
  Horizon    \* bound on the clock

ASSUME LimiterAssumption ==
  /\ IsFiniteSet(Requests)
  /\ Max \in Nat /\ Window \in Nat \ {0} /\ Second \in Nat \ {0} /\ Horizon \in Nat

VARIABLES
  clock,
  verdict,  \* what the middleware decided about each request
  stamp,    \* and when
  retry,    \* the Retry-After of a refused one, in seconds
  log       \* _rate_limit_log[key]: the requests it holds a timestamp of

limiter == <<clock, verdict, stamp, retry, log>>

LimiterInit ==
  /\ clock = 0
  /\ verdict = [r \in Requests |-> "none"]
  /\ stamp = [r \in Requests |-> 0]
  /\ retry = [r \in Requests |-> 0]
  /\ log = {}

\* Mutated form of Recent: the window is one tick short.
RecentShort == {r \in log : stamp[r] > clock - Window + 1}

Recent == {r \in log : stamp[r] > clock - Window}

\* The oldest timestamp in the window, or now when there is none.
Oldest ==
  IF Recent = {} THEN clock
  ELSE CHOOSE t \in {stamp[r] : r \in Recent} : \A r \in Recent : t <= stamp[r]

AtLeastOne(n) == IF n < 1 THEN 1 ELSE n

\* Mutated form of RetryAfter: a second is lost once more.
RetryAfterShort == AtLeastOne((Oldest + Window - clock) \div Second - 1)

RetryAfter == AtLeastOne((Oldest + Window - clock) \div Second)

Decide(r, what) ==
  /\ verdict[r] = "none"
  /\ verdict' = [verdict EXCEPT ![r] = what]
  /\ stamp' = [stamp EXCEPT ![r] = clock]
  /\ UNCHANGED clock

\* The check forgets the entries that left the window; the request is recorded ...
Admit(r) ==
  /\ Cardinality(Recent) < Max
  /\ Decide(r, "passed")
  /\ log' = Recent \cup {r}
  /\ UNCHANGED retry

\* ... or refused, and not recorded.
Refuse(r) ==
  /\ Cardinality(Recent) >= Max
  /\ Decide(r, "refused")
  /\ retry' = [retry EXCEPT ![r] = RetryAfter]
  /\ log' = Recent

Tick ==
  /\ clock < Horizon
  /\ clock' = clock + 1
  /\ UNCHANGED <<verdict, stamp, retry, log>>

LimiterNext == Tick \/ \E r \in Requests : Admit(r) \/ Refuse(r)

LimiterSpec == LimiterInit /\ [][LimiterNext]_limiter

-----------------------------------------------------------------------------
\* Type invariant of the limiter.
LimiterTypeOK ==
  /\ clock \in 0 .. Horizon
  /\ verdict \in [Requests -> {"none", "passed", "refused"}]
  /\ stamp \in [Requests -> 0 .. Horizon]
  /\ retry \in [Requests -> Nat]
  /\ log \subseteq Requests

Passed == {r \in Requests : verdict[r] = "passed"}

\* "Sliding-window rate limiting" (RateLimitMiddleware): no interval as long as
\* the window, wherever it starts, has more than Max requests that got through.
WindowHonoured ==
  \A r \in Passed :
    Cardinality({s \in Passed : stamp[s] <= stamp[r] /\ stamp[s] > stamp[r] - Window}) <= Max

\* Who waits a second longer than Retry-After says is let in, unless another
\* request of the key came in between (_check_rate_limit; int() cuts a fraction
\* off, so the wait it names may itself be too short).
RetrySuffices ==
  Max > 0 =>
    \A r, s \in Requests :
      /\ verdict[r] = "refused" /\ verdict[s] = "refused"
      /\ stamp[s] >= stamp[r] + (retry[r] + 1) * Second
      => \E p \in Passed : stamp[r] < stamp[p] /\ stamp[p] <= stamp[s]

=============================================================================
