----------------------------- MODULE RateLimiter -----------------------------
(***************************************************************************)
(* RedisRateLimiter, the dependency in front of POST .../report and POST   *)
(* .../remind: one sorted set per user and action, in which every request  *)
(* logs the reading of its pod's clock.  The module models one key and the *)
(* requests of one user, which any number of pods serve at once.  A        *)
(* request reads the clock first and runs its pipeline later (a MULTI/EXEC *)
(* one await further), so pipelines need not run in the order of their     *)
(* stamps.  The code bounds neither the skew of the clocks nor that delay: *)
(* the bounds are the environment's, and what is promised depends on them. *)
(***************************************************************************)
EXTENDS Naturals, FiniteSets

CONSTANTS
  Requests,  \* slots for requests of the user in flight, on any pod
  Limit, Window,
  MaxSkew,   \* how far a pod's clock may lag behind the most advanced one
  MaxDelay,  \* how far a stamp may lie behind when Redis runs its pipeline
  MaxTime,   \* bound: the last reading of the clock
  Idle

ASSUME LimitAssumption == Limit \in Nat
ASSUME WindowAssumption == Window \in Nat \ {0}
ASSUME SkewAssumption == MaxSkew \in Nat
ASSUME DelayAssumption == MaxDelay \in 0..Window
ASSUME TimeAssumption == MaxTime \in Nat

Times == 0..MaxTime
Flight == [pc : {"pipeline", "zrange"}, stamp : Times]
ASSUME IdleAssumption == Idle \notin Flight

VARIABLES
  now,       \* the most advanced of the clocks, Redis's own included
  log,       \* the sorted set; member and score are the same stamp
  expireAt,  \* when EXPIRE removes the key
  flight,    \* requests between reading the clock and their answer
  asked,     \* history: the stamps of all requests
  accepted,  \* history: the stamps the limiter counted and let through
  refused    \* history: the 429 answers with their Retry-After

redis == <<log, expireAt>>
vars == <<now, log, expireAt, flight, asked, accepted, refused>>

Refusal == [stamp : Times, retry : 1..(Window + MaxDelay)]

Init ==
  /\ now = 0
  /\ log = {}
  /\ expireAt = 0
  /\ flight = [r \in Requests |-> Idle]
  /\ asked = {}
  /\ accepted = {}
  /\ refused = {}

\* Redis removes an expired key before any command sees it.
Live == IF now < expireAt THEN log ELSE {}

\* Mutant: clear_before is the reading itself, the window is not subtracted.
KeptTooFew(stamp) == {e \in Live : e > stamp} \cup {stamp}
\* Mutant: the log is never pruned.
KeptAll(stamp) == Live \cup {stamp}

\* ZREMRANGEBYSCORE key 0 (stamp - window); ZADD.  A stamp that another pod
\* has logged already is the same member and stays one entry.
Kept(stamp) == {e \in Live : e + Window > stamp} \cup {stamp}

\* The request arrives at some pod, whose clock is behind by at most MaxSkew.
Arrive(r, stamp) ==
  /\ flight[r] = Idle
  /\ stamp <= now /\ now <= stamp + MaxSkew /\ now <= stamp + MaxDelay
  /\ flight' = [flight EXCEPT ![r] = [pc |-> "pipeline", stamp |-> stamp]]
  /\ asked' = asked \cup {stamp}
  /\ UNCHANGED <<now, redis, accepted, refused>>

Pipeline(stamp) ==
  /\ log' = Kept(stamp)
  /\ expireAt' = now + Window

\* pipe.execute() returns the card of the set, the request itself included.
Accept(r) ==
  /\ flight[r] # Idle /\ flight[r].pc = "pipeline"
  /\ Pipeline(flight[r].stamp)
  /\ Cardinality(Kept(flight[r].stamp)) <= Limit
  /\ accepted' = accepted \cup {flight[r].stamp}
  /\ flight' = [flight EXCEPT ![r] = Idle]
  /\ UNCHANGED <<now, asked, refused>>

\* The card is above the limit; the refused request stays logged.
OverLimit(r) ==
  /\ flight[r] # Idle /\ flight[r].pc = "pipeline"
  /\ Pipeline(flight[r].stamp)
  /\ Cardinality(Kept(flight[r].stamp)) > Limit
  /\ flight' = [flight EXCEPT ![r].pc = "zrange"]
  /\ UNCHANGED <<now, asked, accepted, refused>>

\* The reply is lost after Redis executed the pipeline; retry_on_timeout sends
\* it again.
ReplyLost(r) ==
  /\ flight[r] # Idle /\ flight[r].pc = "pipeline"
  /\ Pipeline(flight[r].stamp)
  /\ UNCHANGED <<now, flight, asked, accepted, refused>>

\* Mutant: the instant the oldest entry leaves the window, not the wait for it.
RetryAfterInstant(stamp, retry) ==
  \/ /\ Live = {}
     /\ retry = Window
  \/ \E oldest \in Live :
       /\ \A e \in Live : oldest <= e
       /\ retry = oldest + Window

\* retry_after, from the oldest entry that ZRANGE finds one await later.
RetryAfter(stamp, retry) ==
  \/ /\ Live = {}
     /\ retry = Window
  \/ \E oldest \in Live :
       /\ \A e \in Live : oldest <= e
       /\ retry = IF oldest + Window <= stamp THEN 1 ELSE oldest + Window - stamp

Refuse(r) ==
  /\ flight[r] # Idle /\ flight[r].pc = "zrange"
  /\ \E retry \in 0..(MaxTime + Window) :
       /\ RetryAfter(flight[r].stamp, retry)
       /\ refused' = refused \cup {[stamp |-> flight[r].stamp, retry |-> retry]}
  /\ flight' = [flight EXCEPT ![r] = Idle]
  /\ UNCHANGED <<now, redis, asked, accepted>>

\* Redis fails at either await: the request is let through, uncounted, though
\* the pipeline may have been executed.
Degrade(r) ==
  /\ flight[r] # Idle
  /\ \/ flight[r].pc = "pipeline" /\ Pipeline(flight[r].stamp)
     \/ UNCHANGED redis
  /\ flight' = [flight EXCEPT ![r] = Idle]
  /\ UNCHANGED <<now, asked, accepted, refused>>

\* Time passes, but no stamp falls behind by more than MaxDelay before its
\* pipeline has run.
Tick ==
  /\ now < MaxTime
  /\ \A r \in Requests : flight[r] # Idle => now + 1 <= flight[r].stamp + MaxDelay
  /\ now' = now + 1
  /\ UNCHANGED <<redis, flight, asked, accepted, refused>>

Next ==
  \/ Tick
  \/ \E r \in Requests :
       \/ \E stamp \in Times : Arrive(r, stamp)
       \/ Accept(r) \/ OverLimit(r) \/ ReplyLost(r) \/ Refuse(r) \/ Degrade(r)

Spec == Init /\ [][Next]_vars

-----------------------------------------------------------------------------
(* Properties *)

\* Every variable has its type.  Retry-After is at least a second and at most a
\* window, plus what an overtaking request's stamp may be ahead.
TypeOK ==
  /\ now \in Times
  /\ log \in SUBSET Times
  /\ expireAt \in 0..(MaxTime + Window)
  /\ flight \in [Requests -> Flight \cup {Idle}]
  /\ asked \in SUBSET Times
  /\ accepted \in SUBSET Times
  /\ refused \in SUBSET Refusal

\* However the pods' requests overlap, are retried or expire the key, the
\* limiter counts and lets through at most Limit requests with stamps of any
\* stretch of Window - MaxDelay: with no delay, the documented limit per window
\* (docs/architecture-evaluation-and-optimization.md:55).  A longer stretch may
\* hold more: what a delayed request should have been counted with has been
\* pruned by an overtaking request or has expired with the key.
WindowBound ==
  \A from \in Times :
    Cardinality({a \in accepted : from <= a /\ a + MaxDelay < from + Window}) <= Limit

\* Nobody is refused out of the blue: behind every 429 there are more than
\* Limit requests of that user, stamped in the window before the refused one
\* or while it was on its way.  A user who pauses for a window is let in.
RefusalsJustified ==
  \A x \in refused :
    Cardinality({a \in asked : a + Window > x.stamp /\ a <= x.stamp + MaxDelay}) > Limit
=============================================================================
