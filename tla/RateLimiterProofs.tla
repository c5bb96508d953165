-------------------------- MODULE RateLimiterProofs --------------------------
(***************************************************************************)
(* RateLimiter keeps its bound for every limit, window, delay and number   *)
(* of requests.  The invariant says what the sorted set still knows: an    *)
(* accepted stamp is in it, under an expiry that does not come too early,  *)
(* until it is a whole window old.                                         *)
(***************************************************************************)
EXTENDS RateLimiter, FiniteSetTheorems, TLAPS

InFlight(r) == flight[r] # Idle

\* What is behind a 429, as in RefusalsJustified.
Justified(A, stamp) ==
  Cardinality({a \in A : a + Window > stamp /\ a <= stamp + MaxDelay}) > Limit

FlightInTime ==
  \A r \in Requests : InFlight(r) => /\ flight[r].stamp <= now
                                     /\ now <= flight[r].stamp + MaxDelay
                                     /\ flight[r].stamp \in asked

LogInTime == \A a \in log : a <= now /\ a \in asked

\* An accepted stamp is remembered until it is a window old.
Remembered ==
  \A a \in accepted : a + Window <= now \/ (a \in log /\ a + Window <= expireAt)

TurnedAway ==
  \A r \in Requests : InFlight(r) /\ flight[r].pc = "zrange" => Justified(asked, flight[r].stamp)

IInv ==
  /\ TypeOK
  /\ FlightInTime
  /\ LogInTime
  /\ Remembered
  /\ TurnedAway
  /\ WindowBound
  /\ RefusalsJustified

USE LimitAssumption, WindowAssumption, SkewAssumption, DelayAssumption, TimeAssumption,
    IdleAssumption

-----------------------------------------------------------------------------
(* Lemmas *)

\* Stamps are finite in number, and a smaller set of them has a smaller card.
LEMMA StampsFinite ==
  ASSUME NEW S \in SUBSET Times
  PROVE  IsFiniteSet(S) /\ Cardinality(S) \in Nat
<1>1. IsFiniteSet(Times)
  BY FS_Interval DEF Times
<1>. QED  BY <1>1, FS_Subset, FS_CardinalityType

\* Fewer stamps have no larger cardinality.
LEMMA StampsMonotone ==
  ASSUME NEW S \in SUBSET Times, NEW T \in SUBSET S
  PROVE  Cardinality(T) <= Cardinality(S)
BY StampsFinite, FS_Subset

\* A justification stays one when more requests have been made.
LEMMA JustifiedStays ==
  ASSUME asked \in SUBSET Times, asked' \in SUBSET Times, asked \subseteq asked',
         NEW stamp \in Times, Justified(asked, stamp)
  PROVE  Justified(asked', stamp)
<1> DEFINE J == {a \in asked : a + Window > stamp /\ a <= stamp + MaxDelay}
<1> DEFINE K == {a \in asked' : a + Window > stamp /\ a <= stamp + MaxDelay}
<1>1. J \subseteq K /\ K \in SUBSET Times
  OBVIOUS
<1>2. Cardinality(J) <= Cardinality(K)
  BY <1>1, StampsMonotone
<1>3. Cardinality(J) \in Nat /\ Cardinality(K) \in Nat
  BY <1>1, StampsFinite
<1>4. Cardinality(J) > Limit
  BY DEF Justified
<1>5. Cardinality(K) > Limit
  <2> HIDE DEF J, K
  <2>. QED  BY <1>2, <1>3, <1>4
<1>. QED  BY <1>5 DEF Justified

\* The pipeline of a request that is in time leaves the log in time and forgets
\* no accepted stamp too early.
LEMMA PipelineKeeps ==
  ASSUME TypeOK, LogInTime, Remembered, NEW stamp \in asked,
         stamp <= now, now <= stamp + MaxDelay,
         Pipeline(stamp), now' = now, asked' = asked
  PROVE  /\ log' \in SUBSET Times
         /\ expireAt' \in 0..(MaxTime + Window)
         /\ LogInTime'
         /\ \A a \in accepted : a + Window <= now \/ (a \in log' /\ a + Window <= expireAt')
         /\ stamp \in log' /\ stamp + Window <= expireAt'
<1>1. Kept(stamp) \in SUBSET Times /\ \A a \in Kept(stamp) : a <= now /\ a \in asked
  BY DEF TypeOK, LogInTime, Kept, Live, Times
<1>2. log' = Kept(stamp) /\ expireAt' = now + Window
  BY DEF Pipeline
<1>3. ASSUME NEW a \in accepted, ~(a + Window <= now)
      PROVE  a \in Kept(stamp) /\ a + Window <= now + Window
  <2>1. a \in Live
    BY <1>3 DEF Remembered, Live, TypeOK, Times
  <2>2. a + Window > stamp /\ a <= now
    BY <1>3, <2>1 DEF LogInTime, Live, TypeOK, Times
  <2>. QED  BY <2>1, <2>2 DEF Kept, TypeOK, Times
<1>4. stamp \in Kept(stamp) /\ stamp + Window <= now + Window
  BY DEF Kept, TypeOK, Times
<1>. QED  BY <1>1, <1>2, <1>3, <1>4 DEF LogInTime, TypeOK, Times

\* The counted window: a stretch of Window - MaxDelay that holds the stamp has
\* only accepted stamps that the pipeline still finds in the set.
LEMMA WindowCounted ==
  ASSUME TypeOK, LogInTime, Remembered, NEW stamp \in asked,
         stamp <= now, now <= stamp + MaxDelay, NEW from \in Times,
         from <= stamp, stamp + MaxDelay < from + Window
  PROVE  {a \in accepted \cup {stamp} : from <= a /\ a + MaxDelay < from + Window}
            \subseteq Kept(stamp)
<1> SUFFICES ASSUME NEW a \in accepted, from <= a, a + MaxDelay < from + Window
             PROVE  a \in Kept(stamp)
  BY DEF Kept
<1>1. a \in Times /\ now \in Times /\ expireAt \in Nat /\ stamp \in Times
  BY DEF TypeOK, Times
<1>2. a + Window > stamp + MaxDelay
  BY <1>1 DEF Times
<1>3. a + Window > now
  BY <1>1, <1>2 DEF Times
<1>4. a \in log /\ now < expireAt
  BY <1>1, <1>3 DEF Remembered, Times
<1>5. a + Window > stamp
  BY <1>1, <1>2 DEF Times
<1>. QED  BY <1>4, <1>5 DEF Kept, Live

-----------------------------------------------------------------------------
(* The invariant *)

\* Nothing has been asked or accepted.
LEMMA InitInv == Init => IInv
<1> SUFFICES ASSUME Init PROVE IInv
  OBVIOUS
<1>1. TypeOK /\ FlightInTime /\ LogInTime /\ Remembered /\ TurnedAway /\ RefusalsJustified
  BY DEF Init, TypeOK, FlightInTime, LogInTime, Remembered, TurnedAway, InFlight,
         RefusalsJustified, Times
<1>2. WindowBound
  <2> SUFFICES ASSUME NEW from \in Times
               PROVE  Cardinality({a \in accepted : from <= a /\ a + MaxDelay < from + Window})
                        <= Limit
    BY DEF WindowBound
  <2>1. {a \in accepted : from <= a /\ a + MaxDelay < from + Window} = {}
    BY DEF Init
  <2>. QED  BY <2>1, FS_EmptySet
<1>. QED  BY <1>1, <1>2 DEF IInv

\* Every step keeps the invariant.
LEMMA NextInv == IInv /\ [Next]_vars => IInv'
<1> SUFFICES ASSUME IInv, [Next]_vars PROVE IInv'
  OBVIOUS
<1> USE DEF IInv
<1>1. ASSUME NEW r \in Requests, NEW stamp \in Times, Arrive(r, stamp)
      PROVE  IInv'
  <2>1. TypeOK'
    BY <1>1 DEF Arrive, TypeOK, redis, Flight
  <2>2. FlightInTime'
    BY <1>1 DEF Arrive, FlightInTime, InFlight, TypeOK, redis, Flight, Times
  <2>3. LogInTime' /\ Remembered'
    BY <1>1 DEF Arrive, LogInTime, Remembered, redis
  <2>4. asked \subseteq asked' /\ asked \in SUBSET Times /\ asked' \in SUBSET Times
    BY <1>1, <2>1 DEF Arrive, TypeOK
  <2>5. TurnedAway'
    <3> SUFFICES ASSUME NEW q \in Requests, InFlight(q)', flight'[q].pc = "zrange"
                 PROVE  Justified(asked', flight'[q].stamp)
      BY DEF TurnedAway
    <3>1. flight'[q] = flight[q] /\ InFlight(q)
      BY <1>1 DEF Arrive, InFlight, TypeOK
    <3>2. flight[q].stamp \in Times /\ Justified(asked, flight[q].stamp)
      BY <3>1 DEF TurnedAway, TypeOK, InFlight, Flight
    <3>3. ASSUME NEW s \in Times, Justified(asked, s)
          PROVE  Justified(asked', s)
      BY <2>4, <3>3, JustifiedStays
    <3>. QED  BY <3>1, <3>2, <3>3
  <2>6. WindowBound'
    BY <1>1 DEF Arrive, WindowBound
  <2>7. RefusalsJustified'
    <3> SUFFICES ASSUME NEW x \in refused
                 PROVE  Justified(asked', x.stamp)
      BY <1>1 DEF RefusalsJustified, Justified, Arrive
    <3>1. x.stamp \in Times /\ Justified(asked, x.stamp)
      BY DEF TypeOK, Refusal, RefusalsJustified, Justified
    <3>. QED  BY <3>1, <2>4, JustifiedStays
  <2>. QED  BY <2>1, <2>2, <2>3, <2>5, <2>6, <2>7
<1>2. ASSUME NEW r \in Requests, Accept(r)
      PROVE  IInv'
  <2> DEFINE s == flight[r].stamp
  <2>1. s \in asked /\ s \in Times /\ s <= now /\ now <= s + MaxDelay
    BY <1>2 DEF Accept, FlightInTime, InFlight, TypeOK, Flight
  <2>2. Pipeline(s) /\ now' = now /\ asked' = asked /\ accepted' = accepted \cup {s}
    BY <1>2 DEF Accept
  <2>3. /\ log' \in SUBSET Times
        /\ expireAt' \in 0..(MaxTime + Window)
        /\ LogInTime'
        /\ \A a \in accepted : a + Window <= now \/ (a \in log' /\ a + Window <= expireAt')
        /\ s \in log' /\ s + Window <= expireAt'
    <3> HIDE DEF s
    <3>. QED  BY <2>1, <2>2, PipelineKeeps
  <2>4. TypeOK'
    BY <1>2, <2>1, <2>3 DEF Accept, TypeOK
  <2>5. FlightInTime' /\ TurnedAway' /\ RefusalsJustified'
    BY <1>2 DEF Accept, FlightInTime, InFlight, TypeOK, TurnedAway, Justified,
                RefusalsJustified
  <2>6. Remembered'
    <3> HIDE DEF s
    <3>. QED  BY <2>2, <2>3 DEF Remembered
  <2>7. WindowBound'
    <3> SUFFICES ASSUME NEW from \in Times
                 PROVE  Cardinality({a \in accepted \cup {s} :
                                       from <= a /\ a + MaxDelay < from + Window}) <= Limit
      BY <2>2 DEF WindowBound
    <3> DEFINE W == {a \in accepted \cup {s} : from <= a /\ a + MaxDelay < from + Window}
    <3>1. CASE from <= s /\ s + MaxDelay < from + Window
      <4>1. W \subseteq Kept(s)
        <5> HIDE DEF s
        <5>. QED  BY <2>1, <3>1, WindowCounted
      <4>2. Kept(s) \in SUBSET Times
        BY <2>2, <2>3 DEF Pipeline
      <4>3. Cardinality(W) <= Cardinality(Kept(s)) /\ Cardinality(Kept(s)) \in Nat
            /\ Cardinality(W) \in Nat
        <5> HIDE DEF W, s
        <5>. QED  BY <4>1, <4>2, StampsMonotone, StampsFinite
      <4>4. Cardinality(Kept(s)) <= Limit
        BY <1>2 DEF Accept
      <4>. QED
        <5> HIDE DEF W, s
        <5>1. Cardinality(W) <= Limit
          BY <4>3, <4>4
        <5>. QED  BY <5>1 DEF W
    <3>2. CASE ~(from <= s /\ s + MaxDelay < from + Window)
      <4>1. W = {a \in accepted : from <= a /\ a + MaxDelay < from + Window}
        BY <3>2
      <4>. QED  BY <4>1 DEF WindowBound
    <3>. QED  BY <3>1, <3>2
  <2>. QED  BY <2>3, <2>4, <2>5, <2>6, <2>7
<1>3. ASSUME NEW r \in Requests, OverLimit(r)
      PROVE  IInv'
  <2> DEFINE s == flight[r].stamp
  <2>1. s \in asked /\ s \in Times /\ s <= now /\ now <= s + MaxDelay
    BY <1>3 DEF OverLimit, FlightInTime, InFlight, TypeOK, Flight
  <2>2. Pipeline(s) /\ UNCHANGED <<now, asked, accepted, refused>>
    BY <1>3 DEF OverLimit
  <2>3. /\ log' \in SUBSET Times
        /\ expireAt' \in 0..(MaxTime + Window)
        /\ LogInTime'
        /\ \A a \in accepted : a + Window <= now \/ (a \in log' /\ a + Window <= expireAt')
        /\ s \in log' /\ s + Window <= expireAt'
    <3> HIDE DEF s
    <3>. QED  BY <2>1, <2>2, PipelineKeeps
  <2>4. flight[r] \in Flight
    BY <1>3 DEF OverLimit, TypeOK
  <2>5. flight' = [flight EXCEPT ![r] = [flight[r] EXCEPT !.pc = "zrange"]]
    BY <1>3 DEF OverLimit
  <2>6. [flight[r] EXCEPT !.pc = "zrange"] \in Flight
        /\ [flight[r] EXCEPT !.pc = "zrange"].stamp = s
    BY <2>4 DEF Flight
  <2>7. TypeOK'
    BY <2>2, <2>3, <2>5, <2>6 DEF TypeOK
  <2>8. FlightInTime'
    BY <2>1, <2>2, <2>5, <2>6 DEF FlightInTime, InFlight, TypeOK
  <2>9. Justified(asked, s)
    <3> DEFINE J == {a \in asked : a + Window > s /\ a <= s + MaxDelay}
    <3>1. \A a \in Kept(s) : a \in Times /\ a + Window > s /\ a <= now /\ a \in asked
      BY <2>1, WindowAssumption DEF Kept, Live, LogInTime, TypeOK, Times
    <3>2. Kept(s) \subseteq J
      BY <2>1, <3>1 DEF TypeOK, Times
    <3>3. J \in SUBSET Times
      BY DEF TypeOK
    <3>4. Cardinality(Kept(s)) <= Cardinality(J) /\ Cardinality(J) \in Nat
          /\ Cardinality(Kept(s)) \in Nat
      <4> HIDE DEF J, s
      <4>. QED  BY <3>2, <3>3, StampsMonotone, StampsFinite
    <3>5. Cardinality(Kept(s)) > Limit
      BY <1>3 DEF OverLimit
    <3>6. Cardinality(J) > Limit
      <4> HIDE DEF J, s
      <4>. QED  BY <3>4, <3>5
    <3>. QED  BY <3>6 DEF Justified
  <2>10. TurnedAway'
    <3> SUFFICES ASSUME NEW q \in Requests, InFlight(q)', flight'[q].pc = "zrange"
                 PROVE  Justified(asked, flight'[q].stamp)
      BY <2>2 DEF TurnedAway, Justified
    <3>1. CASE q = r
      BY <2>5, <2>6, <2>9, <3>1 DEF TypeOK
    <3>2. CASE q # r
      BY <2>5, <3>2 DEF TurnedAway, InFlight, TypeOK
    <3>. QED  BY <3>1, <3>2
  <2>11. Remembered' /\ WindowBound' /\ RefusalsJustified'
    BY <2>2, <2>3 DEF Remembered, WindowBound, RefusalsJustified
  <2>. QED  BY <2>3, <2>7, <2>8, <2>10, <2>11
<1>4. ASSUME NEW r \in Requests, flight[r] # Idle, flight[r].pc = "pipeline",
             Pipeline(flight[r].stamp), UNCHANGED <<now, asked, accepted, refused>>,
             flight' = flight \/ flight' = [flight EXCEPT ![r] = Idle]
      PROVE  IInv'
  <2> DEFINE s == flight[r].stamp
  <2>1. s \in asked /\ s \in Times /\ s <= now /\ now <= s + MaxDelay
    BY <1>4 DEF FlightInTime, InFlight, TypeOK, Flight
  <2>2. /\ log' \in SUBSET Times
        /\ expireAt' \in 0..(MaxTime + Window)
        /\ LogInTime'
        /\ \A a \in accepted : a + Window <= now \/ (a \in log' /\ a + Window <= expireAt')
        /\ s \in log' /\ s + Window <= expireAt'
    <3>1. Pipeline(s) /\ now' = now /\ asked' = asked
      BY <1>4
    <3> HIDE DEF s
    <3>. QED  BY <2>1, <3>1, PipelineKeeps
  <2>3. TypeOK'
    BY <1>4, <2>2 DEF TypeOK
  <2>4. FlightInTime' /\ TurnedAway'
    BY <1>4 DEF FlightInTime, InFlight, TypeOK, TurnedAway, Justified
  <2>5. Remembered' /\ WindowBound' /\ RefusalsJustified'
    BY <1>4, <2>2 DEF Remembered, WindowBound, RefusalsJustified
  <2>. QED  BY <2>2, <2>3, <2>4, <2>5
<1>5. ASSUME NEW r \in Requests, Refuse(r)
      PROVE  IInv'
  <2> DEFINE s == flight[r].stamp
  <2>1. PICK retry \in 0..(MaxTime + Window) :
          /\ RetryAfter(s, retry)
          /\ refused' = refused \cup {[stamp |-> s, retry |-> retry]}
    BY <1>5 DEF Refuse
  <2>2. flight' = [flight EXCEPT ![r] = Idle] /\ UNCHANGED <<now, log, expireAt, asked, accepted>>
    BY <1>5 DEF Refuse, redis
  <2>3. s \in Times /\ Justified(asked, s) /\ now <= s + MaxDelay
    BY <1>5 DEF Refuse, TypeOK, Flight, TurnedAway, InFlight, FlightInTime
  <2>4. retry \in 1..(Window + MaxDelay)
    <3>1. \A e \in Live : e \in Times /\ e <= s + MaxDelay
      BY <2>3 DEF Live, LogInTime, TypeOK, Times
    <3>2. CASE Live = {}
      BY <2>1, <3>2 DEF RetryAfter
    <3>3. ASSUME NEW oldest \in Live,
                 retry = IF oldest + Window <= s THEN 1 ELSE oldest + Window - s
          PROVE  retry \in 1..(Window + MaxDelay)
      BY <2>3, <3>1, <3>3 DEF Times
    <3>. QED  BY <2>1, <3>2, <3>3 DEF RetryAfter
  <2>5. TypeOK'
    BY <2>1, <2>2, <2>3, <2>4 DEF TypeOK, Refusal
  <2>6. FlightInTime' /\ TurnedAway'
    BY <2>2 DEF FlightInTime, InFlight, TypeOK, TurnedAway, Justified
  <2>7. LogInTime' /\ Remembered' /\ WindowBound'
    BY <2>2 DEF LogInTime, Remembered, WindowBound
  <2>8. RefusalsJustified'
    <3> SUFFICES ASSUME NEW x \in refused' PROVE Justified(asked, x.stamp)
      BY <2>2 DEF RefusalsJustified, Justified
    <3>1. CASE x \in refused
      BY <3>1 DEF RefusalsJustified, Justified
    <3>2. CASE x = [stamp |-> s, retry |-> retry]
      BY <2>3, <3>2
    <3>. QED  BY <2>1, <3>1, <3>2
  <2>. QED  BY <2>5, <2>6, <2>7, <2>8
<1>6. ASSUME NEW r \in Requests, Degrade(r)
      PROVE  IInv'
  <2>1. CASE flight[r].pc = "pipeline" /\ Pipeline(flight[r].stamp)
    BY <1>4, <1>6, <2>1 DEF Degrade
  <2>2. CASE UNCHANGED redis
    <3>1. TypeOK' /\ FlightInTime' /\ TurnedAway'
      BY <1>6, <2>2 DEF Degrade, redis, TypeOK, FlightInTime, InFlight, TurnedAway, Justified
    <3>2. LogInTime' /\ Remembered' /\ WindowBound' /\ RefusalsJustified'
      BY <1>6, <2>2 DEF Degrade, redis, LogInTime, Remembered, WindowBound, RefusalsJustified
    <3>. QED  BY <3>1, <3>2
  <2>. QED  BY <1>6, <2>1, <2>2 DEF Degrade
<1>7. CASE Tick
  <2>1. TypeOK' /\ FlightInTime'
    BY <1>7 DEF Tick, redis, TypeOK, FlightInTime, InFlight, Times, Flight
  <2>2. LogInTime' /\ Remembered'
    BY <1>7 DEF Tick, redis, TypeOK, LogInTime, Remembered, Times
  <2>3. TurnedAway' /\ WindowBound' /\ RefusalsJustified'
    BY <1>7 DEF Tick, redis, TurnedAway, InFlight, Justified, WindowBound, RefusalsJustified
  <2>. QED  BY <2>1, <2>2, <2>3
<1>8. CASE UNCHANGED vars
  BY <1>8 DEF vars, TypeOK, FlightInTime, InFlight, LogInTime, Remembered, TurnedAway,
              Justified, WindowBound, RefusalsJustified
<1>9. ASSUME NEW r \in Requests, ReplyLost(r)
      PROVE  IInv'
  BY <1>4, <1>9 DEF ReplyLost
<1>. QED  BY <1>1, <1>2, <1>3, <1>5, <1>6, <1>7, <1>8, <1>9 DEF Next

\* The invariant holds in every reachable state.
LEMMA Invariance == Spec => []IInv
BY InitInv, NextInv, PTL DEF Spec

\* Type correctness of the limiter, with the bounds of Retry-After.
THEOREM TypeCorrect == Spec => []TypeOK
<1>1. IInv => TypeOK
  BY DEF IInv
<1>. QED  BY <1>1, Invariance, PTL

\* The limit of any stretch of Window - MaxDelay, for every limit and window.
THEOREM LimitHolds == Spec => []WindowBound
<1>1. IInv => WindowBound
  BY DEF IInv
<1>. QED  BY <1>1, Invariance, PTL

\* Every 429 has more than Limit requests behind it.
THEOREM NoUnjustRefusal == Spec => []RefusalsJustified
<1>1. IInv => RefusalsJustified
  BY DEF IInv
<1>. QED  BY <1>1, Invariance, PTL
=============================================================================
