-------------------------- MODULE EmployeeAppProofs --------------------------
(***************************************************************************)
(* Theorems about EmployeeApp for every number of presses and retries.     *)
(***************************************************************************)
EXTENDS EmployeeApp, TLAPS

-----------------------------------------------------------------------------
(* Types, and how often an attempt is made *)

\* A press has made no attempt while it is idle, and may make one when it waits
\* for a repeat.
Counted ==
  \A n \in Presses : /\ call[n] = "idle" => try[n] = 0
                     /\ call[n] = "backoff" => try[n] <= MaxRetries

Typed == TypeOK /\ Counted

LEMMA TypedInit == Init => Typed
<1> SUFFICES ASSUME Init
             PROVE  Typed
  OBVIOUS
<1>1. try \in [Presses -> 0..MaxRetries + 1] /\ Counted
  BY BoundsAssumption DEF Init, Counted
<1>2. loads \subseteq {Asked, Error, Failed, None} \cup Presses /\ home \in Views
  BY DEF Init, Views
<1>. QED  BY <1>1, <1>2 DEF Init, Typed, TypeOK

\* One more attempt of a press that is idle or waits for a repeat.
LEMMA TypedSend ==
  ASSUME Typed, NEW n \in Presses, call[n] \in {"idle", "backoff"}, Send(n)
  PROVE  /\ sent' \subseteq Attempts /\ UNCHANGED <<stored, ran, lapsed>>
         /\ call' \in [Presses -> {"idle", "waiting", "backoff", "ok", "failed", "dropped"}]
         /\ try' \in [Presses -> 0..MaxRetries + 1]
         /\ Counted'
<1>1. try[n] \in 0..MaxRetries
  BY BoundsAssumption DEF Typed, TypeOK, Counted
<1>2. try[n] + 1 \in 1..MaxRetries + 1
  BY <1>1, BoundsAssumption
<1>3. <<n, try[n] + 1>> \in Attempts
  BY <1>2 DEF Attempts
<1>4. try' \in [Presses -> 0..MaxRetries + 1]
  BY <1>2 DEF Send, Typed, TypeOK
<1>5. Counted'
  BY DEF Send, Typed, TypeOK, Counted
<1>. QED  BY <1>3, <1>4, <1>5 DEF Send, Typed, TypeOK

\* Rejecting a press, or aborting and asking again, keeps the types.
LEMMA TypedReject ==
  ASSUME Typed, NEW n \in Presses, Reject(n), sent' \subseteq sent,
         UNCHANGED <<stored, ran, lapsed>>
  PROVE  Typed'
<1>1. Counted'
  BY DEF Reject, Typed, TypeOK, Counted
<1>. QED  BY <1>1 DEF Reject, Typed, TypeOK

LEMMA TypedNext == Typed /\ [Next]_vars => Typed'
<1> SUFFICES ASSUME Typed, [Next]_vars
             PROVE  Typed'
  OBVIOUS
<1>1. CASE UNCHANGED vars
  BY <1>1 DEF vars, Typed, TypeOK, Counted
<1>2. CASE Tick \/ Answered \/ Show \/ Open \/ Opened \/ Back
  <2>1. Counted'
    BY <1>2 DEF Typed, Counted, Tick, Answered, Show, Open, Opened, Back, calls
  <2>2. TypeOK'
    BY <1>2 DEF Typed, TypeOK, Views, Tick, Answered, Show, Open, Opened, Back, EnterHome, Fetch,
                service, calls
  <2>. QED  BY <2>1, <2>2 DEF Typed
<1>3. CASE Reload
  <2>1. Counted'
    BY <1>3 DEF Typed, TypeOK, Counted, Reload
  <2>2. TypeOK'
    BY <1>3 DEF Typed, TypeOK, Views, Reload, EnterHome, Fetch, service
  <2>. QED  BY <2>1, <2>2 DEF Typed
<1>4. ASSUME NEW n \in Presses, Press(n)
      PROVE  Typed'
  <2>1. call[n] = "idle" /\ Send(n)
    BY <1>4 DEF Press, Fresh, Presses
  <2>. QED  BY <1>4, <2>1, TypedSend DEF Press, Typed, TypeOK
<1>5. ASSUME NEW n \in Presses, Retry(n)
      PROVE  Typed'
  BY <1>5, TypedSend DEF Retry, display, Typed, TypeOK
<1>6. ASSUME NEW n \in Presses, GiveUp(n)
      PROVE  Typed'
  <2>1. CASE Reject(n)
    BY <1>6, <2>1, TypedReject DEF GiveUp, service
  <2>2. CASE /\ try[n] <= MaxRetries
             /\ call' = [call EXCEPT ![n] = "backoff"] /\ UNCHANGED <<try, display, told>>
    <3>1. Counted'
      BY <2>2 DEF Typed, TypeOK, Counted
    <3>. QED  BY <1>6, <2>2, <3>1 DEF GiveUp, service, display, Typed, TypeOK
  <2>. QED  BY <1>6, <2>1, <2>2 DEF GiveUp, Repeats
<1>7. ASSUME NEW n \in Presses, Refused(n)
      PROVE  Typed'
  BY <1>7, TypedReject DEF Refused
<1>8. ASSUME NEW n \in Presses, Accepted(n)
      PROVE  Typed'
  <2>1. Counted'
    BY <1>8 DEF Typed, TypeOK, Counted, Accepted
  <2>. QED
    BY <1>8, <2>1 DEF Typed, TypeOK, Views, Accepted, EnterHome, Fetch, service
<1>9. ASSUME NEW a \in Attempts, Run(a)
      PROVE  Typed'
  <2>1. a[1] \in Presses
    BY DEF Attempts
  <2>2. Counted'
    BY <1>9 DEF Typed, Counted, Run, calls
  <2>. QED  BY <1>9, <2>1, <2>2 DEF Typed, TypeOK, Run, calls, display
<1>10. CASE DrainedEarlier \/ Lapse
  <2>1. stored' \in Presses \cup {None}
    BY <1>10 DEF DrainedEarlier, Lapse, Typed, TypeOK, Attempts
  <2>2. lapsed' \in BOOLEAN /\ UNCHANGED <<sent, ran, calls, display, told>>
    BY <1>10 DEF DrainedEarlier, Lapse, Typed, TypeOK
  <2>. QED  BY <2>1, <2>2 DEF Typed, TypeOK, Counted, calls, display
<1>. QED
  BY <1>1, <1>2, <1>3, <1>4, <1>5, <1>6, <1>7, <1>8, <1>9, <1>10 DEF Next

-----------------------------------------------------------------------------
(* What the lock and the aborts keep true *)

\* While a page awaits a press, no later one has been made; what has been sent,
\* has run or is shown belongs to a press.
Orderly ==
  /\ \A n \in page, m \in Presses : n < m => call[m] = "idle"
  /\ \A a \in sent \cup ran : call[a[1]] # "idle"
  /\ stored # None => call[stored] # "idle"

\* Until something lapses, what has taken effect shows, and from the first success
\* on no answer that says unreported is on its way to Home.
Informed ==
  lapsed \/ /\ ran # {} => stored # None
            /\ told # {} => stored # None /\ None \notin loads /\ home # None

IInv == Typed /\ Orderly /\ Informed

LEMMA IInvInit == Init => IInv
  BY TypedInit DEF Init, IInv, Orderly, Informed

LEMMA OrderlyNext == Typed /\ Orderly /\ [Next]_vars => Orderly'
<1> SUFFICES ASSUME Typed, Orderly, [Next]_vars
             PROVE  Orderly'
  OBVIOUS
<1>1. CASE UNCHANGED vars
  BY <1>1 DEF vars, Orderly
<1>2. CASE Tick \/ Answered \/ Show \/ Open \/ Opened \/ Back
  BY <1>2 DEF Orderly, Tick, Answered, Show, Open, Opened, Back, EnterHome, service, calls
<1>3. CASE Reload
  <2>1. \A n \in Presses : call'[n] = "idle" <=> call[n] = "idle"
    BY <1>3 DEF Reload, Pending
  <2>2. page' = {} /\ UNCHANGED service
    BY <1>3 DEF Reload, EnterHome
  <2>. QED  BY <2>1, <2>2 DEF Orderly, service, Typed, TypeOK, Attempts
<1>4. ASSUME NEW n \in Presses, Press(n)
      PROVE  Orderly'
  <2>1. /\ page' = {n} /\ sent' = sent \cup {<<n, try[n] + 1>>}
        /\ call' = [call EXCEPT ![n] = "waiting"] /\ UNCHANGED <<stored, ran>>
    BY <1>4 DEF Press, Send
  <2>2. \A m \in Presses : n < m => call[m] = "idle" /\ m # n
    BY <1>4 DEF Press, Fresh, Presses
  <2>3. \A m \in Presses : call'[m] = IF m = n THEN "waiting" ELSE call[m]
    BY <2>1 DEF Typed, TypeOK
  <2>4. \A a \in sent' \cup ran' : a = <<n, try[n] + 1>> \/ (a \in sent \cup ran /\ a[1] \in Presses)
    BY <2>1 DEF Typed, TypeOK, Attempts
  <2>. QED  BY <2>1, <2>2, <2>3, <2>4 DEF Orderly, Typed, TypeOK
<1>5. ASSUME NEW n \in Presses, Retry(n)
      PROVE  Orderly'
  <2>1. /\ sent' = sent \cup {<<n, try[n] + 1>>}
        /\ call' = [call EXCEPT ![n] = "waiting"] /\ UNCHANGED <<stored, ran, page>>
    BY <1>5 DEF Retry, Send, display
  <2>2. \A m \in Presses : call'[m] = IF m = n THEN "waiting" ELSE call[m]
    BY <2>1 DEF Typed, TypeOK
  <2>3. \A a \in sent' \cup ran' : a = <<n, try[n] + 1>> \/ (a \in sent \cup ran /\ a[1] \in Presses)
    BY <2>1 DEF Typed, TypeOK, Attempts
  <2>4. call[n] # "idle"
    BY <1>5 DEF Retry
  <2>. QED  BY <2>1, <2>2, <2>3, <2>4 DEF Orderly, Typed, TypeOK
<1>6. ASSUME NEW n \in Presses, GiveUp(n) \/ Refused(n) \/ Accepted(n)
      PROVE  Orderly'
  <2>1. \A m \in Presses : call'[m] = "idle" <=> call[m] = "idle"
    BY <1>6 DEF GiveUp, Refused, Accepted, Reject, Typed, TypeOK
  <2>2. page' \subseteq page /\ stored' = stored /\ sent' \subseteq sent /\ ran' = ran
    BY <1>6 DEF GiveUp, Refused, Accepted, Reject, EnterHome, service, display
  <2>. QED  BY <2>1, <2>2 DEF Orderly, Typed, TypeOK, Attempts
<1>7. ASSUME NEW a \in Attempts, Run(a)
      PROVE  Orderly'
  BY <1>7 DEF Run, Orderly, calls, display, Typed, TypeOK
<1>8. CASE DrainedEarlier \/ Lapse
  <2>1. UNCHANGED <<sent, ran, call, page>>
    BY <1>8 DEF DrainedEarlier, Lapse, calls, display
  <2>2. stored' = None \/ \E a \in ran : stored' = a[1]
    BY <1>8 DEF DrainedEarlier, Lapse
  <2>. QED  BY <2>1, <2>2 DEF Orderly
<1>. QED
  BY <1>1, <1>2, <1>3, <1>4, <1>5, <1>6, <1>7, <1>8 DEF Next

LEMMA InformedNext == Typed /\ Informed /\ [Next]_vars => Informed'
<1> SUFFICES ASSUME Typed, Informed, [Next]_vars
             PROVE  Informed'
  OBVIOUS
<1> USE MarksAssumption
<1>1. CASE UNCHANGED vars
  BY <1>1 DEF vars, Informed
<1>2. CASE Tick \/ Answered \/ Show \/ Open \/ Opened \/ Back \/ Reload
  BY <1>2 DEF Informed, Tick, Answered, Show, Open, Opened, Back, Reload, EnterHome, Fetch, service
<1>3. ASSUME NEW n \in Presses, Press(n) \/ Retry(n) \/ GiveUp(n) \/ Refused(n)
      PROVE  Informed'
  BY <1>3 DEF Informed, Press, Retry, Send, GiveUp, Refused, Reject, service, display
<1>4. ASSUME NEW n \in Presses, Accepted(n)
      PROVE  Informed'
  BY <1>4 DEF Informed, Accepted, EnterHome, Fetch, service
<1>5. ASSUME NEW a \in Attempts, Run(a)
      PROVE  Informed'
  <2>1. a[1] # None
    BY DEF Attempts
  <2>. QED  BY <1>5, <2>1 DEF Informed, Run, display
<1>6. CASE DrainedEarlier
  <2>1. stored' # None
    BY <1>6 DEF DrainedEarlier, Typed, TypeOK, Attempts
  <2>. QED  BY <1>6, <2>1 DEF Informed, DrainedEarlier, display
<1>7. CASE Lapse
  BY <1>7 DEF Informed, Lapse
<1>. QED
  BY <1>1, <1>2, <1>3, <1>4, <1>5, <1>6, <1>7 DEF Next

LEMMA Invariance == Spec => []IInv
<1>1. IInv /\ [Next]_vars => IInv'
  BY TypedNext, OrderlyNext, InformedNext DEF IInv
<1>. QED  BY <1>1, IInvInit, PTL DEF Spec

-----------------------------------------------------------------------------
(* Theorems *)

\* Every variable has its type; no press makes more than MaxRetries + 1 attempts.
THEOREM TypeCorrect == Spec => []TypeOK
<1>1. IInv => TypeOK
  BY DEF IInv, Typed
<1>. QED  BY <1>1, Invariance, PTL

\* After a success Home never shows an answer that says unreported, unless the
\* report has lapsed; a load that failed is not such an answer.
THEOREM HomeInformed == Spec => []HomeKnows
<1>1. IInv => HomeKnows
  BY DEF IInv, Informed, HomeKnows
<1>. QED  BY <1>1, Invariance, PTL

\* Only an attempt that nobody waits for any more replaces a newer report.
THEOREM Unawaited == Spec => OlderOnlyUnawaited
<1> DEFINE A == \A a \in Attempts :
       a \in sent /\ a \notin sent' /\ stored' = a[1] /\ stored # None /\ a[1] < stored => ~Awaited(a)
<1>1. IInv => A
  <2> SUFFICES ASSUME IInv, NEW a \in Attempts, stored # None, a[1] < stored, Awaited(a)
               PROVE  FALSE
    OBVIOUS
  <2>1. a[1] \in page /\ stored \in Presses
    BY DEF Awaited, IInv, Typed, TypeOK
  <2>2. call[stored] = "idle" /\ call[stored] # "idle"
    BY <2>1 DEF IInv, Orderly
  <2>. QED  BY <2>2
<1>2. IInv /\ [Next]_vars => [A]_vars
  BY <1>1
<1>. QED  BY <1>2, Invariance, PTL DEF Spec, OlderOnlyUnawaited
=============================================================================
