----------------------------- MODULE EmployeeApp -----------------------------
(***************************************************************************)
(* The employee's side of a report to one event: ReportPage with its       *)
(* optimistic lock, the http client that repeats submissions of unknown    *)
(* outcome, and Home, which loads what the service shows.  An attempt the  *)
(* client has given up may still run.  The service is what ReportBuffer    *)
(* leaves of the write path while Redis answers and the replica does not   *)
(* lag: an attempt that takes effect shows, racing drains may bring back   *)
(* an earlier report, and a report whose hash expires unwritten lapses.    *)
(* A report is identified by the press that made it.                       *)
(***************************************************************************)
EXTENDS Naturals

CONSTANTS
  MaxRetries,  \* MAX_RETRIES of the client
  MaxPresses,  \* bound: presses of a report button
  None, Asked, Loading, Error, Failed

ASSUME BoundsAssumption == MaxRetries \in Nat /\ MaxPresses \in Nat

Presses == 1..MaxPresses
Attempts == Presses \X (1..MaxRetries + 1)
\* What Home can have of the report: loading, the error screen, a null because
\* my-report failed, unreported (None), or a report.
Views == {Loading, Error, Failed, None} \cup Presses

ASSUME MarksAssumption ==
  /\ {None, Asked, Loading, Error, Failed} \cap Presses = {}
  /\ None \notin {Asked, Loading, Error, Failed} /\ Asked \notin {Error, Failed}

VARIABLES
  stored,  \* the report the service shows, None if unreported
  sent,    \* attempts that have not run and may still
  ran,     \* attempts that have taken effect
  lapsed,  \* history: what showed has expired before it was written
  call,    \* the promise of each press
  try,     \* number of attempts of each press
  screen,  \* "home", "opening" (ReportPage loads or has failed to) or "report"
  page,    \* the presses of the open ReportPage that are pending: it is submitted
  loads,   \* Home's requests in flight: Asked, or the answer on its way
  home,    \* what Home shows
  told     \* presses whose success has been toasted

vars == <<stored, sent, ran, lapsed, call, try, screen, page, loads, home, told>>
service == <<stored, sent, ran, lapsed>>
calls == <<call, try>>
display == <<screen, page, loads, home>>

Pending(n) == call[n] \in {"waiting", "backoff"}
Last(n) == <<n, try[n]>>

Init ==
  /\ stored = None /\ sent = {} /\ ran = {} /\ lapsed = FALSE
  /\ call = [n \in Presses |-> "idle"] /\ try = [n \in Presses |-> 0]
  /\ screen = "home" /\ page = {} /\ loads = {Asked} /\ home = Loading
  /\ told = {}

-----------------------------------------------------------------------------
(* Home *)

\* Mutant: the effect has no cleanup.
FetchKeepingOld ==
  /\ loads' = loads \cup {Asked}
  /\ home' = Loading

\* The effect runs again: the request in flight is aborted and a new one sent.
Fetch ==
  /\ loads' = {Asked}
  /\ home' = Loading

\* Home mounts, or navigate('/') gives its location a new key; another page,
\* and its lock with it, is gone.
EnterHome ==
  /\ screen' = "home"
  /\ page' = {}
  /\ Fetch

\* The interval or the focus of the window.
Tick ==
  /\ screen = "home"
  /\ Fetch
  /\ UNCHANGED <<service, calls, screen, page, told>>

\* listEvents and getMyReport reach the service, or fail after their retries.
Answered ==
  /\ Asked \in loads
  /\ \E a \in {stored, Failed, Error} : loads' = (loads \ {Asked}) \cup {a}
  /\ UNCHANGED <<service, calls, screen, page, home, told>>

Show ==
  /\ screen = "home"
  /\ \E a \in loads \ {Asked} : home' = a /\ loads' = loads \ {a}
  /\ UNCHANGED <<service, calls, screen, page, told>>

-----------------------------------------------------------------------------
(* ReportPage and the client *)

\* Home unmounts and aborts; the page asks for the event and the report.
Open ==
  /\ screen = "home"
  /\ screen' = "opening" /\ page' = {} /\ loads' = {} /\ home' = Loading
  /\ UNCHANGED <<service, calls, told>>

Opened ==
  /\ screen = "opening"
  /\ screen' = "report"
  /\ UNCHANGED <<service, calls, page, loads, home, told>>

\* Back to Home, while a submission may be pending.
Back ==
  /\ screen # "home"
  /\ EnterHome
  /\ UNCHANGED <<service, calls, told>>

\* client.request: one more attempt.
Send(n) ==
  /\ call' = [call EXCEPT ![n] = "waiting"]
  /\ try' = [try EXCEPT ![n] = @ + 1]
  /\ sent' = sent \cup {<<n, try[n] + 1>>}
  /\ UNCHANGED <<stored, ran, lapsed>>

\* Presses are numbered in their order.
Fresh(n) == \A m \in Presses : call[m] = "idle" <=> n <= m

\* Mutant: no lock.
PressUnlocked(n) ==
  /\ screen = "report" /\ Fresh(n)
  /\ page' = page \cup {n}
  /\ Send(n)
  /\ UNCHANGED <<screen, loads, home, told>>

\* handleReport, up to its await.
Press(n) ==
  /\ screen = "report" /\ page = {} /\ Fresh(n)
  /\ page' = page \cup {n}
  /\ Send(n)
  /\ UNCHANGED <<screen, loads, home, told>>

\* The delay is over: the same request again.
Retry(n) ==
  /\ call[n] = "backoff"
  /\ Send(n)
  /\ UNCHANGED <<display, told>>

\* The promise is rejected: the page that made the press unlocks, if it is open.
Reject(n) ==
  /\ call' = [call EXCEPT ![n] = "failed"]
  /\ page' = page \ {n}
  /\ UNCHANGED <<try, screen, loads, home, told>>

\* Mutant: the counter is compared after the attempt it counts.
RepeatsOnceMore(n) == try[n] <= MaxRetries + 1

\* attempt <= MAX_RETRIES, with the attempt that would come next.
Repeats(n) == try[n] <= MaxRetries

\* Mutant: the client has no timeout, and waits for an answer.
GiveUpAnswered(n) ==
  /\ call[n] = "waiting" /\ Last(n) \in ran
  /\ IF Repeats(n)
       THEN call' = [call EXCEPT ![n] = "backoff"] /\ UNCHANGED <<try, display, told>>
       ELSE Reject(n)
  /\ UNCHANGED service

\* A timeout, a broken connection, a 502, 503 or 504, whatever became of the
\* attempt; the client waits and repeats, or rejects after MAX_RETRIES.
GiveUp(n) ==
  /\ call[n] = "waiting"
  /\ IF Repeats(n)
       THEN call' = [call EXCEPT ![n] = "backoff"] /\ UNCHANGED <<try, display, told>>
       ELSE Reject(n)
  /\ UNCHANGED service

\* Any other error, before or after the attempt took effect.
Refused(n) ==
  /\ call[n] = "waiting" /\ Last(n) \in sent \cup ran
  /\ sent' = sent \ {Last(n)}
  /\ Reject(n)
  /\ UNCHANGED <<stored, ran, lapsed>>

\* The 200: a toast, and navigate('/') from wherever the user is by now.
Accepted(n) ==
  /\ call[n] = "waiting" /\ Last(n) \in ran
  /\ call' = [call EXCEPT ![n] = "ok"]
  /\ told' = told \cup {n}
  /\ EnterHome
  /\ UNCHANGED <<service, try>>

\* The browser reloads, also after a 401: promises are gone, attempts are not.
Reload ==
  /\ call' = [n \in Presses |-> IF Pending(n) THEN "dropped" ELSE call[n]]
  /\ EnterHome
  /\ UNCHANGED <<service, try, told>>

-----------------------------------------------------------------------------
(* The service *)

\* submit_report buffers the report of an attempt that has arrived.
Run(a) ==
  /\ a \in sent
  /\ stored' = a[1] /\ sent' = sent \ {a} /\ ran' = ran \cup {a}
  /\ UNCHANGED <<lapsed, calls, display, told>>

\* A drain that has read an earlier report commits last, or deletes or outlives
\* the hash of the later one.
DrainedEarlier ==
  /\ stored # None
  /\ \E a \in ran : stored' = a[1]
  /\ UNCHANGED <<sent, ran, lapsed, calls, display, told>>

\* The hash expires and no report has reached the row: a drain has lost the
\* directory that lists it.
Lapse ==
  /\ stored # None
  /\ stored' = None /\ lapsed' = TRUE
  /\ UNCHANGED <<sent, ran, calls, display, told>>

Next ==
  \/ Tick \/ Answered \/ Show \/ Open \/ Opened \/ Back \/ Reload
  \/ \E n \in Presses : Press(n) \/ Retry(n) \/ GiveUp(n) \/ Refused(n) \/ Accepted(n)
  \/ \E a \in Attempts : Run(a)
  \/ DrainedEarlier \/ Lapse

\* The browser's timers fire: the timeout of a request, the delay before a retry.
Fairness == \A n \in Presses : WF_vars(GiveUp(n)) /\ WF_vars(Retry(n))

Spec == Init /\ [][Next]_vars /\ Fairness

-----------------------------------------------------------------------------
(* Properties *)

\* Every variable has its type.
TypeOK ==
  /\ stored \in Presses \cup {None}
  /\ sent \subseteq Attempts /\ ran \subseteq Attempts /\ lapsed \in BOOLEAN
  /\ call \in [Presses -> {"idle", "waiting", "backoff", "ok", "failed", "dropped"}]
  /\ try \in [Presses -> 0..MaxRetries + 1]
  /\ screen \in {"home", "opening", "report"}
  /\ page \subseteq Presses
  /\ loads \subseteq {Asked, Error, Failed, None} \cup Presses
  /\ home \in Views
  /\ told \subseteq Presses

\* Once a success has been toasted Home never shows an answer that says the user
\* has not reported, however old its requests are and whichever page was open,
\* unless the report has lapsed.  (A my-report that fails is another matter: Home
\* takes it for a null, Home.tsx:43, the mark Failed.)
HomeKnows == told # {} => home # None \/ lapsed

\* A press is awaited while its page is open and its last attempt is pending.
Awaited(a) == /\ a[1] \in page /\ call[a[1]] = "waiting" /\ try[a[1]] = a[2]

\* When an attempt that arrives puts an older report over a newer one, nobody
\* waits for it any more: it was given up, repeated, refused, or left behind with
\* its page.  (Drains that bring back an older report do so without an arrival.)
OlderOnlyUnawaited ==
  [][\A a \in Attempts :
       a \in sent /\ a \notin sent' /\ stored' = a[1] /\ stored # None /\ a[1] < stored
         => ~Awaited(a)]_vars

\* The buttons come back: a page does not stay locked for a press, though its
\* attempts or their answers are lost.
LocksEnd == \A n \in Presses : n \in page ~> n \notin page
=============================================================================
