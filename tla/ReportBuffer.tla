---------------------------- MODULE ReportBuffer ----------------------------
(***************************************************************************)
(* The write path of a safety report: POST /reports/{event}/report puts    *)
(* the report in a Redis write buffer (one hash per event and user, one    *)
(* directory set per event), every pod runs a drainer that moves buffered  *)
(* reports into safety_reports with a batch UPDATE, and GET .../my-report  *)
(* overlays the buffer on the row.  Redis pipelines are MULTI/EXEC and a   *)
(* batch UPDATE commits atomically, so one action is one await of the      *)
(* code: between any two of them every other coroutine and pod may run.    *)
(***************************************************************************)
EXTENDS Naturals, FiniteSets

CONSTANTS
  Events, Users,
  Pods,          \* uvicorn processes, one drainer task each
  Requests,      \* slots for submissions in flight
  Readers,       \* slots for my-report reads in flight
  Placeholders,  \* pairs <<event, user>> that have a safety_reports row
  Statuses, Messages,
  MaxReports,    \* bound: submissions in a behaviour
  Faults,        \* what may go wrong, a subset of FaultKinds
  None

FaultKinds == {"redis",   \* a Redis command fails or times out
               "db",      \* a statement or a commit fails
               "crash",   \* a pod dies
               "stop",    \* a pod is shut down gracefully
               "lag"}     \* READ_DATABASE_URL names a replica that lags

Report == [status : Statuses, message : Messages \cup {None}, at : 1..MaxReports]
Row == [status : Statuses \cup {None}, message : Messages \cup {None}, at : 0..MaxReports]
Blank == [status |-> None, message |-> None, at |-> 0]
Keys == Events \X Users
Submission == [key : Keys, report : Report]

ASSUME MaxReportsAssumption == MaxReports \in Nat
ASSUME FaultsAssumption == Faults \subseteq FaultKinds
ASSUME PlaceholdersAssumption == Placeholders \subseteq Keys
ASSUME NoneAssumption == None \notin Statuses /\ None \notin Messages /\ None \notin Row
                           /\ None \notin Events

VARIABLES
  db,        \* safety_reports: a Row for every placeholder
  replica,   \* the rows as the read replica has them
  buf,       \* buf:report:{event}:{user}, None when the key is absent
  dir,       \* buf:events_with_pending:{event}
  mode,      \* pod: "run", "final" (the pass of stop_drainer), "gone"
  pc,        \* the drainer's next await
  todo,      \* event_ids still to drain in this pass
  cur,       \* the event being drained
  uids,      \* user_id_list, the snapshot taken by SMEMBERS
  records,   \* records, user |-> report
  req,       \* submissions in flight, None for a free slot
  read,      \* my-report reads, None for a free slot
  clock,     \* number of submissions so far; the next one is stamped clock+1
  submitted, \* history: every Submission that reached a handler
  acked,     \* history: those answered 200
  lapsed     \* history: pairs a hash of which has expired

stores == <<db, replica, buf, dir>>
drainers == <<mode, pc, todo, cur, uids, records>>
history == <<clock, submitted, acked, lapsed>>
vars == <<db, replica, buf, dir, mode, pc, todo, cur, uids, records, req, read,
          clock, submitted, acked, lapsed>>

Busy == {"deldir", "read", "update", "clear"}
Sub(k, r) == [key |-> k, report |-> r]
Reported(k) == k \in Placeholders /\ db[k].status # None

Request == [pc : {"buffer", "select", "write", "reply"}, pod : Pods, key : Keys,
            report : Report, buffered : BOOLEAN, loaded : Row]
Read == [pc : {"row", "done"}, key : Keys, over : Report \cup {None},
         due : BOOLEAN, answer : Row \cup {None}]

Init ==
  /\ db = [k \in Placeholders |-> Blank]
  /\ replica = db
  /\ buf = [k \in Keys |-> None]
  /\ dir = [e \in Events |-> {}]
  /\ mode = [p \in Pods |-> "run"]
  /\ pc = [p \in Pods |-> "sleep"]
  /\ todo = [p \in Pods |-> {}]
  /\ cur = [p \in Pods |-> None]
  /\ uids = [p \in Pods |-> {}]
  /\ records = [p \in Pods |-> <<>>]
  /\ req = [r \in Requests |-> None]
  /\ read = [g \in Readers |-> None]
  /\ clock = 0
  /\ submitted = {}
  /\ acked = {}
  /\ lapsed = {}

-----------------------------------------------------------------------------
(* submit_report *)

\* The handler starts: the report is stamped with now_utc.
Submit(r, p, k, s, m) ==
  /\ req[r] = None
  /\ mode[p] = "run"
  /\ clock < MaxReports
  /\ clock' = clock + 1
  /\ LET report == [status |-> s, message |-> m, at |-> clock + 1] IN
       /\ req' = [req EXCEPT ![r] = [pc |-> "buffer", pod |-> p, key |-> k, report |-> report,
                                     buffered |-> FALSE, loaded |-> Blank]]
       /\ submitted' = submitted \cup {Sub(k, report)}
  /\ UNCHANGED <<stores, drainers, read, acked, lapsed>>

\* The pipeline of buffer_report: HSET, EXPIRE, SADD, EXPIRE in one MULTI/EXEC.
BufferPipeline(k, report) ==
  /\ buf' = [buf EXCEPT ![k] = report]
  /\ dir' = [dir EXCEPT ![k[1]] = @ \cup {k[2]}]

\* Mutant: the pipeline is built and never executed.
BufferReportNotExecuted(r) ==
  /\ req[r] # None /\ req[r].pc = "buffer"
  /\ req' = [req EXCEPT ![r].pc = "select", ![r].buffered = TRUE]
  /\ UNCHANGED <<stores, drainers, read, history>>

BufferReport(r) ==
  /\ req[r] # None /\ req[r].pc = "buffer"
  /\ BufferPipeline(req[r].key, req[r].report)
  /\ req' = [req EXCEPT ![r].pc = "select", ![r].buffered = TRUE]
  /\ UNCHANGED <<db, replica, drainers, read, history>>

\* buffer_report fails (returns False); after a timeout the pipeline may have
\* run all the same.
BufferFails(r) ==
  /\ "redis" \in Faults
  /\ req[r] # None /\ req[r].pc = "buffer"
  /\ \/ BufferPipeline(req[r].key, req[r].report)
     \/ UNCHANGED <<buf, dir>>
  /\ req' = [req EXCEPT ![r].pc = "select", ![r].buffered = FALSE]
  /\ UNCHANGED <<db, replica, drainers, read, history>>

\* retry_on_timeout: the pipeline ran, the answer was lost, it will run again.
BufferRetries(r) ==
  /\ "redis" \in Faults
  /\ req[r] # None /\ req[r].pc = "buffer"
  /\ BufferPipeline(req[r].key, req[r].report)
  /\ UNCHANGED <<db, replica, drainers, req, read, history>>

\* SELECT of the placeholder: 404 without one, the buffered path answers, the
\* fallback goes on to write the row it has loaded.
SelectPlaceholder(r) ==
  /\ req[r] # None /\ req[r].pc = "select"
  /\ LET k == req[r].key IN
       IF k \notin Placeholders
         THEN req' = [req EXCEPT ![r] = None]
         ELSE req' = [req EXCEPT ![r].pc = IF req[r].buffered THEN "reply" ELSE "write",
                                 ![r].loaded = IF req[r].buffered THEN Blank ELSE db[k]]
  /\ UNCHANGED <<stores, drainers, read, history>>

\* The UPDATE the ORM emits: only the columns that differ from what was loaded.
ChangedColumns(row, loaded, report) ==
  [c \in {"status", "message", "at"} |-> IF report[c] = loaded[c] THEN row[c] ELSE report[c]]

\* Fallback: flush takes the row's lock and get_db commits; nobody reads or
\* writes the row in between, so the two are one step.
DirectWrite(r) ==
  /\ req[r] # None /\ req[r].pc = "write"
  /\ db' = [db EXCEPT ![req[r].key] = ChangedColumns(@, req[r].loaded, req[r].report)]
  /\ req' = [req EXCEPT ![r].pc = "reply", ![r].loaded = Blank]
  /\ UNCHANGED <<replica, buf, dir, drainers, read, history>>

\* The 200 response.
Respond(r) ==
  /\ req[r] # None /\ req[r].pc = "reply"
  /\ acked' = acked \cup {Sub(req[r].key, req[r].report)}
  /\ req' = [req EXCEPT ![r] = None]
  /\ UNCHANGED <<stores, drainers, read, clock, submitted, lapsed>>

\* A statement fails, or the commit of get_db does (its outcome may be
\* unknown): rollback and 500.
RequestFails(r) ==
  /\ "db" \in Faults
  /\ req[r] # None /\ req[r].pc \in {"select", "write", "reply"}
  /\ req' = [req EXCEPT ![r] = None]
  /\ UNCHANGED <<stores, drainers, read, history>>

-----------------------------------------------------------------------------
(* The drainer *)

\* The locals of drain_event_buffer go out of scope.
ForgetDrain(p) ==
  /\ cur' = [cur EXCEPT ![p] = None]
  /\ uids' = [uids EXCEPT ![p] = {}]
  /\ records' = [records EXCEPT ![p] = <<>>]

Goto(p, label) == pc' = [pc EXCEPT ![p] = label]

\* drain_all_pending_events: SCAN for directory keys.
Scan(p) ==
  /\ mode[p] # "gone" /\ pc[p] = "sleep"
  /\ todo' = [todo EXCEPT ![p] = {e \in Events : dir[e] # {}}]
  /\ Goto(p, "next")
  /\ UNCHANGED <<stores, mode, cur, uids, records, req, read, history>>

\* The pass is over; the final one ends the process.
PassDone(p) ==
  /\ pc[p] = "next" /\ todo[p] = {}
  /\ Goto(p, "sleep")
  /\ mode' = [mode EXCEPT ![p] = IF @ = "final" THEN "gone" ELSE @]
  /\ UNCHANGED <<stores, todo, cur, uids, records, req, read, history>>

\* drain_event_buffer(e): SMEMBERS; an empty set returns at once.
ReadMembers(p, e) ==
  /\ pc[p] = "next" /\ e \in todo[p]
  /\ todo' = [todo EXCEPT ![p] = @ \ {e}]
  /\ IF dir[e] = {}
       THEN UNCHANGED <<pc, cur, uids>>
       ELSE /\ cur' = [cur EXCEPT ![p] = e]
            /\ uids' = [uids EXCEPT ![p] = dir[e]]
            /\ Goto(p, "deldir")
  /\ UNCHANGED <<stores, mode, records, req, read, history>>

\* DEL of the directory key, a round trip after the SMEMBERS.
DeleteDir(p) ==
  /\ pc[p] = "deldir"
  /\ dir' = [dir EXCEPT ![cur[p]] = {}]
  /\ Goto(p, "read")
  /\ UNCHANGED <<db, replica, buf, mode, todo, cur, uids, records, req, read, history>>

\* Mutant: users without a hash are not filtered out.
EverybodyPending(e, S) == S

\* The users of a snapshot whose hash is still there.
Pending(e, S) == {u \in S : buf[<<e, u>>] # None}

\* Mutant: user ids zipped with the results of other users.
RecordsMisaligned(e, S) ==
  [u \in Pending(e, S) |->
     buf[<<e, CHOOSE w \in Pending(e, S) : w = u => Pending(e, S) = {u}>>]]

Records(e, S) == [u \in Pending(e, S) |-> buf[<<e, u>>]]

HashesDeleted(e, S) ==
  [k \in Keys |-> IF k[1] = e /\ k[2] \in S THEN None ELSE buf[k]]

\* Mutant: the earlier order, hashes deleted before the UPDATE.
ReadAndDeleteHashes(p) ==
  /\ pc[p] = "read"
  /\ IF Pending(cur[p], uids[p]) = {}
       THEN Goto(p, "next") /\ ForgetDrain(p)
       ELSE /\ Goto(p, "update")
            /\ records' = [records EXCEPT ![p] = Records(cur[p], uids[p])]
            /\ UNCHANGED <<cur, uids>>
  /\ buf' = HashesDeleted(cur[p], uids[p])
  /\ UNCHANGED <<db, replica, dir, mode, todo, req, read, history>>

\* The pipeline of HGETALLs; without records the drain returns.
ReadHashes(p) ==
  /\ pc[p] = "read"
  /\ IF Pending(cur[p], uids[p]) = {}
       THEN Goto(p, "next") /\ ForgetDrain(p)
       ELSE /\ Goto(p, "update")
            /\ records' = [records EXCEPT ![p] = Records(cur[p], uids[p])]
            /\ UNCHANGED <<cur, uids>>
  /\ UNCHANGED <<stores, mode, todo, req, read, history>>

\* Mutant: only rows still NULL are updated.
BatchUpdatedOnce(rows, e, recs) ==
  [k \in DOMAIN rows |->
     IF k[1] = e /\ k[2] \in DOMAIN recs /\ rows[k].status = None
       THEN recs[k[2]] ELSE rows[k]]

\* The rows of the UPDATE ... FROM (VALUES ...) that _batch_update_db commits.
BatchUpdated(rows, e, recs) ==
  [k \in DOMAIN rows |-> IF k[1] = e /\ k[2] \in DOMAIN recs THEN recs[k[2]] ELSE rows[k]]

UpdateDb(p) ==
  /\ pc[p] = "update"
  /\ db' = BatchUpdated(db, cur[p], records[p])
  /\ Goto(p, "clear")
  /\ UNCHANGED <<replica, buf, dir, mode, todo, cur, uids, records, req, read, history>>

\* DEL of the hash of every user of the snapshot, then the next event.
ClearBuffers(p) ==
  /\ pc[p] = "clear"
  /\ buf' = HashesDeleted(cur[p], uids[p])
  /\ Goto(p, "next")
  /\ ForgetDrain(p)
  /\ UNCHANGED <<db, replica, dir, mode, todo, req, read, history>>

\* Mutant: the hashes are deleted even when the drain fails.
AbortDrainAndClear(p) ==
  /\ \/ "redis" \in Faults /\ pc[p] \in {"deldir", "read", "clear"}
     \/ "db" \in Faults /\ pc[p] \in {"update", "clear"}
  /\ buf' = HashesDeleted(cur[p], uids[p])
  /\ Goto(p, "next")
  /\ ForgetDrain(p)
  /\ UNCHANGED <<db, replica, dir, mode, todo, req, read, history>>

\* An exception at an await: drain_event_buffer returns 0 and the pass goes on.
\* A failed commit or a timed-out command may have taken effect: that is the
\* step itself followed by this one.
AbortDrain(p) ==
  /\ \/ "redis" \in Faults /\ pc[p] \in {"deldir", "read", "clear"}
     \/ "db" \in Faults /\ pc[p] \in {"update", "clear"}
  /\ Goto(p, "next")
  /\ ForgetDrain(p)
  /\ UNCHANGED <<stores, mode, todo, req, read, history>>

\* retry_on_timeout again: the DEL or the pipeline of DELs ran and is sent anew.
RetryDelete(p) ==
  /\ "redis" \in Faults
  /\ \/ /\ pc[p] = "deldir"
        /\ dir' = [dir EXCEPT ![cur[p]] = {}]
        /\ UNCHANGED buf
     \/ /\ pc[p] = "clear"
        /\ buf' = HashesDeleted(cur[p], uids[p])
        /\ UNCHANGED dir
  /\ UNCHANGED <<db, replica, drainers, req, read, history>>

\* SCAN fails and the pass ends, or SMEMBERS does and the event is skipped.
LookupFails(p) ==
  /\ "redis" \in Faults
  /\ \/ /\ mode[p] = "final" /\ pc[p] = "sleep"
        /\ mode' = [mode EXCEPT ![p] = "gone"]
        /\ UNCHANGED todo
     \/ \E e \in todo[p] :
          /\ pc[p] = "next"
          /\ todo' = [todo EXCEPT ![p] = @ \ {e}]
          /\ UNCHANGED mode
  /\ UNCHANGED <<stores, pc, cur, uids, records, req, read, history>>

Drain(p) ==
  \/ Scan(p) \/ PassDone(p) \/ DeleteDir(p) \/ ReadHashes(p) \/ UpdateDb(p) \/ ClearBuffers(p)
  \/ \E e \in Events : ReadMembers(p, e)

-----------------------------------------------------------------------------
(* Pods come and go *)

\* uvicorn has finished the requests of the pod; stop_drainer cancels the task
\* at whatever await it is in and starts the final pass.
StopDrainer(p) ==
  /\ "stop" \in Faults
  /\ mode[p] = "run"
  /\ \A r \in Requests : req[r] # None => req[r].pod # p
  /\ mode' = [mode EXCEPT ![p] = "final"]
  /\ Goto(p, "sleep")
  /\ todo' = [todo EXCEPT ![p] = {}]
  /\ ForgetDrain(p)
  /\ UNCHANGED <<stores, req, read, history>>

\* The process dies with its requests and its drain.
Crash(p) ==
  /\ "crash" \in Faults
  /\ mode[p] # "gone"
  /\ mode' = [mode EXCEPT ![p] = "gone"]
  /\ Goto(p, "sleep")
  /\ todo' = [todo EXCEPT ![p] = {}]
  /\ ForgetDrain(p)
  /\ req' = [r \in Requests |-> IF req[r] # None /\ req[r].pod = p THEN None ELSE req[r]]
  /\ UNCHANGED <<stores, read, history>>

\* A new process: lifespan startup calls start_drainer.
StartDrainer(p) ==
  /\ mode[p] = "gone"
  /\ mode' = [mode EXCEPT ![p] = "run"]
  /\ UNCHANGED <<stores, pc, todo, cur, uids, records, req, read, history>>

-----------------------------------------------------------------------------
(* The stores on their own *)

\* A buffer key expires.  Every hash is written with its own EXPIRE and no drain
\* refreshes it, so any hash may lapse, read by a drain or not.  The directory is
\* refreshed by every pipeline that adds to it and outlives the hashes it lists.
Expire ==
  /\ \/ \E k \in Keys : /\ buf[k] # None
                        /\ buf' = [buf EXCEPT ![k] = None]
                        /\ lapsed' = lapsed \cup {k}
                        /\ UNCHANGED dir
     \/ \E e \in Events : /\ dir[e] # {}
                          /\ \A u \in dir[e] : buf[<<e, u>>] = None
                          /\ dir' = [dir EXCEPT ![e] = {}]
                          /\ UNCHANGED <<buf, lapsed>>
  /\ UNCHANGED <<db, replica, drainers, req, read, clock, submitted, acked>>

\* The replica catches up with the primary.
Replicate ==
  /\ "lag" \in Faults
  /\ replica # db
  /\ replica' = db
  /\ UNCHANGED <<db, buf, dir, drainers, req, read, history>>

-----------------------------------------------------------------------------
(* get_my_report *)

Acked(k) == \E a \in acked : a.key = k

\* The buffer first (a Redis error reads as nothing buffered).  An answer is due
\* to be a report when one had been acknowledged, no hash of the pair had lapsed
\* and Redis answered.
ReadBuffer(g, k) ==
  /\ read[g] # None => read[g].pc = "done"
  /\ \E over \in {buf[k]} \cup (IF "redis" \in Faults THEN {None} ELSE {}) :
       read' = [read EXCEPT ![g] = [pc |-> "row", key |-> k, over |-> over,
                                    due |-> Acked(k) /\ k \notin lapsed /\ over = buf[k],
                                    answer |-> None]]
  /\ UNCHANGED <<stores, drainers, req, history>>

Overlay(row, over) ==
  IF over = None THEN row
  ELSE [status |-> over.status,
        message |-> IF over.message # None THEN over.message ELSE row.message,
        at |-> over.at]

ReadRows == IF "lag" \in Faults THEN replica ELSE db

\* Then the row, from the read engine; null without a placeholder.  A lagging
\* replica owes nothing to a read that has no overlay.
ReadRow(g) ==
  /\ read[g] # None /\ read[g].pc = "row"
  /\ LET k == read[g].key IN
       read' = [read EXCEPT ![g].pc = "done",
                            ![g].due = @ /\ (read[g].over = None => ReadRows[k] = db[k]),
                            ![g].answer = IF k \in Placeholders
                                            THEN Overlay(ReadRows[k], read[g].over)
                                            ELSE None]
  /\ UNCHANGED <<stores, drainers, req, history>>

-----------------------------------------------------------------------------
Handle(r) ==
  \/ BufferReport(r) \/ SelectPlaceholder(r) \/ DirectWrite(r) \/ Respond(r)

Next ==
  \/ \E r \in Requests :
       \/ \E p \in Pods, k \in Keys, s \in Statuses, m \in Messages \cup {None} :
            Submit(r, p, k, s, m)
       \/ Handle(r) \/ BufferFails(r) \/ BufferRetries(r) \/ RequestFails(r)
  \/ \E p \in Pods :
       \/ Drain(p) \/ AbortDrain(p) \/ RetryDelete(p) \/ LookupFails(p)
       \/ StopDrainer(p) \/ Crash(p) \/ StartDrainer(p)
  \/ Expire \/ Replicate
  \/ \E g \in Readers : ReadRow(g) \/ \E k \in Keys : ReadBuffer(g, k)

Spec == Init /\ [][Next]_vars

\* A coroutine that can run is resumed by the event loop; nobody promises new
\* submissions, faults, restarts or reads.
Fairness ==
  /\ \A r \in Requests : WF_vars(Handle(r))
  /\ \A p \in Pods : WF_vars(Drain(p))

FairSpec == Spec /\ Fairness

-----------------------------------------------------------------------------
(* Properties *)

\* What get_my_report shows of a pair: the row under the buffered report.
View(k) == IF buf[k] = None /\ ~Reported(k) THEN None ELSE Overlay(db[k], buf[k])

\* Every variable holds a value of the kind its comment says.
TypeOK ==
  /\ db \in [Placeholders -> Row]
  /\ replica \in [Placeholders -> Row]
  /\ buf \in [Keys -> Report \cup {None}]
  /\ dir \in [Events -> SUBSET Users]
  /\ mode \in [Pods -> {"run", "final", "gone"}]
  /\ pc \in [Pods -> {"sleep", "next"} \cup Busy]
  /\ todo \in [Pods -> SUBSET Events]
  /\ cur \in [Pods -> Events \cup {None}]
  /\ \A p \in Pods : IF pc[p] \in Busy THEN cur[p] \in Events
                                      ELSE cur[p] = None /\ uids[p] = {}
  /\ uids \in [Pods -> SUBSET Users]
  /\ DOMAIN records = Pods
  /\ \A p \in Pods : /\ DOMAIN records[p] \subseteq uids[p]
                     /\ \A u \in DOMAIN records[p] : records[p][u] \in Report
  /\ req \in [Requests -> Request \cup {None}]
  /\ \A r \in Requests : req[r] # None /\ req[r].pc \in {"write", "reply"}
                           => req[r].key \in Placeholders
  /\ read \in [Readers -> Read \cup {None}]
  /\ clock \in 0..MaxReports
  /\ submitted \subseteq Submission
  /\ acked \subseteq Submission
  /\ lapsed \subseteq Keys

\* A report that was answered 200 shows: it is in the buffer, or the row is not
\* NULL, whatever drains, aborts, crashes and shutdowns come between the DEL of
\* the directory and the DEL of the hash (drain_event_buffer).  Only the 60 s of
\* a hash take it away: when a drain has lost the directory, nothing else will
\* move the hash to its row, and it lapses.
ReportsVisible ==
  \A k \in Placeholders : Acked(k) => View(k) # None \/ k \in lapsed

\* What shows as reported never shows as unreported again ("no null-window
\* flicker", drain_event_buffer), except for a pair a hash of which has lapsed
\* and whose row has never been written: a written row shows for ever.
NeverBlankAgain ==
  [][\A k \in Placeholders :
       View(k) # None => View(k)' # None \/ (k \in lapsed' /\ ~Reported(k))]_vars

\* get_my_report reads the buffer and then the row, and a drain may run in
\* between: a read that starts after the 200 still does not answer NULL, unless
\* the report had lapsed, Redis did not answer or the replica lagged.
ReadersSeeReports ==
  \A g \in Readers :
    read[g] # None /\ read[g].pc = "done" /\ read[g].due /\ read[g].key \in Placeholders
      => read[g].answer.status # None

\* Every stored report is one submission of that user for that event, and an
\* answer has the status and the time of one: while Redis answers, batches,
\* races and crashes never mix two users, two events or two reports.  (Without
\* Redis the fallback may leave columns of two reports in a row: SafetyView.)
Genuine ==
  /\ \A k \in Keys : buf[k] # None => Sub(k, buf[k]) \in submitted
  /\ \A k \in Placeholders : Reported(k) => Sub(k, db[k]) \in submitted
  /\ \A p \in Pods : \A u \in DOMAIN records[p] :
       Sub(<<cur[p], u>>, records[p][u]) \in submitted
  /\ \A g \in Readers :
       read[g] # None /\ read[g].answer # None /\ read[g].answer.status # None
         => \E s \in submitted : /\ s.key = read[g].key
                                /\ s.report.status = read[g].answer.status
                                /\ s.report.at = read[g].answer.at

\* What is stored implements the promise of SafetyView to the users who are in
\* the event: submissions are offers, the row under the buffer is the view, a row
\* with a status is settled, the 200 is the confirmation.
PlacedPairs(S) == {s \in S : s.key \in Placeholders}

Promise == INSTANCE SafetyView WITH
  Pairs <- Placeholders,
  Reports <- Report,
  Columns <- {"status", "message", "at"},
  Nothing <- None,
  offered <- {<<s.key, s.report>> : s \in PlacedPairs(submitted)},
  view <- [k \in Placeholders |-> View(k)],
  settled <- {k \in Placeholders : Reported(k)},
  lapsed <- lapsed \cap Placeholders,
  confirmed <- {s.key : s \in acked}

KeepsPromise == Promise!Spec

\* No drain of the event can remove the user's entry or hash without having
\* read the hash from now on: the user is not in a directory set about to be
\* deleted unseen, nor in a snapshot whose hashes have been read.
Undisturbed(k) ==
  \A p \in Pods : cur[p] = k[1] =>
    IF k[2] \in uids[p] THEN pc[p] \in {"deldir", "read"} ELSE pc[p] # "deldir"

Listed(k) == \/ k[2] \in dir[k[1]]
             \/ \E p \in Pods : cur[p] = k[1] /\ k[2] \in uids[p]

\* No older report of the user is still on its way to the buffer.
Newest(k) ==
  \A r \in Requests :
    req[r] # None /\ req[r].pc = "buffer" /\ req[r].key = k => req[r].report.at > buf[k].at

\* A buffered report that no drain can remove unseen reaches the row, whichever
\* pods race for it: the row becomes at least as new, unless the hash lapses
\* first.  The conditions are needed: a user added between SMEMBERS and DEL of
\* the directory is Listed nowhere (cache.py:236-242), one whose hash is replaced
\* between HGETALL and DEL is not Undisturbed.
BufferedReachesRow ==
  \A k \in Placeholders, t \in 1..MaxReports :
    (buf[k] # None /\ buf[k].at = t /\ Newest(k) /\ Listed(k) /\ Undisturbed(k))
      ~> (db[k].at >= t \/ k \in lapsed)

\* An acknowledged report is never replaced by an older one: the buffer or the
\* row is at least as new.  (A lapsed pair is not held against the drains.)
LatestKept ==
  \A a \in acked : \/ buf[a.key] # None /\ buf[a.key].at >= a.report.at
                  \/ db[a.key].at >= a.report.at
                  \/ a.key \in lapsed

\* "Does a final drain pass so that reports buffered just before pod termination
\* are not lost" (background.py:17-18): when every pod has shut down, an
\* acknowledged report is in its row, or listed where the next pod's drain finds
\* it.  (A lapsed pair is not held against the shutdown.)
NothingLostOnTermination ==
  (\A p \in Pods : mode[p] = "gone") =>
    \A a \in acked : \/ db[a.key].at >= a.report.at
                    \/ a.key[2] \in dir[a.key[1]]
                    \/ a.key \in lapsed
=============================================================================
