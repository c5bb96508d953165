------------------------- MODULE ReportBufferProofs -------------------------
(***************************************************************************)
(* Theorems about ReportBuffer for every set of events, users and pods.    *)
(***************************************************************************)
EXTENDS ReportBuffer, TLAPS

\* A placeholder is a row, and so is a report.
LEMMA BlankIsRow == Blank \in Row /\ Blank.status = None /\ Report \subseteq Row
  BY MaxReportsAssumption DEF Blank, Row, Report

-----------------------------------------------------------------------------
(* Type correctness, one lemma per group of actions *)

\* A submission takes a free request and stamps a report.
LEMMA TypeSubmit ==
  ASSUME TypeOK, NEW r \in Requests, NEW p \in Pods, NEW k \in Keys,
         NEW s \in Statuses, NEW m \in Messages \cup {None}, Submit(r, p, k, s, m)
  PROVE  TypeOK'
<1> DEFINE report == [status |-> s, message |-> m, at |-> clock + 1]
<1>1. clock + 1 \in 1..MaxReports /\ clock' \in 0..MaxReports
  BY MaxReportsAssumption DEF TypeOK, Submit
<1>2. report \in Report
  BY <1>1 DEF Report
<1>3. req' \in [Requests -> Request \cup {None}]
  BY <1>2, BlankIsRow DEF TypeOK, Submit, Request
<1>4. \A q \in Requests : req'[q] # None /\ req'[q].pc \in {"write", "reply"}
                           => req'[q].key \in Placeholders
  BY DEF TypeOK, Submit
<1>5. submitted' \subseteq Submission
  BY <1>2 DEF TypeOK, Submit, Submission, Sub
<1>6. QED
  BY <1>1, <1>3, <1>4, <1>5 DEF TypeOK, Submit, stores, drainers

\* The pipeline leaves a hash and a member of the directory.
LEMMA TypePipeline ==
  ASSUME TypeOK, NEW k \in Keys, NEW report \in Report, BufferPipeline(k, report)
  PROVE  buf' \in [Keys -> Report \cup {None}] /\ dir' \in [Events -> SUBSET Users]
  BY DEF TypeOK, BufferPipeline, Keys

\* Columns of a row and of a report make a row.
LEMMA TypeChangedColumns ==
  ASSUME NEW row \in Row, NEW loaded \in Row, NEW report \in Report
  PROVE  ChangedColumns(row, loaded, report) \in Row
  BY BlankIsRow DEF ChangedColumns, Row

\* Every await of a submission keeps the types.
LEMMA TypeRequest ==
  ASSUME TypeOK, NEW r \in Requests,
         \/ Handle(r) \/ BufferFails(r) \/ BufferRetries(r) \/ RequestFails(r)
  PROVE  TypeOK'
<1>0. req[r] # None => req[r] \in Request /\ req[r].key \in Keys /\ req[r].report \in Report
  BY DEF TypeOK, Request
<1>1. CASE BufferReport(r)
  BY <1>0, <1>1, TypePipeline DEF TypeOK, BufferReport, Request, drainers, history
<1>2. CASE BufferFails(r)
  BY <1>0, <1>2, TypePipeline DEF TypeOK, BufferFails, Request, drainers, history
<1>3. CASE BufferRetries(r)
  BY <1>0, <1>3, TypePipeline DEF TypeOK, BufferRetries, drainers, history
<1>4. CASE SelectPlaceholder(r)
  BY <1>0, <1>4, BlankIsRow DEF TypeOK, SelectPlaceholder, Request, stores, drainers, history
<1>5. CASE DirectWrite(r)
  <2>1. req[r].key \in Placeholders /\ req[r].loaded \in Row /\ req[r].report \in Report
    BY <1>0, <1>5 DEF TypeOK, DirectWrite, Request
  <2>2. ChangedColumns(db[req[r].key], req[r].loaded, req[r].report) \in Row
    BY <2>1, TypeChangedColumns DEF TypeOK
  <2>3. db' \in [Placeholders -> Row]
    BY <1>5, <2>2 DEF TypeOK, DirectWrite
  <2>4. QED
    BY <1>0, <1>5, <2>1, <2>3, BlankIsRow DEF TypeOK, DirectWrite, Request, drainers, history
<1>6. CASE Respond(r)
  BY <1>0, <1>6 DEF TypeOK, Respond, Submission, Sub, stores, drainers
<1>7. CASE RequestFails(r)
  BY <1>0, <1>7 DEF TypeOK, RequestFails, stores, drainers, history
<1>8. QED
  BY <1>1, <1>2, <1>3, <1>4, <1>5, <1>6, <1>7 DEF Handle

\* Deleting hashes leaves hashes.
LEMMA TypeHashesDeleted ==
  ASSUME TypeOK, NEW e \in Events, NEW S
  PROVE  HashesDeleted(e, S) \in [Keys -> Report \cup {None}]
  BY DEF TypeOK, HashesDeleted

\* What HGETALL returns for the captured users.
LEMMA TypeRecords ==
  ASSUME TypeOK, NEW e \in Events, NEW S \in SUBSET Users
  PROVE  /\ DOMAIN Records(e, S) \subseteq S
         /\ \A u \in DOMAIN Records(e, S) : Records(e, S)[u] \in Report
  BY DEF TypeOK, Records, Pending, Keys

\* Every await of a drain keeps the types.
LEMMA TypeDrain ==
  ASSUME TypeOK, NEW p \in Pods, Drain(p)
  PROVE  TypeOK'
<1>1. CASE Scan(p)
  BY <1>1 DEF TypeOK, Scan, Goto, Busy, stores, history
<1>2. CASE PassDone(p)
  BY <1>2 DEF TypeOK, PassDone, Goto, Busy, stores, history
<1>3. ASSUME NEW e \in Events, ReadMembers(p, e)
      PROVE  TypeOK'
  <2>1. CASE dir[e] = {}
    BY <1>3, <2>1 DEF TypeOK, ReadMembers, stores, history
  <2>2. CASE dir[e] # {}
    <3>1. cur' = [cur EXCEPT ![p] = e] /\ uids' = [uids EXCEPT ![p] = dir[e]]
          /\ pc' = [pc EXCEPT ![p] = "deldir"] /\ todo' = [todo EXCEPT ![p] = @ \ {e}]
          /\ UNCHANGED <<db, replica, buf, dir, mode, records, req, read, clock, submitted, acked,
                       lapsed>>
      BY <1>3, <2>2 DEF ReadMembers, Goto, stores, history
    <3>2. DOMAIN records[p] = {}
      BY <1>3 DEF TypeOK, ReadMembers, Busy
    <3>3. QED
      BY <3>1, <3>2 DEF TypeOK, Busy
  <2>3. QED
    BY <2>1, <2>2
<1>4. CASE DeleteDir(p)
  BY <1>4 DEF TypeOK, DeleteDir, Goto, Busy, history
<1>5. CASE ReadHashes(p)
  <2>1. cur[p] \in Events /\ uids[p] \in SUBSET Users
    BY <1>5 DEF TypeOK, ReadHashes, Busy
  <2>2. CASE Pending(cur[p], uids[p]) = {}
    BY <1>5, <2>2 DEF TypeOK, ReadHashes, Goto, ForgetDrain, Busy, stores, history
  <2>3. CASE Pending(cur[p], uids[p]) # {}
    BY <1>5, <2>1, <2>3, TypeRecords DEF TypeOK, ReadHashes, Goto, Busy, stores, history
  <2>4. QED
    BY <2>2, <2>3
<1>6. CASE UpdateDb(p)
  <2>1. BatchUpdated(db, cur[p], records[p]) \in [Placeholders -> Row]
    BY BlankIsRow DEF TypeOK, BatchUpdated
  <2>2. QED
    BY <1>6, <2>1 DEF TypeOK, UpdateDb, Goto, Busy, history
<1>7. CASE ClearBuffers(p)
  <2>1. buf' \in [Keys -> Report \cup {None}]
    BY <1>7, TypeHashesDeleted DEF TypeOK, ClearBuffers, Busy
  <2>2. QED
    BY <1>7, <2>1 DEF TypeOK, ClearBuffers, Goto, ForgetDrain, Busy, history
<1>8. QED
  BY <1>1, <1>2, <1>3, <1>4, <1>5, <1>6, <1>7 DEF Drain

\* Pods start, stop and die without breaking a type.
LEMMA TypePod ==
  ASSUME TypeOK, NEW p \in Pods,
         \/ AbortDrain(p) \/ RetryDelete(p) \/ LookupFails(p)
         \/ StopDrainer(p) \/ Crash(p) \/ StartDrainer(p)
  PROVE  TypeOK'
<1>1. CASE AbortDrain(p)
  BY <1>1 DEF TypeOK, AbortDrain, Goto, ForgetDrain, Busy, stores, history
<1>2. CASE RetryDelete(p)
  BY <1>2, TypeHashesDeleted DEF TypeOK, RetryDelete, Busy, drainers, history
<1>3. CASE LookupFails(p)
  BY <1>3 DEF TypeOK, LookupFails, stores, history
<1>4. CASE StopDrainer(p)
  BY <1>4 DEF TypeOK, StopDrainer, Goto, ForgetDrain, Busy, stores, history
<1>5. CASE Crash(p)
  BY <1>5 DEF TypeOK, Crash, Goto, ForgetDrain, Busy, stores, history
<1>6. CASE StartDrainer(p)
  BY <1>6 DEF TypeOK, StartDrainer, stores, history
<1>7. QED
  BY <1>1, <1>2, <1>3, <1>4, <1>5, <1>6

\* Expiry and replication keep the types.
LEMMA TypeStores ==
  ASSUME TypeOK, Expire \/ Replicate
  PROVE  TypeOK'
<1>1. CASE Expire
  <2>1. UNCHANGED <<db, replica, drainers, req, read, clock, submitted, acked>>
    BY <1>1 DEF Expire
  <2>2. /\ buf' \in [Keys -> Report \cup {None}] /\ dir' \in [Events -> SUBSET Users]
        /\ lapsed' \subseteq Keys
    BY <1>1 DEF TypeOK, Expire
  <2>3. QED
    BY <2>1, <2>2 DEF TypeOK, drainers
<1>2. CASE Replicate
  BY <1>2 DEF TypeOK, Replicate, drainers, history
<1>3. QED
  BY <1>1, <1>2

\* Both halves of my-report keep the types.
LEMMA TypeRead ==
  ASSUME TypeOK, NEW g \in Readers,
         ReadRow(g) \/ \E k \in Keys : ReadBuffer(g, k)
  PROVE  TypeOK'
<1>1. ASSUME NEW k \in Keys, ReadBuffer(g, k)
      PROVE  TypeOK'
  <2>1. PICK over \in {buf[k]} \cup {None} :
          read' = [read EXCEPT ![g] = [pc |-> "row", key |-> k, over |-> over,
                                       due |-> Acked(k) /\ k \notin lapsed /\ over = buf[k],
                                       answer |-> None]]
    BY <1>1 DEF ReadBuffer
  <2>2. (Acked(k) /\ k \notin lapsed /\ over = buf[k]) \in BOOLEAN
    BY DEF Acked
  <2>3. over \in Report \cup {None}
    BY DEF TypeOK
  <2>4. read' \in [Readers -> Read \cup {None}]
    BY <2>1, <2>2, <2>3 DEF TypeOK, Read
  <2>5. QED
    BY <1>1, <2>4 DEF TypeOK, ReadBuffer, stores, drainers, history
<1>2. CASE ReadRow(g)
  <2>1. read[g] \in Read
    BY <1>2 DEF TypeOK, ReadRow
  <2>2. \A row \in Row, over \in Report \cup {None} : Overlay(row, over) \in Row
    BY MaxReportsAssumption DEF Overlay, Row, Report
  <2>3. ReadRows \in [Placeholders -> Row]
    BY DEF TypeOK, ReadRows
  <2>4. read' \in [Readers -> Read \cup {None}]
    BY <1>2, <2>1, <2>2, <2>3 DEF TypeOK, ReadRow, Read
  <2>5. QED
    BY <1>2, <2>4 DEF TypeOK, ReadRow, stores, drainers, history
<1>3. QED
  BY <1>1, <1>2

\* Every variable keeps its type, whatever fails.
THEOREM TypeCorrect == Spec => []TypeOK
<1>1. Init => TypeOK
  BY BlankIsRow, MaxReportsAssumption DEF Init, TypeOK, Busy
<1>2. TypeOK /\ [Next]_vars => TypeOK'
  <2> SUFFICES ASSUME TypeOK, [Next]_vars PROVE TypeOK'
    OBVIOUS
  <2>1. CASE UNCHANGED vars
    BY <2>1 DEF TypeOK, vars
  <2>2. CASE Next
    BY <2>2, TypeSubmit, TypeRequest, TypeDrain, TypePod, TypeStores, TypeRead DEF Next
  <2>3. QED
    BY <2>1, <2>2
<1>3. QED
  BY <1>1, <1>2, PTL DEF Spec

-----------------------------------------------------------------------------
(* Reports stay visible unless their hash lapses before their row is written *)

\* The pair shows, or a hash of it has lapsed.
Shown(k) == buf[k] # None \/ Reported(k) \/ k \in lapsed

\* It would even if its hash were deleted.
Safe(k) == Reported(k) \/ k \in lapsed

\* A listed user shows.
ListedShown == \A k \in Placeholders : k[2] \in dir[k[1]] => Shown(k)

InDrain(p, k) == pc[p] \in Busy /\ cur[p] = k[1] /\ k[2] \in uids[p]

\* So does a user of a snapshot; once the hash has been read as missing, or the
\* UPDATE has been committed, it is the row that shows, or the hash had lapsed.
DrainShown(p) ==
  \A k \in Placeholders :
    InDrain(p, k) => /\ Shown(k)
                     /\ pc[p] = "update" /\ k[2] \notin DOMAIN records[p] => Safe(k)
                     /\ pc[p] = "clear" => Safe(k)

DrainedShown == \A p \in Pods : DrainShown(p)

\* A request about to answer 200 shows; one that has loaded a reported row still
\* finds a reported row.
RequestShown(r) ==
  req[r] # None /\ req[r].key \in Placeholders =>
    /\ req[r].pc = "select" /\ req[r].buffered => Shown(req[r].key)
    /\ req[r].pc = "reply" => Shown(req[r].key)
    /\ req[r].pc = "write" /\ req[r].loaded.status # None => Reported(req[r].key)

RequestsShown == \A r \in Requests : RequestShown(r)

AckedShown == \A k \in Placeholders : Acked(k) => Shown(k)

VisibleInv == ListedShown /\ DrainedShown /\ RequestsShown /\ AckedShown

\* What shows keeps showing, and a reported row stays reported.
Kept == \A k \in Placeholders : /\ Shown(k) => Shown(k)'
                                /\ Reported(k) => Reported(k)'
                                /\ k \in lapsed => k \in lapsed'

\* A report is not the absence of one.
LEMMA ReportIsNotNone ==
  /\ None \notin Report
  /\ \A report \in Report : report # None /\ report.status \in Statuses /\ report.status # None
  BY NoneAssumption, BlankIsRow DEF Report

\* A report laid over a row is a row.
LEMMA OverlayIsRow ==
  ASSUME NEW row \in Row, NEW over \in Report \cup {None}
  PROVE  Overlay(row, over) \in Row
  BY MaxReportsAssumption DEF Overlay, Row, Report

\* my-report answers a report exactly when there is one in the buffer or the row.
LEMMA ViewShows ==
  ASSUME TypeOK
  PROVE  \A k \in Placeholders : View(k) # None <=> buf[k] # None \/ Reported(k)
<1> SUFFICES ASSUME NEW k \in Placeholders PROVE View(k) # None <=> buf[k] # None \/ Reported(k)
  OBVIOUS
<1>1. db[k] \in Row /\ buf[k] \in Report \cup {None}
  BY PlaceholdersAssumption DEF TypeOK
<1>2. QED
  BY <1>1, OverlayIsRow, NoneAssumption DEF View

\* What shows keeps showing when neither store changes.
LEMMA KeptUnchanged ==
  ASSUME UNCHANGED <<db, buf, lapsed>>
  PROVE  Kept
  BY DEF Kept, Shown, Reported

\* Buffering hides nothing.
LEMMA KeptPipeline ==
  ASSUME TypeOK, NEW k \in Keys, NEW report \in Report, BufferPipeline(k, report), db' = db,
         lapsed' = lapsed
  PROVE  /\ Kept
         /\ k \in Placeholders => Shown(k)'
         /\ \A q \in Placeholders : q[2] \in dir'[q[1]] => q[2] \in dir[q[1]] \/ q = k
<1>1. \A q \in Placeholders : q \in Keys /\ (buf'[q] = buf[q] \/ buf'[q] = report)
  BY PlaceholdersAssumption DEF TypeOK, BufferPipeline
<1>2. k \in Placeholders => buf'[k] = report
  BY <1>1 DEF TypeOK, BufferPipeline
<1>3. ASSUME NEW q \in Placeholders, q[2] \in dir'[q[1]]
      PROVE  q[2] \in dir[q[1]] \/ q = k
  BY <1>1, <1>3 DEF TypeOK, BufferPipeline, Keys
<1>4. QED
  BY <1>1, <1>2, <1>3, ReportIsNotNone DEF Kept, Shown, Reported

\* The fallback's commit hides nothing.
LEMMA KeptDirectWrite ==
  ASSUME TypeOK, RequestsShown, NEW r \in Requests, DirectWrite(r),
         NEW k, k = req[r].key
  PROVE  Kept /\ k \in Placeholders /\ Reported(k)'
<1> DEFINE row == ChangedColumns(db[k], req[r].loaded, req[r].report)
<1>0. /\ k \in Placeholders /\ req[r].report \in Report /\ db[k] \in Row
      /\ req[r].loaded \in Row
  BY DEF TypeOK, DirectWrite, Request
<1>1. /\ k \in Placeholders /\ req[r].report \in Report /\ row \in Row /\ row # None
  BY <1>0, NoneAssumption, TypeChangedColumns
<1>2. row.status # None
  <2>1. CASE req[r].report.status = req[r].loaded.status
    BY <1>1, <2>1, ReportIsNotNone DEF RequestsShown, RequestShown, TypeOK, DirectWrite, ChangedColumns, Reported
  <2>2. CASE req[r].report.status # req[r].loaded.status
    BY <1>1, <2>2, ReportIsNotNone DEF ChangedColumns
  <2>3. QED
    BY <2>1, <2>2
<1>3. /\ buf' = buf /\ lapsed' = lapsed
      /\ k \in Placeholders /\ db'[k] = row
      /\ \A q \in Placeholders : q # k => db'[q] = db[q]
  BY <1>1 DEF TypeOK, DirectWrite, history
<1> HIDE DEF row
<1>4. QED
  BY <1>1, <1>2, <1>3 DEF Kept, Shown, Reported

\* The batch UPDATE hides nothing.
LEMMA KeptUpdate ==
  ASSUME TypeOK, NEW p \in Pods, UpdateDb(p)
  PROVE  /\ Kept
         /\ \A k \in Placeholders :
              cur[p] = k[1] /\ k[2] \in DOMAIN records[p] => Reported(k)'
<1>1. buf' = buf /\ lapsed' = lapsed /\ db' = BatchUpdated(db, cur[p], records[p])
  BY DEF UpdateDb, history
<1>2. \A k \in Placeholders :
        db'[k] = IF k[1] = cur[p] /\ k[2] \in DOMAIN records[p] THEN records[p][k[2]] ELSE db[k]
  BY <1>1 DEF TypeOK, BatchUpdated
<1>3. \A u \in DOMAIN records[p] : records[p][u] # None /\ records[p][u].status # None
  BY ReportIsNotNone DEF TypeOK
<1>4. QED
  BY <1>1, <1>2, <1>3 DEF Kept, Shown, Reported

\* Deleting the captured hashes hides nothing: their rows have a status, or they
\* had lapsed.
LEMMA KeptDelete ==
  ASSUME TypeOK, DrainedShown, NEW p \in Pods, pc[p] = "clear",
         buf' = HashesDeleted(cur[p], uids[p]), db' = db, lapsed' = lapsed
  PROVE  Kept
<1>1. \A k \in Placeholders : buf'[k] = buf[k] \/ Safe(k)
  BY PlaceholdersAssumption DEF HashesDeleted, DrainedShown, DrainShown, InDrain, Busy
<1>2. QED
  BY <1>1 DEF Kept, Shown, Safe, Reported

\* Whoever is listed goes on showing.
LEMMA ListedKept ==
  ASSUME Kept, ListedShown,
         \A k \in Placeholders : k[2] \in dir'[k[1]] => k[2] \in dir[k[1]] \/ Shown(k)'
  PROVE  ListedShown'
  BY DEF Kept, ListedShown

\* Whoever a drain has captured goes on showing.
LEMMA DrainedKept ==
  ASSUME Kept, DrainedShown, UNCHANGED drainers
  PROVE  DrainedShown'
  BY DEF Kept, DrainedShown, DrainShown, InDrain, Safe, drainers

\* The other pods' drains keep what they have captured.
LEMMA OtherDrainsKept ==
  ASSUME Kept, DrainedShown, NEW p \in Pods, DrainShown(p)',
         \A q \in Pods : q # p => /\ pc'[q] = pc[q] /\ cur'[q] = cur[q]
                                  /\ uids'[q] = uids[q] /\ records'[q] = records[q]
  PROVE  DrainedShown'
  BY DEF Kept, DrainedShown, DrainShown, InDrain, Safe

\* A request about to answer still shows.
LEMMA RequestsKept ==
  ASSUME Kept, RequestsShown, NEW r \in Requests, RequestShown(r)',
         \A q \in Requests : q # r => req'[q] = req[q]
  PROVE  RequestsShown'
  BY DEF Kept, RequestsShown, RequestShown

\* So do all requests about to answer.
LEMMA AllRequestsKept ==
  ASSUME Kept, RequestsShown, \A q \in Requests : req'[q] = req[q] \/ req'[q] = None
  PROVE  RequestsShown'
  BY DEF Kept, RequestsShown, RequestShown

\* An acknowledged report goes on showing.
LEMMA AckedKept ==
  ASSUME Kept, AckedShown, acked' = acked
  PROVE  AckedShown'
  BY DEF Kept, AckedShown, Acked

\* A submission keeps the visibility invariant.
LEMMA VisibleSubmit ==
  ASSUME TypeOK, VisibleInv, NEW r \in Requests, NEW p \in Pods, NEW k \in Keys,
         NEW s \in Statuses, NEW m \in Messages \cup {None}, Submit(r, p, k, s, m)
  PROVE  VisibleInv' /\ Kept
<1>1. Kept /\ dir' = dir /\ UNCHANGED drainers /\ acked' = acked
  BY KeptUnchanged DEF Submit, stores
<1>2. RequestsShown'
  <2>1. RequestShown(r)' /\ \A q \in Requests : q # r => req'[q] = req[q]
    BY DEF TypeOK, Submit, RequestShown
  <2>2. QED
    BY <1>1, <2>1, RequestsKept DEF VisibleInv
<1>3. QED
  BY <1>1, <1>2, ListedKept, DrainedKept, AckedKept DEF VisibleInv

\* Every await of a submission keeps it.
LEMMA VisibleRequest ==
  ASSUME TypeOK, VisibleInv, NEW r \in Requests,
         \/ Handle(r) \/ BufferFails(r) \/ BufferRetries(r) \/ RequestFails(r)
  PROVE  VisibleInv' /\ Kept
<1> SUFFICES ASSUME NEW k, k = req[r].key PROVE VisibleInv' /\ Kept
  OBVIOUS
<1>0. req[r] # None => req[r] \in Request /\ k \in Keys /\ req[r].report \in Report
  BY DEF TypeOK, Request
<1>1. CASE BufferReport(r)
  <2>1. /\ BufferPipeline(k, req[r].report) /\ db' = db /\ UNCHANGED drainers
        /\ acked' = acked /\ lapsed' = lapsed /\ req[r] # None
    BY <1>1 DEF BufferReport, history
  <2>2. /\ Kept /\ (k \in Placeholders => Shown(k)')
        /\ \A q \in Placeholders : q[2] \in dir'[q[1]] => q[2] \in dir[q[1]] \/ q = k
    BY <1>0, <2>1, KeptPipeline
  <2>3. RequestsShown'
    <3>1. /\ \A q \in Requests : q # r => req'[q] = req[q]
          /\ req'[r].key = k /\ req'[r].pc = "select"
      BY <1>0, <1>1, <2>1 DEF TypeOK, BufferReport, Request
    <3>2. RequestShown(r)'
      BY <2>2, <3>1 DEF RequestShown
    <3>3. QED
      BY <2>2, <3>1, <3>2, RequestsKept DEF VisibleInv
  <2>4. QED
    BY <2>1, <2>2, <2>3, ListedKept, DrainedKept, AckedKept DEF VisibleInv
<1>2. CASE BufferFails(r)
  <2>1. /\ UNCHANGED <<drainers, acked, lapsed, db>> /\ req[r] # None
        /\ BufferPipeline(k, req[r].report) \/ UNCHANGED <<buf, dir>>
    BY <1>2 DEF BufferFails, history
  <2>2. /\ Kept
        /\ \A q \in Placeholders :
             q[2] \in dir'[q[1]] => q[2] \in dir[q[1]] \/ Shown(q)'
    BY <1>0, <2>1, KeptPipeline, KeptUnchanged
  <2>3. RequestsShown'
    <3>1. /\ \A q \in Requests : q # r => req'[q] = req[q]
          /\ req'[r].pc = "select" /\ req'[r].buffered = FALSE
      BY <1>0, <1>2, <2>1 DEF TypeOK, BufferFails, Request
    <3>2. RequestShown(r)'
      BY <3>1 DEF RequestShown
    <3>3. QED
      BY <2>2, <3>1, <3>2, RequestsKept DEF VisibleInv
  <2>4. QED
    BY <2>1, <2>2, <2>3, ListedKept, DrainedKept, AckedKept DEF VisibleInv
<1>3. CASE BufferRetries(r)
  <2>1. /\ BufferPipeline(k, req[r].report) /\ db' = db /\ UNCHANGED drainers
        /\ acked' = acked /\ lapsed' = lapsed /\ req' = req /\ req[r] # None
    BY <1>3 DEF BufferRetries, history
  <2>2. /\ Kept /\ (k \in Placeholders => Shown(k)')
        /\ \A q \in Placeholders : q[2] \in dir'[q[1]] => q[2] \in dir[q[1]] \/ q = k
    BY <1>0, <2>1, KeptPipeline
  <2>3. QED
    BY <2>1, <2>2, AllRequestsKept, ListedKept, DrainedKept, AckedKept DEF VisibleInv
<1>4. CASE SelectPlaceholder(r)
  <2>1. Kept /\ dir' = dir /\ db' = db /\ UNCHANGED drainers /\ acked' = acked /\ req[r] # None
    BY <1>4, KeptUnchanged DEF SelectPlaceholder, stores, history
  <2>2. RequestsShown'
    <3>1. \A q \in Requests : q # r => req'[q] = req[q]
      BY <1>4 DEF TypeOK, SelectPlaceholder
    <3>2. RequestShown(r)'
      <4>1. CASE k \notin Placeholders
        BY <1>4, <4>1 DEF TypeOK, SelectPlaceholder, RequestShown
      <4>2. CASE k \in Placeholders /\ req[r].buffered
        <5>1. Shown(k)'
          BY <1>4, <2>1, <4>2 DEF VisibleInv, RequestsShown, RequestShown, SelectPlaceholder, Kept
        <5>2. req'[r].key = k /\ req'[r].pc = "reply"
          BY <1>0, <1>4, <2>1, <4>2 DEF TypeOK, SelectPlaceholder, Request
        <5>3. QED
          BY <5>1, <5>2 DEF RequestShown
      <4>3. CASE k \in Placeholders /\ ~req[r].buffered
        <5>1. req'[r].key = k /\ req'[r].pc = "write" /\ req'[r].loaded = db[k]
          BY <1>0, <1>4, <2>1, <4>3 DEF TypeOK, SelectPlaceholder, Request
        <5>2. QED
          BY <2>1, <4>3, <5>1 DEF RequestShown, Reported
      <4>4. QED
        BY <4>1, <4>2, <4>3
    <3>3. QED
      BY <2>1, <3>1, <3>2, RequestsKept DEF VisibleInv
  <2>3. QED
    BY <2>1, <2>2, ListedKept, DrainedKept, AckedKept DEF VisibleInv
<1>5. CASE DirectWrite(r)
  <2>1. /\ Kept /\ k \in Placeholders /\ Reported(k)'
        /\ dir' = dir /\ UNCHANGED drainers /\ acked' = acked /\ req[r] # None
    BY <1>5, KeptDirectWrite DEF VisibleInv, DirectWrite, history
  <2>3. Shown(k)'
    BY <2>1 DEF Shown
  <2>4. RequestsShown'
    <3>1. /\ \A q \in Requests : q # r => req'[q] = req[q]
          /\ req'[r].key = k /\ req'[r].pc = "reply"
      BY <1>0, <1>5, <2>1 DEF TypeOK, DirectWrite, Request
    <3>2. RequestShown(r)'
      BY <2>3, <3>1 DEF RequestShown
    <3>3. QED
      BY <2>1, <3>1, <3>2, RequestsKept DEF VisibleInv
  <2>5. QED
    BY <2>1, <2>4, ListedKept, DrainedKept, AckedKept DEF VisibleInv
<1>6. CASE Respond(r)
  <2>1. Kept /\ dir' = dir /\ UNCHANGED drainers
    BY <1>6, KeptUnchanged DEF Respond, stores
  <2>2. RequestsShown'
    BY <1>6, <2>1, AllRequestsKept DEF VisibleInv, TypeOK, Respond
  <2>3. AckedShown'
    <3>1. \A q \in Placeholders : Acked(q)' => Acked(q) \/ q = k
      BY <1>6 DEF Respond, Acked, Sub
    <3>2. k \in Placeholders => Shown(k)
      BY <1>6 DEF VisibleInv, RequestsShown, RequestShown, Respond
    <3>3. QED
      BY <2>1, <3>1, <3>2 DEF VisibleInv, AckedShown, Kept
  <2>4. QED
    BY <2>1, <2>2, <2>3, ListedKept, DrainedKept DEF VisibleInv
<1>7. CASE RequestFails(r)
  <2>1. Kept /\ dir' = dir /\ UNCHANGED drainers /\ acked' = acked
    BY <1>7, KeptUnchanged DEF RequestFails, stores, history
  <2>2. RequestsShown'
    BY <1>7, <2>1, AllRequestsKept DEF VisibleInv, TypeOK, RequestFails
  <2>3. QED
    BY <2>1, <2>2, ListedKept, DrainedKept, AckedKept DEF VisibleInv
<1>8. QED
  BY <1>1, <1>2, <1>3, <1>4, <1>5, <1>6, <1>7 DEF Handle

\* A drainer between two drains holds no snapshot.
LEMMA IdleDrainShown ==
  ASSUME NEW p \in Pods, pc'[p] \notin Busy
  PROVE  DrainShown(p)'
  BY DEF DrainShown, InDrain

\* Every await of a drain keeps it.
LEMMA VisibleDrain ==
  ASSUME TypeOK, VisibleInv, NEW p \in Pods, Drain(p)
  PROVE  VisibleInv' /\ Kept
<1>1. CASE Scan(p)
  BY <1>1, KeptUnchanged, ListedKept, IdleDrainShown, OtherDrainsKept, AllRequestsKept, AckedKept
     DEF VisibleInv, TypeOK, Scan, Goto, Busy, stores, history
<1>2. CASE PassDone(p)
  BY <1>2, KeptUnchanged, ListedKept, IdleDrainShown, OtherDrainsKept, AllRequestsKept, AckedKept
     DEF VisibleInv, TypeOK, PassDone, Goto, Busy, stores, history
<1>3. ASSUME NEW e \in Events, ReadMembers(p, e)
      PROVE  VisibleInv' /\ Kept
  <2>1. Kept /\ dir' = dir /\ req' = req /\ acked' = acked /\ records' = records
    BY <1>3, KeptUnchanged DEF ReadMembers, stores, history
  <2>2. CASE dir[e] = {}
    BY <1>3, <2>1, <2>2, ListedKept, AllRequestsKept, AckedKept, OtherDrainsKept, IdleDrainShown
       DEF VisibleInv, ReadMembers, Busy
  <2>3. CASE dir[e] # {}
    <3>1. /\ cur'[p] = e /\ uids'[p] = dir[e] /\ pc'[p] = "deldir"
          /\ \A q \in Pods : q # p => /\ pc'[q] = pc[q] /\ cur'[q] = cur[q]
                                       /\ uids'[q] = uids[q] /\ records'[q] = records[q]
      BY <1>3, <2>1, <2>3 DEF TypeOK, ReadMembers, Goto
    <3>2. DrainShown(p)'
      BY <2>1, <3>1 DEF VisibleInv, ListedShown, DrainShown, InDrain, Kept
    <3>3. QED
      BY <2>1, <3>1, <3>2, ListedKept, AllRequestsKept, AckedKept, OtherDrainsKept DEF VisibleInv
  <2>4. QED
    BY <2>2, <2>3
<1>4. CASE DeleteDir(p)
  <2>1. /\ Kept /\ req' = req /\ acked' = acked
        /\ UNCHANGED <<cur, uids, records>> /\ pc' = [pc EXCEPT ![p] = "read"]
    BY <1>4, KeptUnchanged DEF DeleteDir, Goto, history
  <2>2. \A k \in Placeholders : k[2] \in dir'[k[1]] => k[2] \in dir[k[1]]
    BY <1>4, PlaceholdersAssumption DEF TypeOK, DeleteDir, Keys
  <2>3. DrainShown(p)'
    BY <1>4, <2>1 DEF TypeOK, VisibleInv, DrainedShown, DrainShown, InDrain, Kept, Busy, DeleteDir
  <2>4. QED
    BY <2>1, <2>2, <2>3, ListedKept, AllRequestsKept, AckedKept, OtherDrainsKept DEF VisibleInv, TypeOK
<1>5. CASE ReadHashes(p)
  <2>1. Kept /\ dir' = dir /\ req' = req /\ acked' = acked /\ db' = db
    BY <1>5, KeptUnchanged DEF ReadHashes, stores, history
  <2>2. CASE Pending(cur[p], uids[p]) = {}
    BY <1>5, <2>1, <2>2, ListedKept, IdleDrainShown, OtherDrainsKept, AllRequestsKept, AckedKept
       DEF VisibleInv, TypeOK, ReadHashes, ForgetDrain, Goto, Busy
  <2>3. CASE Pending(cur[p], uids[p]) # {}
    <3>1. /\ UNCHANGED <<cur, uids>> /\ pc' = [pc EXCEPT ![p] = "update"]
          /\ records' = [records EXCEPT ![p] = Records(cur[p], uids[p])]
      BY <1>5, <2>3 DEF ReadHashes, Goto
    <3>2. ASSUME NEW k \in Placeholders, InDrain(p, k)'
          PROVE  Shown(k)' /\ (k[2] \notin DOMAIN records'[p] => Safe(k)')
      <4>1. Shown(k)
        BY <1>5, <3>1, <3>2 DEF TypeOK, VisibleInv, DrainedShown, DrainShown, InDrain, Busy, ReadHashes
      <4>2. k = <<cur[p], k[2]>> /\ k[2] \in uids[p]
        BY <3>1, <3>2, PlaceholdersAssumption DEF InDrain, Keys
      <4>3. records'[p] = Records(cur[p], uids[p])
        BY <3>1 DEF TypeOK
      <4>4. k[2] \notin DOMAIN records'[p] => buf[k] = None
        BY <4>2, <4>3 DEF Records, Pending
      <4>5. QED
        BY <2>1, <4>1, <4>4 DEF Shown, Safe, Kept
    <3>3. DrainShown(p)'
      BY <3>1, <3>2 DEF TypeOK, DrainShown
    <3>4. QED
      BY <2>1, <3>1, <3>3, ListedKept, AllRequestsKept, AckedKept, OtherDrainsKept
         DEF VisibleInv, TypeOK
  <2>4. QED
    BY <2>2, <2>3
<1>6. CASE UpdateDb(p)
  <2>1. /\ Kept /\ dir' = dir /\ req' = req /\ acked' = acked
        /\ UNCHANGED <<cur, uids, records>> /\ pc' = [pc EXCEPT ![p] = "clear"]
        /\ \A k \in Placeholders : cur[p] = k[1] /\ k[2] \in DOMAIN records[p] => Reported(k)'
    BY <1>6, KeptUpdate DEF UpdateDb, Goto, history
  <2>2. DrainShown(p)'
    BY <1>6, <2>1 DEF TypeOK, VisibleInv, DrainedShown, DrainShown, InDrain, Kept, Safe, Busy, UpdateDb
  <2>3. QED
    BY <2>1, <2>2, ListedKept, AllRequestsKept, AckedKept, OtherDrainsKept DEF VisibleInv, TypeOK
<1>7. CASE ClearBuffers(p)
  <2>1. /\ Kept /\ dir' = dir /\ req' = req /\ acked' = acked
    BY <1>7, KeptDelete DEF VisibleInv, ClearBuffers, history
  <2>2. QED
    BY <1>7, <2>1, ListedKept, IdleDrainShown, OtherDrainsKept, AllRequestsKept, AckedKept
       DEF VisibleInv, TypeOK, ClearBuffers, ForgetDrain, Goto, Busy
<1>8. QED
  BY <1>1, <1>2, <1>3, <1>4, <1>5, <1>6, <1>7 DEF Drain

\* A pod that starts, stops or dies keeps it.
LEMMA VisiblePod ==
  ASSUME TypeOK, VisibleInv, NEW p \in Pods,
         \/ AbortDrain(p) \/ RetryDelete(p) \/ LookupFails(p)
         \/ StopDrainer(p) \/ Crash(p) \/ StartDrainer(p)
  PROVE  VisibleInv' /\ Kept
<1>1. CASE AbortDrain(p)
  BY <1>1, KeptUnchanged, ListedKept, IdleDrainShown, OtherDrainsKept, AllRequestsKept, AckedKept
     DEF VisibleInv, TypeOK, AbortDrain, ForgetDrain, Goto, Busy, stores, history
<1>2. CASE RetryDelete(p)
  <2>1. Kept
    BY <1>2, KeptUnchanged, KeptDelete DEF VisibleInv, RetryDelete, history
  <2>2. \A k \in Placeholders : k[2] \in dir'[k[1]] => k[2] \in dir[k[1]]
    BY <1>2, PlaceholdersAssumption DEF TypeOK, RetryDelete, Keys
  <2>3. QED
    BY <1>2, <2>1, <2>2, ListedKept, DrainedKept, AllRequestsKept, AckedKept
       DEF VisibleInv, RetryDelete, history
<1>3. CASE LookupFails(p)
  <2>1. Kept /\ dir' = dir
    BY <1>3, KeptUnchanged DEF LookupFails, stores, history
  <2>2. DrainedShown'
    BY <1>3, <2>1 DEF VisibleInv, LookupFails, Kept, DrainedShown, DrainShown, InDrain, Safe
  <2>3. QED
    BY <1>3, <2>1, <2>2, ListedKept, AllRequestsKept, AckedKept DEF VisibleInv, LookupFails, history
<1>4. CASE StopDrainer(p)
  BY <1>4, KeptUnchanged, ListedKept, IdleDrainShown, OtherDrainsKept, AllRequestsKept, AckedKept
     DEF VisibleInv, TypeOK, StopDrainer, ForgetDrain, Goto, Busy, stores, history
<1>5. CASE Crash(p)
  BY <1>5, KeptUnchanged, ListedKept, IdleDrainShown, OtherDrainsKept, AllRequestsKept, AckedKept
     DEF VisibleInv, TypeOK, Crash, ForgetDrain, Goto, Busy, stores, history
<1>6. CASE StartDrainer(p)
  <2>1. Kept /\ dir' = dir
    BY <1>6, KeptUnchanged DEF StartDrainer, stores, history
  <2>2. DrainedShown'
    BY <1>6, <2>1 DEF VisibleInv, StartDrainer, Kept, DrainedShown, DrainShown, InDrain, Safe
  <2>3. QED
    BY <1>6, <2>1, <2>2, ListedKept, AllRequestsKept, AckedKept DEF VisibleInv, StartDrainer, history
<1>7. QED
  BY <1>1, <1>2, <1>3, <1>4, <1>5, <1>6

\* Expiry keeps it: what has lapsed is remembered.
LEMMA VisibleExpire ==
  ASSUME TypeOK, VisibleInv, Expire
  PROVE  VisibleInv' /\ Kept
<1>1. /\ UNCHANGED <<db, drainers, req, acked>> /\ lapsed \subseteq lapsed'
      /\ \A k \in Placeholders : buf'[k] = buf[k] \/ k \in lapsed'
      /\ \A k \in Placeholders : k[2] \in dir'[k[1]] => k[2] \in dir[k[1]]
  BY PlaceholdersAssumption DEF TypeOK, Expire, Keys
<1>2. Kept
  BY <1>1 DEF Kept, Shown, Reported
<1>3. QED
  BY <1>1, <1>2, ListedKept, DrainedKept, AllRequestsKept, AckedKept DEF VisibleInv

\* Replication and reads keep it.
LEMMA VisibleRest ==
  ASSUME TypeOK, VisibleInv,
         \/ Replicate \/ UNCHANGED vars
         \/ \E g \in Readers : ReadRow(g) \/ \E k \in Keys : ReadBuffer(g, k)
  PROVE  VisibleInv' /\ Kept
<1>1. UNCHANGED <<db, buf, dir, drainers, req, acked, lapsed>>
  BY DEF Replicate, vars, ReadRow, ReadBuffer, stores, drainers, history
<1>2. Kept
  BY <1>1, KeptUnchanged
<1>3. QED
  BY <1>1, <1>2, ListedKept, DrainedKept, AllRequestsKept, AckedKept DEF VisibleInv

\* Every step keeps it.
LEMMA VisibleStep ==
  ASSUME TypeOK, VisibleInv, [Next]_vars
  PROVE  VisibleInv' /\ Kept
<1>1. CASE UNCHANGED vars
  BY <1>1, VisibleRest
<1>2. CASE Next
  BY <1>2, VisibleSubmit, VisibleRequest, VisibleDrain, VisiblePod, VisibleExpire, VisibleRest
     DEF Next
<1>3. QED
  BY <1>1, <1>2

\* Nothing has been acknowledged or captured.
LEMMA VisibleInit == Init => VisibleInv
  BY PlaceholdersAssumption DEF Init, Keys, VisibleInv, ListedShown, DrainedShown, DrainShown, InDrain, Busy,
         RequestsShown, RequestShown, AckedShown, Acked

\* It holds in every reachable state.
LEMMA VisibleInvariant == Spec => []VisibleInv
<1>1. TypeOK /\ VisibleInv /\ [Next]_vars => VisibleInv'
  BY VisibleStep
<1>2. QED
  BY <1>1, VisibleInit, TypeCorrect, PTL DEF Spec

\* A report that was answered 200 shows in every reachable state, for any number
\* of pods and whatever fails, unless a hash of the pair has expired.
THEOREM AckedReportsVisible == Spec => []ReportsVisible
<1>1. TypeOK /\ VisibleInv => ReportsVisible
  BY ViewShows DEF VisibleInv, AckedShown, Shown, ReportsVisible
<1>2. QED
  BY <1>1, VisibleInvariant, TypeCorrect, PTL

\* No step turns what shows as reported back to unreported, except that a hash
\* expires whose report has not reached the row.
THEOREM NoNullFlicker == Spec => NeverBlankAgain
<1>1. TypeOK /\ TypeOK' /\ VisibleInv /\ [Next]_vars
        => [\A k \in Placeholders :
              View(k) # None => View(k)' # None \/ (k \in lapsed' /\ ~Reported(k))]_vars
  <2> SUFFICES ASSUME TypeOK, TypeOK', VisibleInv, [Next]_vars, NEW k \in Placeholders,
                      View(k) # None
               PROVE  View(k)' # None \/ (k \in lapsed' /\ ~Reported(k))
    OBVIOUS
  <2>1. Shown(k)' /\ (Reported(k) => Reported(k)')
    BY VisibleStep, ViewShows DEF Kept, Shown
  <2>2. View(k)' # None <=> buf'[k] # None \/ Reported(k)'
    <3>1. db'[k] \in Row /\ buf'[k] \in Report \cup {None}
      BY PlaceholdersAssumption DEF TypeOK
    <3>2. QED
      BY <3>1, OverlayIsRow, NoneAssumption DEF View
  <2>3. QED
    BY <2>1, <2>2 DEF Shown
<1>2. QED
  BY <1>1, TypeCorrect, VisibleInvariant, PTL DEF Spec, NeverBlankAgain

-----------------------------------------------------------------------------
(* Readers *)

\* A read that owes a report has found it, or will.
ReadersInv ==
  \A g \in Readers : read[g] # None /\ read[g].due /\ read[g].key \in Placeholders =>
    /\ read[g].pc = "row" /\ read[g].over = None => Reported(read[g].key)
    /\ read[g].pc = "done" => read[g].answer.status # None

\* Only the two halves of my-report change a read.
LEMMA ReadUnlessReading ==
  ASSUME [Next]_vars
  PROVE  \/ UNCHANGED read
         \/ \E g \in Readers : ReadRow(g) \/ \E k \in Keys : ReadBuffer(g, k)
  BY DEF Next, vars, Submit, Handle, BufferReport, SelectPlaceholder, DirectWrite, Respond,
         BufferFails, BufferRetries, RequestFails, Drain, Scan, PassDone, ReadMembers, DeleteDir,
         ReadHashes, UpdateDb, ClearBuffers, AbortDrain, RetryDelete, LookupFails, StopDrainer,
         Crash, StartDrainer, Expire, Replicate

\* A read that must see a report has seen it or will find it in the row.
LEMMA ReadersStep ==
  ASSUME TypeOK, VisibleInv, ReadersInv, [Next]_vars
  PROVE  ReadersInv'
<1>1. Kept
  BY VisibleStep
<1>2. CASE UNCHANGED read
  BY <1>1, <1>2 DEF ReadersInv, Kept
<1>3. ASSUME NEW g \in Readers, NEW k \in Keys, ReadBuffer(g, k)
      PROVE  ReadersInv'
  <2>1. /\ read'[g].pc = "row" /\ read'[g].key = k
        /\ read'[g].due => Acked(k) /\ k \notin lapsed /\ read'[g].over = buf[k]
    <3>1. PICK over, due :
            /\ due = (Acked(k) /\ k \notin lapsed /\ over = buf[k])
            /\ read' = [read EXCEPT ![g] = [pc |-> "row", key |-> k, over |-> over,
                                            due |-> due, answer |-> None]]
      BY <1>3 DEF ReadBuffer
    <3>2. read'[g] = [pc |-> "row", key |-> k, over |-> over, due |-> due, answer |-> None]
      BY <3>1 DEF TypeOK
    <3>3. /\ read'[g].pc = "row" /\ read'[g].key = k /\ read'[g].over = over
          /\ read'[g].due = due
      BY <3>2
    <3>4. QED
      BY <3>1, <3>3, Zenon
  <2>2. \A h \in Readers : h # g => read'[h] = read[h]
    BY <1>3 DEF TypeOK, ReadBuffer
  <2>3. k \in Placeholders /\ Acked(k) /\ k \notin lapsed /\ buf[k] = None => Reported(k)
    BY DEF VisibleInv, AckedShown, Shown
  <2>4. QED
    BY <1>1, <2>1, <2>2, <2>3 DEF ReadersInv, Kept
<1>4. ASSUME NEW g \in Readers, ReadRow(g)
      PROVE  ReadersInv'
  <2> SUFFICES ASSUME NEW k, k = read[g].key PROVE ReadersInv'
    OBVIOUS
  <2>1. /\ read[g] \in Read /\ read[g] # None /\ read[g].pc = "row"
        /\ \A h \in Readers : h # g => read'[h] = read[h]
    BY <1>4 DEF TypeOK, ReadRow
  <2>2. /\ read'[g].pc = "done" /\ read'[g].key = k
        /\ read'[g].due => read[g].due /\ (read[g].over = None => ReadRows[k] = db[k])
        /\ k \in Placeholders => read'[g].answer = Overlay(ReadRows[k], read[g].over)
    BY <1>4, <2>1 DEF TypeOK, ReadRow, Read
  <2>3. k \in Placeholders /\ read'[g].due => read'[g].answer.status # None
    <3>1. CASE read[g].over = None
      BY <2>1, <2>2, <3>1 DEF ReadersInv, Overlay, Reported
    <3>2. CASE read[g].over # None
      BY <2>1, <2>2, <3>2, ReportIsNotNone DEF Overlay, Read
    <3>3. QED
      BY <3>1, <3>2
  <2>4. QED
    BY <1>1, <2>1, <2>2, <2>3 DEF ReadersInv, Kept
<1>5. QED
  BY <1>2, <1>3, <1>4, ReadUnlessReading

\* A my-report read that starts after the 200 never answers NULL, however the
\* drains interleave with its two reads and whatever fails, unless a hash of the
\* pair had expired before, Redis did not answer this read or its row came from a
\* replica that lagged.
THEOREM ReadsSeeAckedReports == Spec => []ReadersSeeReports
<1>1. Init => ReadersInv
  BY DEF Init, ReadersInv
<1>2. TypeOK /\ VisibleInv /\ ReadersInv /\ [Next]_vars => ReadersInv'
  BY ReadersStep
<1>3. ReadersInv => ReadersSeeReports
  BY DEF ReadersInv, ReadersSeeReports
<1>4. Spec => []VisibleInv
  BY VisibleInvariant
<1>5. QED
  BY <1>1, <1>2, <1>3, <1>4, TypeCorrect, PTL DEF Spec

-----------------------------------------------------------------------------
(* What is stored is what users submitted *)

\* Besides Genuine: requests and reads in flight and the replica carry submitted
\* reports, and without Redis failures nobody takes the fallback.
GenuineInv ==
  /\ Genuine
  /\ \A k \in Placeholders : replica[k].status # None => Sub(k, replica[k]) \in submitted
  /\ \A r \in Requests : req[r] # None =>
       /\ Sub(req[r].key, req[r].report) \in submitted
       /\ req[r].pc # "write"
       /\ req[r].pc = "select" => req[r].buffered
  /\ \A g \in Readers : read[g] # None /\ read[g].over # None
                         => Sub(read[g].key, read[g].over) \in submitted

\* No report is stored or carried.
LEMMA GenuineInit == Init => GenuineInv
  BY DEF Init, GenuineInv, Genuine, Reported, Blank

\* A submission is one of its user.
LEMMA GenuineSubmit ==
  ASSUME TypeOK, GenuineInv, NEW r \in Requests, NEW p \in Pods, NEW k \in Keys,
         NEW s \in Statuses, NEW m \in Messages \cup {None}, Submit(r, p, k, s, m)
  PROVE  GenuineInv'
<1>1. UNCHANGED <<db, replica, buf, cur, records, read>> /\ submitted \subseteq submitted'
  BY DEF Submit, stores, drainers
<1>2. Genuine'
  BY <1>1 DEF GenuineInv, Genuine, Reported
<1>3. /\ Sub(req'[r].key, req'[r].report) \in submitted' /\ req'[r].pc = "buffer"
      /\ \A q \in Requests : q # r => req'[q] = req[q]
  BY DEF TypeOK, Submit
<1>4. QED
  BY <1>1, <1>2, <1>3 DEF GenuineInv

\* A request carries and writes its own report.
LEMMA GenuineRequest ==
  ASSUME "redis" \notin Faults, TypeOK, GenuineInv, NEW r \in Requests,
         \/ Handle(r) \/ BufferFails(r) \/ BufferRetries(r) \/ RequestFails(r)
  PROVE  GenuineInv'
<1>0. /\ req[r] # None => req[r] \in Request /\ req[r].key \in Keys
      /\ ~BufferFails(r) /\ ~BufferRetries(r) /\ ~DirectWrite(r)
  BY DEF TypeOK, Request, GenuineInv, BufferFails, BufferRetries, DirectWrite
<1>1. CASE BufferReport(r)
  <2>1. /\ UNCHANGED <<db, replica, cur, records, read, submitted>> /\ req[r] # None
        /\ \A k \in Keys : buf'[k] = IF k = req[r].key THEN req[r].report ELSE buf[k]
    BY <1>1 DEF TypeOK, BufferReport, BufferPipeline, drainers, history
  <2>2. Genuine'
    BY <2>1 DEF GenuineInv, Genuine, Reported
  <2>3. /\ req'[r].key = req[r].key /\ req'[r].report = req[r].report
        /\ req'[r].pc = "select" /\ req'[r].buffered = TRUE
        /\ \A q \in Requests : q # r => req'[q] = req[q]
    BY <1>0, <1>1, <2>1 DEF TypeOK, BufferReport, Request
  <2>4. QED
    BY <2>1, <2>2, <2>3 DEF GenuineInv
<1>2. CASE SelectPlaceholder(r)
  <2>1. UNCHANGED <<db, replica, buf, cur, records, read, submitted>> /\ req[r] # None
    BY <1>2 DEF SelectPlaceholder, stores, drainers, history
  <2>2. Genuine'
    BY <2>1 DEF GenuineInv, Genuine, Reported
  <2>3. /\ \A q \in Requests : q # r => req'[q] = req[q]
        /\ \/ req'[r] = None
           \/ /\ req'[r].key = req[r].key /\ req'[r].report = req[r].report
              /\ req'[r].pc = "reply"
    BY <1>0, <1>2, <2>1 DEF TypeOK, SelectPlaceholder, Request, GenuineInv
  <2>4. QED
    BY <2>1, <2>2, <2>3 DEF GenuineInv
<1>3. CASE Respond(r) \/ RequestFails(r)
  <2>1. /\ UNCHANGED <<db, replica, buf, cur, records, read, submitted>>
        /\ \A q \in Requests : req'[q] = req[q] \/ req'[q] = None
    BY <1>3 DEF TypeOK, Respond, RequestFails, stores, drainers, history
  <2>2. Genuine'
    BY <2>1 DEF GenuineInv, Genuine, Reported
  <2>3. QED
    BY <2>1, <2>2 DEF GenuineInv
<1>4. QED
  BY <1>0, <1>1, <1>2, <1>3 DEF Handle

\* Steps that forget a drain, or touch neither what is stored nor a drain.
LEMMA GenuineForget ==
  ASSUME TypeOK, GenuineInv, UNCHANGED <<replica, read, submitted>>,
         \A k \in Keys : buf'[k] = buf[k] \/ buf'[k] = None,
         db' = db,
         \A q \in Pods : \/ records'[q] = records[q] /\ cur'[q] = cur[q]
                        \/ DOMAIN records'[q] = {},
         \A q \in Requests : req'[q] = req[q] \/ req'[q] = None
  PROVE  GenuineInv'
<1>1. Genuine'
  <2>1. \A k \in Keys : buf'[k] # None => Sub(k, buf'[k]) \in submitted'
    BY DEF GenuineInv, Genuine
  <2>2. \A k \in Placeholders : Reported(k)' => Sub(k, db'[k]) \in submitted'
    BY DEF GenuineInv, Genuine, Reported
  <2>3. \A q \in Pods : \A u \in DOMAIN records'[q] :
          Sub(<<cur'[q], u>>, records'[q][u]) \in submitted'
    BY DEF GenuineInv, Genuine
  <2>4. QED
    BY <2>1, <2>2, <2>3 DEF GenuineInv, Genuine
<1>2. QED
  BY <1>1 DEF GenuineInv

\* A drain carries and writes what was submitted.
LEMMA GenuineDrain ==
  ASSUME TypeOK, GenuineInv, NEW p \in Pods, Drain(p)
  PROVE  GenuineInv'
<1>1. CASE Scan(p)
  BY <1>1, GenuineForget DEF Scan, stores, history
<1>2. CASE PassDone(p)
  BY <1>2, GenuineForget DEF PassDone, stores, history
<1>3. ASSUME NEW e \in Events, ReadMembers(p, e)
      PROVE  GenuineInv'
  <2>1. UNCHANGED <<db, replica, buf, records, req, read, submitted>>
    BY <1>3 DEF ReadMembers, stores, history
  <2>2. \A q \in Pods : cur'[q] = cur[q] \/ (q = p /\ DOMAIN records[q] = {})
    BY <1>3 DEF TypeOK, ReadMembers, Busy
  <2>3. QED
    BY <2>1, <2>2, GenuineForget
<1>4. CASE DeleteDir(p)
  BY <1>4, GenuineForget DEF DeleteDir, history
<1>5. CASE ReadHashes(p)
  <2>1. UNCHANGED <<db, replica, buf, req, read, submitted>>
    BY <1>5 DEF ReadHashes, stores, history
  <2>2. CASE Pending(cur[p], uids[p]) = {}
    BY <1>5, <2>1, <2>2, GenuineForget DEF TypeOK, ReadHashes, ForgetDrain
  <2>3. CASE Pending(cur[p], uids[p]) # {}
    <3>1. cur' = cur /\ records' = [records EXCEPT ![p] = Records(cur[p], uids[p])]
      BY <1>5, <2>3 DEF ReadHashes
    <3>2. cur[p] \in Events /\ uids[p] \subseteq Users
      BY <1>5 DEF TypeOK, ReadHashes, Busy
    <3>3. ASSUME NEW u \in DOMAIN Records(cur[p], uids[p])
          PROVE  Sub(<<cur[p], u>>, Records(cur[p], uids[p])[u]) \in submitted
      <4>1. /\ <<cur[p], u>> \in Keys /\ buf[<<cur[p], u>>] # None
            /\ Records(cur[p], uids[p])[u] = buf[<<cur[p], u>>]
        BY <3>2, <3>3 DEF Records, Pending, Keys
      <4>2. QED
        BY <4>1 DEF GenuineInv, Genuine
    <3>4. \A q \in Pods : \A u \in DOMAIN records'[q] :
            Sub(<<cur'[q], u>>, records'[q][u]) \in submitted'
      BY <2>1, <3>1, <3>3 DEF TypeOK, GenuineInv, Genuine
    <3>5. Genuine'
      BY <2>1, <3>4 DEF GenuineInv, Genuine, Reported
    <3>6. QED
      BY <2>1, <3>5 DEF GenuineInv
  <2>4. QED
    BY <2>2, <2>3
<1>6. CASE UpdateDb(p)
  <2>1. UNCHANGED <<replica, buf, cur, records, req, read, submitted>>
    BY <1>6 DEF UpdateDb, history
  <2>2. ASSUME NEW k \in Placeholders, Reported(k)'
        PROVE  Sub(k, db'[k]) \in submitted
    <3>1. db'[k] = IF k[1] = cur[p] /\ k[2] \in DOMAIN records[p]
                     THEN records[p][k[2]] ELSE db[k]
      BY <1>6 DEF TypeOK, UpdateDb, BatchUpdated
    <3>2. k = <<k[1], k[2]>>
      BY PlaceholdersAssumption DEF Keys
    <3>3. QED
      BY <2>2, <3>1, <3>2 DEF GenuineInv, Genuine, Reported
  <2>3. Genuine'
    BY <2>1, <2>2 DEF GenuineInv, Genuine
  <2>4. QED
    BY <2>1, <2>3 DEF GenuineInv
<1>7. CASE ClearBuffers(p)
  <2>1. /\ UNCHANGED <<db, replica, req, read, submitted>>
        /\ \A k \in Keys : buf'[k] = buf[k] \/ buf'[k] = None
    BY <1>7 DEF ClearBuffers, HashesDeleted, history
  <2>2. QED
    BY <1>7, <2>1, GenuineForget DEF TypeOK, ClearBuffers, ForgetDrain
<1>8. QED
  BY <1>1, <1>2, <1>3, <1>4, <1>5, <1>6, <1>7 DEF Drain

\* A pod that starts, stops or dies carries nothing over.
LEMMA GenuinePod ==
  ASSUME "redis" \notin Faults, TypeOK, GenuineInv, NEW p \in Pods,
         \/ AbortDrain(p) \/ RetryDelete(p) \/ LookupFails(p)
         \/ StopDrainer(p) \/ Crash(p) \/ StartDrainer(p)
  PROVE  GenuineInv'
<1>1. CASE AbortDrain(p)
  BY <1>1, GenuineForget DEF TypeOK, AbortDrain, ForgetDrain, stores, history
<1>2. CASE RetryDelete(p) \/ LookupFails(p)
  BY <1>2 DEF RetryDelete, LookupFails
<1>3. CASE StopDrainer(p)
  BY <1>3, GenuineForget DEF TypeOK, StopDrainer, ForgetDrain, stores, history
<1>4. CASE Crash(p)
  BY <1>4, GenuineForget DEF TypeOK, Crash, ForgetDrain, stores, history
<1>5. CASE StartDrainer(p)
  BY <1>5, GenuineForget DEF StartDrainer, stores, history
<1>6. QED
  BY <1>1, <1>2, <1>3, <1>4, <1>5

\* Expiry and replication invent nothing.
LEMMA GenuineStores ==
  ASSUME TypeOK, GenuineInv, Expire \/ Replicate \/ UNCHANGED vars
  PROVE  GenuineInv'
<1>1. CASE Expire
  <2>1. /\ UNCHANGED <<db, replica, drainers, req, read, submitted>>
        /\ \A k \in Keys : buf'[k] = buf[k] \/ buf'[k] = None
    BY <1>1 DEF TypeOK, Expire, history
  <2>2. QED
    BY <2>1, GenuineForget DEF drainers
<1>2. CASE Replicate
  <2>1. UNCHANGED <<db, buf, cur, records, req, read, submitted>> /\ replica' = db
    BY <1>2 DEF Replicate, drainers, history
  <2>2. Genuine'
    BY <2>1 DEF GenuineInv, Genuine, Reported
  <2>3. QED
    BY <2>1, <2>2 DEF GenuineInv, Genuine, Reported
<1>3. CASE UNCHANGED vars
  BY <1>3, GenuineForget DEF vars
<1>4. QED
  BY <1>1, <1>2, <1>3

\* An answer is made of what is stored.
LEMMA GenuineRead ==
  ASSUME "redis" \notin Faults, TypeOK, GenuineInv, NEW g \in Readers,
         ReadRow(g) \/ \E k \in Keys : ReadBuffer(g, k)
  PROVE  GenuineInv'
<1>0. UNCHANGED <<db, replica, buf, cur, records, req, submitted>>
  BY DEF ReadRow, ReadBuffer, stores, drainers, history
<1> DEFINE Answered(h) ==
      read[h] # None /\ read[h].answer # None /\ read[h].answer.status # None
        => \E s \in submitted : /\ s.key = read[h].key
                               /\ s.report.status = read[h].answer.status
                               /\ s.report.at = read[h].answer.at
           Carried(h) ==
      read[h] # None /\ read[h].over # None => Sub(read[h].key, read[h].over) \in submitted
<1>1. \A h \in Readers : h # g => read'[h] = read[h]
  BY DEF TypeOK, ReadRow, ReadBuffer
<1>2. \A h \in Readers : Answered(h) /\ Carried(h)
  BY DEF GenuineInv, Genuine
<1>3. Answered(g)' /\ Carried(g)'
  <2>1. ASSUME NEW k \in Keys, ReadBuffer(g, k)
        PROVE  Answered(g)' /\ Carried(g)'
    <3>1. /\ read'[g].key = k /\ read'[g].over = buf[k] /\ read'[g].answer = None
      BY <2>1 DEF TypeOK, ReadBuffer
    <3>2. QED
      BY <1>0, <3>1 DEF GenuineInv, Genuine
  <2>2. CASE ReadRow(g)
    <3> SUFFICES ASSUME NEW k, k = read[g].key PROVE Answered(g)' /\ Carried(g)'
      OBVIOUS
    <3>0. read[g] \in Read /\ read[g] # None
      BY <2>2 DEF TypeOK, ReadRow
    <3>1. /\ read'[g].key = k /\ read'[g].over = read[g].over
          /\ read'[g].answer = IF k \in Placeholders THEN Overlay(ReadRows[k], read[g].over)
                                                    ELSE None
      BY <2>2, <3>0 DEF TypeOK, ReadRow, Read
    <3>2. Carried(g)'
      BY <1>0, <1>2, <3>0, <3>1
    <3>3. CASE k \in Placeholders /\ read[g].over = None
      <4>1. read'[g].answer = ReadRows[k]
        BY <3>1, <3>3 DEF Overlay
      <4>2. ReadRows[k].status # None => Sub(k, ReadRows[k]) \in submitted
        BY <3>3 DEF ReadRows, GenuineInv, Genuine, Reported
      <4>3. QED
        BY <1>0, <3>1, <3>2, <4>1, <4>2 DEF Sub
    <3>4. CASE k \in Placeholders /\ read[g].over # None
      <4>1. /\ read'[g].answer.status = read[g].over.status
            /\ read'[g].answer.at = read[g].over.at
        BY <3>1, <3>4 DEF Overlay
      <4>2. Sub(k, read[g].over) \in submitted
        BY <1>2, <3>0, <3>1, <3>4
      <4>3. QED
        BY <1>0, <3>1, <3>2, <4>1, <4>2 DEF Sub
    <3>5. QED
      BY <3>1, <3>2, <3>3, <3>4
  <2>3. QED
    BY <2>1, <2>2
<1>4. \A h \in Readers : Answered(h)' /\ Carried(h)'
  BY <1>0, <1>1, <1>2, <1>3
<1>5. Genuine'
  BY <1>0, <1>4 DEF GenuineInv, Genuine, Reported
<1>6. QED
  BY <1>0, <1>4, <1>5 DEF GenuineInv

\* Every step keeps the reports genuine while Redis answers.
LEMMA GenuineStep ==
  ASSUME "redis" \notin Faults, TypeOK, GenuineInv, [Next]_vars
  PROVE  GenuineInv'
<1>1. CASE UNCHANGED vars
  BY <1>1, GenuineStores
<1>2. CASE Next
  BY <1>2, GenuineSubmit, GenuineRequest, GenuineDrain, GenuinePod, GenuineStores, GenuineRead
     DEF Next
<1>3. QED
  BY <1>1, <1>2

\* Reports are genuine in every reachable state.
LEMMA GenuineInvariant ==
  ASSUME "redis" \notin Faults
  PROVE  Spec => []GenuineInv
<1>1. TypeOK /\ GenuineInv /\ [Next]_vars => GenuineInv'
  BY GenuineStep
<1>2. QED
  BY <1>1, GenuineInit, TypeCorrect, PTL DEF Spec

\* As long as Redis answers, every stored report and every answer is a
\* submission of that user for that event.
THEOREM ReportsGenuine ==
  ASSUME "redis" \notin Faults
  PROVE  Spec => []Genuine
<1>1. GenuineInv => Genuine
  BY DEF GenuineInv
<1>2. QED
  BY <1>1, GenuineInvariant, PTL

-----------------------------------------------------------------------------
(* Whatever fails, a row is composed of reports of its user *)

\* Every column of the row is one of a submission of the pair.
OfUser(k, row) ==
  \A c \in {"status", "message", "at"} :
    \E s \in submitted : s.key = k /\ s.report[c] = row[c]

\* A row with a status is composed; any other is blank.
RowComposed(k) == /\ Reported(k) => OfUser(k, db[k])
                  /\ ~Reported(k) => db[k] = Blank

\* What is buffered or carried was submitted; every row is composed; a
\* fallback that has loaded a row without a status has loaded a blank one.
ComposedInv ==
  /\ \A k \in Keys : buf[k] # None => Sub(k, buf[k]) \in submitted
  /\ \A p \in Pods : \A u \in DOMAIN records[p] :
       Sub(<<cur[p], u>>, records[p][u]) \in submitted
  /\ \A r \in Requests : req[r] # None =>
       /\ Sub(req[r].key, req[r].report) \in submitted
       /\ req[r].pc = "write" /\ req[r].loaded.status = None => req[r].loaded = Blank
  /\ \A k \in Placeholders : RowComposed(k)

\* Nothing is stored.
LEMMA ComposedInit == Init => ComposedInv
  BY DEF Init, ComposedInv, RowComposed, Reported, Blank

\* A submission as a whole is of its user.
LEMMA SubmittedOfUser ==
  ASSUME NEW k, NEW report, Sub(k, report) \in submitted
  PROVE  OfUser(k, report)
  BY DEF OfUser, Sub

\* A row nobody writes stays composed.
LEMMA RowKept ==
  ASSUME NEW k \in Placeholders, RowComposed(k), db'[k] = db[k],
         submitted \subseteq submitted'
  PROVE  RowComposed(k)'
  BY DEF RowComposed, Reported, OfUser

\* A row written with columns of submissions of the pair is composed.
LEMMA RowWritten ==
  ASSUME NEW k \in Placeholders, NEW row, OfUser(k, row), db'[k] = row, Reported(k)',
         submitted \subseteq submitted'
  PROVE  RowComposed(k)'
  BY DEF RowComposed, OfUser

\* Steps that forget hashes, drains or requests and write no row.
LEMMA ComposedForget ==
  ASSUME ComposedInv, submitted \subseteq submitted', db' = db,
         \A k \in Keys : buf'[k] = buf[k] \/ buf'[k] = None,
         \A q \in Pods : \/ records'[q] = records[q] /\ cur'[q] = cur[q]
                        \/ DOMAIN records'[q] = {},
         \A q \in Requests :
           \/ req'[q] = req[q] \/ req'[q] = None
           \/ Sub(req'[q].key, req'[q].report) \in submitted' /\ req'[q].pc # "write"
  PROVE  ComposedInv'
<1>1. \A k \in Placeholders : RowComposed(k)'
  BY RowKept DEF ComposedInv
<1>2. \A k \in Keys : buf'[k] # None => Sub(k, buf'[k]) \in submitted'
  BY DEF ComposedInv
<1>3. \A q \in Pods : \A u \in DOMAIN records'[q] :
        Sub(<<cur'[q], u>>, records'[q][u]) \in submitted'
  BY DEF ComposedInv
<1>4. \A q \in Requests : req'[q] # None =>
        /\ Sub(req'[q].key, req'[q].report) \in submitted'
        /\ req'[q].pc = "write" /\ req'[q].loaded.status = None => req'[q].loaded = Blank
  BY DEF ComposedInv
<1>5. QED
  BY <1>1, <1>2, <1>3, <1>4 DEF ComposedInv

\* The pipeline buffers the report of the request.
LEMMA ComposedPipeline ==
  ASSUME TypeOK, ComposedInv, NEW r \in Requests, req[r] # None,
         BufferPipeline(req[r].key, req[r].report),
         UNCHANGED <<db, cur, records, submitted>>,
         \A q \in Requests : q # r => req'[q] = req[q],
         req'[r].key = req[r].key, req'[r].report = req[r].report,
         req'[r].pc # "write"
  PROVE  ComposedInv'
<1>1. \A k \in Keys : buf'[k] = IF k = req[r].key THEN req[r].report ELSE buf[k]
  BY DEF TypeOK, BufferPipeline
<1>2. \A k \in Placeholders : RowComposed(k)'
  BY RowKept DEF ComposedInv
<1>3. QED
  BY <1>1, <1>2 DEF ComposedInv

\* The fallback writes columns of its own report over a row composed already, or
\* all of them over a blank row.
LEMMA ComposedDirectWrite ==
  ASSUME TypeOK, VisibleInv, ComposedInv, NEW r \in Requests, DirectWrite(r)
  PROVE  ComposedInv'
<1> SUFFICES ASSUME NEW k, k = req[r].key,
                    NEW report, report = req[r].report,
                    NEW row, row = ChangedColumns(db[k], req[r].loaded, report)
             PROVE  ComposedInv'
  OBVIOUS
<1>1. /\ req[r] # None /\ req[r].pc = "write" /\ k \in Placeholders
      /\ req[r] \in Request /\ report \in Report
  BY DEF TypeOK, DirectWrite, Request
<1>2. OfUser(k, report)
  BY <1>1, SubmittedOfUser DEF ComposedInv
<1>3. \A c \in {"status", "message", "at"} :
        row[c] = IF report[c] = req[r].loaded[c] THEN db[k][c] ELSE report[c]
  BY DEF ChangedColumns
<1>4. OfUser(k, row)
  <2>1. CASE Reported(k)
    <3>1. OfUser(k, db[k])
      BY <1>1, <2>1 DEF ComposedInv, RowComposed
    <3>2. QED
      BY <1>2, <1>3, <3>1 DEF OfUser
  <2>2. CASE ~Reported(k)
    <3>1. db[k] = Blank /\ req[r].loaded = Blank
      BY <1>1, <2>2 DEF ComposedInv, RowComposed, VisibleInv, RequestsShown, RequestShown
    <3>2. \A c \in {"status", "message", "at"} : row[c] = report[c]
      BY <1>3, <3>1
    <3>3. QED
      BY <1>2, <3>2 DEF OfUser
  <2>3. QED
    BY <2>1, <2>2
<1>5. /\ db'[k] = row /\ \A q \in Placeholders : q # k => db'[q] = db[q]
  BY <1>1 DEF TypeOK, DirectWrite
<1>6. Reported(k)'
  BY KeptDirectWrite DEF VisibleInv
<1>7. UNCHANGED <<buf, cur, records, submitted>>
  BY DEF DirectWrite, drainers, history
<1>8. /\ req'[r].key = k /\ req'[r].report = report /\ req'[r].pc = "reply"
      /\ \A q \in Requests : q # r => req'[q] = req[q]
  BY <1>1 DEF TypeOK, DirectWrite, Request
<1>9. Sub(k, report) \in submitted
  BY <1>1 DEF ComposedInv
<1>10. \A q \in Placeholders : RowComposed(q)'
  <2> TAKE q \in Placeholders
  <2>1. CASE q = k
    BY <1>4, <1>5, <1>6, <1>7, <2>1, RowWritten
  <2>2. CASE q # k
    BY <1>5, <1>7, <2>2, RowKept DEF ComposedInv
  <2>3. QED
    BY <2>1, <2>2
<1>11. QED
  BY <1>7, <1>8, <1>9, <1>10 DEF ComposedInv

\* Every await of a submission keeps it.
LEMMA ComposedRequest ==
  ASSUME TypeOK, VisibleInv, ComposedInv, NEW r \in Requests,
         \/ Handle(r) \/ BufferFails(r) \/ BufferRetries(r) \/ RequestFails(r)
  PROVE  ComposedInv'
<1>0. req[r] # None => req[r] \in Request /\ req[r].key \in Keys
  BY DEF TypeOK, Request
<1>1. CASE BufferReport(r) \/ BufferFails(r)
  <2>1. /\ req[r] # None /\ UNCHANGED <<db, cur, records, submitted>>
        /\ BufferPipeline(req[r].key, req[r].report) \/ UNCHANGED buf
    BY <1>1 DEF BufferReport, BufferFails, drainers, history
  <2>2. PICK done \in BOOLEAN :
          req' = [req EXCEPT ![r].pc = "select", ![r].buffered = done]
    BY <1>1 DEF BufferReport, BufferFails
  <2>3. /\ req'[r].key = req[r].key /\ req'[r].report = req[r].report
        /\ req'[r].pc = "select" /\ \A q \in Requests : q # r => req'[q] = req[q]
    BY <1>0, <2>1, <2>2 DEF TypeOK, Request
  <2>4. Sub(req[r].key, req[r].report) \in submitted
    BY <2>1 DEF ComposedInv
  <2>5. CASE BufferPipeline(req[r].key, req[r].report)
    BY <2>1, <2>3, <2>5, ComposedPipeline
  <2>6. CASE UNCHANGED buf
    BY <2>1, <2>3, <2>4, <2>6, ComposedForget
  <2>7. QED
    BY <2>1, <2>5, <2>6
<1>2. CASE BufferRetries(r)
  <2>1. /\ BufferPipeline(req[r].key, req[r].report) /\ req' = req /\ req[r] # None
        /\ UNCHANGED <<db, cur, records, submitted>> /\ req[r].pc = "buffer"
    BY <1>2 DEF BufferRetries, drainers, history
  <2>2. QED
    BY <2>1, ComposedPipeline
<1>3. CASE SelectPlaceholder(r)
  <2>1. UNCHANGED <<db, buf, cur, records, submitted>> /\ req[r] # None
    BY <1>3 DEF SelectPlaceholder, stores, drainers, history
  <2>2. /\ \A q \in Requests : q # r => req'[q] = req[q]
        /\ \/ req'[r] = None
           \/ /\ req'[r].key = req[r].key /\ req'[r].report = req[r].report
              /\ req'[r].pc = "write" => /\ req[r].key \in Placeholders
                                         /\ req'[r].loaded = db[req[r].key]
    BY <1>0, <1>3, <2>1 DEF TypeOK, SelectPlaceholder, Request
  <2>3. req'[r] # None /\ req'[r].pc = "write" /\ req'[r].loaded.status = None
          => req'[r].loaded = Blank
    BY <2>2 DEF ComposedInv, RowComposed, Reported
  <2>4. \A q \in Placeholders : RowComposed(q)'
    BY <2>1, RowKept DEF ComposedInv
  <2>5. QED
    BY <2>1, <2>2, <2>3, <2>4 DEF ComposedInv
<1>4. CASE DirectWrite(r)
  BY <1>4, ComposedDirectWrite
<1>5. CASE Respond(r) \/ RequestFails(r)
  <2>1. /\ UNCHANGED <<db, buf, cur, records, submitted>>
        /\ \A q \in Requests : req'[q] = req[q] \/ req'[q] = None
    BY <1>5 DEF TypeOK, Respond, RequestFails, stores, drainers, history
  <2>2. QED
    BY <2>1, ComposedForget
<1>6. QED
  BY <1>1, <1>2, <1>3, <1>4, <1>5 DEF Handle

\* A drain carries hashes and writes them whole.
LEMMA ComposedDrain ==
  ASSUME TypeOK, ComposedInv, NEW p \in Pods, Drain(p)
  PROVE  ComposedInv'
<1>1. CASE Scan(p) \/ PassDone(p) \/ DeleteDir(p)
  BY <1>1, ComposedForget DEF Scan, PassDone, DeleteDir, stores, history
<1>2. ASSUME NEW e \in Events, ReadMembers(p, e)
      PROVE  ComposedInv'
  <2>1. UNCHANGED <<db, buf, records, req, submitted>>
    BY <1>2 DEF ReadMembers, stores, history
  <2>2. \A q \in Pods : cur'[q] = cur[q] \/ (q = p /\ DOMAIN records[q] = {})
    BY <1>2 DEF TypeOK, ReadMembers, Busy
  <2>3. QED
    BY <2>1, <2>2, ComposedForget
<1>3. CASE ReadHashes(p)
  <2>1. UNCHANGED <<db, buf, req, submitted>>
    BY <1>3 DEF ReadHashes, stores, history
  <2>2. CASE Pending(cur[p], uids[p]) = {}
    BY <1>3, <2>1, <2>2, ComposedForget DEF TypeOK, ReadHashes, ForgetDrain
  <2>3. CASE Pending(cur[p], uids[p]) # {}
    <3>1. cur' = cur /\ records' = [records EXCEPT ![p] = Records(cur[p], uids[p])]
      BY <1>3, <2>3 DEF ReadHashes
    <3>2. cur[p] \in Events /\ uids[p] \subseteq Users
      BY <1>3 DEF TypeOK, ReadHashes, Busy
    <3>3. ASSUME NEW u \in DOMAIN Records(cur[p], uids[p])
          PROVE  Sub(<<cur[p], u>>, Records(cur[p], uids[p])[u]) \in submitted
      BY <3>2, <3>3 DEF Records, Pending, Keys, ComposedInv
    <3>4. \A q \in Pods : \A u \in DOMAIN records'[q] :
            Sub(<<cur'[q], u>>, records'[q][u]) \in submitted'
      BY <2>1, <3>1, <3>3 DEF TypeOK, ComposedInv
    <3>5. \A k \in Placeholders : RowComposed(k)'
      BY <2>1, RowKept DEF ComposedInv
    <3>6. QED
      BY <2>1, <3>4, <3>5 DEF ComposedInv
  <2>4. QED
    BY <2>2, <2>3
<1>4. CASE UpdateDb(p)
  <2>1. UNCHANGED <<buf, cur, records, req, submitted>>
    BY <1>4 DEF UpdateDb, history
  <2>2. ASSUME NEW k \in Placeholders
        PROVE  RowComposed(k)'
    <3>1. db'[k] = IF k[1] = cur[p] /\ k[2] \in DOMAIN records[p]
                     THEN records[p][k[2]] ELSE db[k]
      BY <1>4 DEF TypeOK, UpdateDb, BatchUpdated
    <3>2. CASE k[1] = cur[p] /\ k[2] \in DOMAIN records[p]
      <4>1. k = <<cur[p], k[2]>>
        BY <3>2, PlaceholdersAssumption DEF Keys
      <4>2. db'[k] = records[p][k[2]] /\ OfUser(k, records[p][k[2]]) /\ Reported(k)'
        BY <3>1, <3>2, <4>1, ReportIsNotNone, SubmittedOfUser DEF ComposedInv, TypeOK, Reported
      <4>3. QED
        BY <2>1, <4>2, RowWritten
    <3>3. CASE ~(k[1] = cur[p] /\ k[2] \in DOMAIN records[p])
      BY <2>1, <3>1, <3>3, RowKept DEF ComposedInv
    <3>4. QED
      BY <3>2, <3>3
  <2>3. QED
    BY <2>1, <2>2 DEF ComposedInv
<1>5. CASE ClearBuffers(p)
  <2>1. /\ UNCHANGED <<db, req, submitted>>
        /\ \A k \in Keys : buf'[k] = buf[k] \/ buf'[k] = None
    BY <1>5 DEF ClearBuffers, HashesDeleted, history
  <2>2. QED
    BY <1>5, <2>1, ComposedForget DEF TypeOK, ClearBuffers, ForgetDrain
<1>6. QED
  BY <1>1, <1>2, <1>3, <1>4, <1>5 DEF Drain

\* Pods, expiry, replication and reads store no report.
LEMMA ComposedRest ==
  ASSUME TypeOK, ComposedInv,
         \/ \E p \in Pods : \/ AbortDrain(p) \/ RetryDelete(p) \/ LookupFails(p)
                            \/ StopDrainer(p) \/ Crash(p) \/ StartDrainer(p)
         \/ Expire \/ Replicate \/ UNCHANGED vars
         \/ \E g \in Readers : ReadRow(g) \/ \E k \in Keys : ReadBuffer(g, k)
  PROVE  ComposedInv'
<1>1. ASSUME NEW p \in Pods, AbortDrain(p) \/ StopDrainer(p) \/ Crash(p)
      PROVE  ComposedInv'
  BY <1>1, ComposedForget
     DEF TypeOK, AbortDrain, StopDrainer, Crash, ForgetDrain, stores, history
<1>2. ASSUME NEW p \in Pods, RetryDelete(p) \/ LookupFails(p) \/ StartDrainer(p)
      PROVE  ComposedInv'
  <2>1. /\ UNCHANGED <<db, cur, records, req, submitted>>
        /\ \A k \in Keys : buf'[k] = buf[k] \/ buf'[k] = None
    BY <1>2 DEF RetryDelete, LookupFails, StartDrainer, HashesDeleted, stores, drainers, history
  <2>2. QED
    BY <2>1, ComposedForget
<1>3. CASE \/ Expire \/ Replicate \/ UNCHANGED vars
           \/ \E g \in Readers : ReadRow(g) \/ \E k \in Keys : ReadBuffer(g, k)
  <2>1. /\ UNCHANGED <<db, cur, records, req, submitted>>
        /\ \A k \in Keys : buf'[k] = buf[k] \/ buf'[k] = None
    BY <1>3 DEF TypeOK, Expire, Replicate, ReadRow, ReadBuffer, vars, stores, drainers, history
  <2>2. QED
    BY <2>1, ComposedForget
<1>4. QED
  BY <1>1, <1>2, <1>3

\* Every step keeps the rows composed of their users' reports.
LEMMA ComposedStep ==
  ASSUME TypeOK, VisibleInv, ComposedInv, [Next]_vars
  PROVE  ComposedInv'
<1>1. ASSUME NEW r \in Requests, NEW p \in Pods, NEW k \in Keys,
             NEW s \in Statuses, NEW m \in Messages \cup {None}, Submit(r, p, k, s, m)
      PROVE  ComposedInv'
  <2>1. UNCHANGED <<db, buf, cur, records>> /\ submitted \subseteq submitted'
    BY <1>1 DEF Submit, stores, drainers
  <2>2. /\ Sub(req'[r].key, req'[r].report) \in submitted' /\ req'[r].pc = "buffer"
        /\ \A q \in Requests : q # r => req'[q] = req[q]
    BY <1>1 DEF TypeOK, Submit
  <2>3. QED
    BY <2>1, <2>2, ComposedForget
<1>2. CASE UNCHANGED vars
  BY <1>2, ComposedRest
<1>3. CASE Next
  BY <1>1, <1>3, ComposedRequest, ComposedDrain, ComposedRest DEF Next
<1>4. QED
  BY <1>2, <1>3

\* It holds in every reachable state, whatever fails.
LEMMA ComposedInvariant == Spec => []ComposedInv
<1>1. TypeOK /\ VisibleInv /\ ComposedInv /\ [Next]_vars => ComposedInv'
  BY ComposedStep
<1>2. QED
  BY <1>1, ComposedInit, TypeCorrect, VisibleInvariant, PTL DEF Spec

\* What my-report answers is composed of reports of the user.
LEMMA ViewComposedNext ==
  ASSUME ComposedInv', NEW k \in Placeholders, View(k)' # None
  PROVE  OfUser(k, View(k))'
<1>1. k \in Keys
  BY PlaceholdersAssumption
<1>2. CASE buf'[k] = None
  BY <1>2 DEF View, Overlay, ComposedInv, RowComposed
<1>3. CASE buf'[k] # None
  <2>1. OfUser(k, buf[k])'
    BY <1>1, <1>3 DEF ComposedInv, OfUser, Sub
  <2>2. View(k)' = [status |-> buf'[k].status,
                    message |-> IF buf'[k].message # None THEN buf'[k].message
                                                          ELSE db'[k].message,
                    at |-> buf'[k].at]
    BY <1>3 DEF View, Overlay
  <2>3. CASE Reported(k)'
    <3>1. OfUser(k, db[k])'
      BY <2>3 DEF ComposedInv, RowComposed
    <3>2. QED
      BY <2>1, <2>2, <3>1 DEF OfUser
  <2>4. CASE ~Reported(k)'
    <3>1. db'[k].message = None
      BY <2>4 DEF ComposedInv, RowComposed, Blank
    <3>2. QED
      BY <2>1, <2>2, <3>1 DEF OfUser
  <2>5. QED
    BY <2>3, <2>4
<1>4. QED
  BY <1>2, <1>3

-----------------------------------------------------------------------------
(* The write path implements SafetyView *)

offeredView == {<<s.key, s.report>> : s \in PlacedPairs(submitted)}
shownView == [k \in Placeholders |-> View(k)]
settledView == {k \in Placeholders : Reported(k)}
lapsedView == lapsed \cap Placeholders
confirmedView == {s.key : s \in acked}

\* The only steps that touch the histories of submissions and answers.
LEMMA HistorySteps ==
  ASSUME [Next]_vars
  PROVE  \/ UNCHANGED <<submitted, acked>>
         \/ \E r \in Requests, p \in Pods, k \in Keys, s \in Statuses,
               m \in Messages \cup {None} : Submit(r, p, k, s, m)
         \/ \E r \in Requests : Respond(r)
  BY DEF Next, vars, history, Handle, BufferReport, SelectPlaceholder, DirectWrite, BufferFails,
         BufferRetries, RequestFails, Drain, Scan, PassDone, ReadMembers, DeleteDir, ReadHashes,
         UpdateDb, ClearBuffers, AbortDrain, RetryDelete, LookupFails, StopDrainer, Crash,
         StartDrainer, Expire, Replicate, ReadRow, ReadBuffer

\* What is composed of a user's submissions is composed of that pair's offers.
LEMMA ComposedOfOffers ==
  ASSUME TypeOK, NEW k \in Placeholders, NEW row, OfUser(k, row)
  PROVE  Promise!Composed(k, row)
<1>1. ASSUME NEW c \in {"status", "message", "at"}
      PROVE  \E report \in Report : <<k, report>> \in offeredView /\ row[c] = report[c]
  <2>1. PICK s \in submitted : s.key = k /\ s.report[c] = row[c]
    BY <1>1 DEF OfUser
  <2>2. s.report \in Report /\ <<k, s.report>> \in offeredView
    BY <2>1 DEF TypeOK, Submission, offeredView, PlacedPairs
  <2>3. QED
    BY <2>1, <2>2
<1>2. QED
  BY <1>1 DEF Promise!Composed, offeredView

\* The initial states are those of SafetyView.
LEMMA PromiseInit == Init => Promise!Init
  BY PlaceholdersAssumption DEF Init, Promise!Init, View, Reported, Blank, PlacedPairs

\* A step that neither submits nor answers revises what is shown.
LEMMA PromiseRevise ==
  ASSUME TypeOK, TypeOK', VisibleInv, ComposedInv', [Next]_vars,
         UNCHANGED <<submitted, acked>>
  PROVE  Promise!Revise
<1>1. offeredView' = offeredView /\ confirmedView' = confirmedView
  BY DEF offeredView, confirmedView, PlacedPairs
<1>2. Kept
  BY VisibleStep
<1>3. settledView \subseteq settledView' /\ settledView' \subseteq Placeholders
  BY <1>2 DEF settledView, Kept
<1>4. lapsedView \subseteq lapsedView' /\ lapsedView' \subseteq Placeholders
  BY <1>2 DEF lapsedView, Kept
<1>5. ASSUME NEW k \in Placeholders
      PROVE  View(k)' # None <=> buf'[k] # None \/ Reported(k)'
  <2>1. db'[k] \in Row /\ buf'[k] \in Report \cup {None}
    BY PlaceholdersAssumption DEF TypeOK
  <2>2. QED
    BY <2>1, OverlayIsRow, NoneAssumption DEF View
<1>6. ASSUME NEW k \in Placeholders
      PROVE  \/ View(k)' = View(k)
             \/ View(k)' # None /\ Promise!Composed(k, View(k)')
             \/ View(k)' = None /\ k \in lapsedView'
  <2>1. CASE View(k)' # None
    <3>1. OfUser(k, View(k)')
      BY <2>1, ViewComposedNext DEF OfUser
    <3>2. QED
      BY <2>1, <3>1, ComposedOfOffers
  <2>2. CASE View(k)' = None /\ View(k) # None
    BY <1>2, <1>5, <2>2, ViewShows DEF Kept, Shown, lapsedView
  <2>3. QED
    BY <2>1, <2>2
<1>7. \A k \in settledView' : View(k)' # None
  BY <1>5 DEF settledView
<1>8. /\ DOMAIN shownView = Placeholders /\ DOMAIN shownView' = Placeholders
      /\ \A k \in Placeholders : shownView[k] = View(k) /\ shownView'[k] = View(k)'
  BY DEF shownView
<1>9. /\ \A k \in Placeholders :
           \/ shownView'[k] = shownView[k]
           \/ shownView'[k] # None /\ Promise!Composed(k, shownView'[k])
           \/ shownView'[k] = None /\ k \in lapsedView'
      /\ \A k \in settledView' : shownView'[k] # None
  BY <1>3, <1>6, <1>7, <1>8
<1>10. QED
  BY <1>1, <1>3, <1>4, <1>8, <1>9
     DEF Promise!Revise, offeredView, shownView, settledView, lapsedView, confirmedView

\* A submission of a user in the event is an offer; any other changes nothing.
LEMMA PromiseOffer ==
  ASSUME TypeOK, NEW r \in Requests, NEW p \in Pods, NEW k \in Keys, NEW s \in Statuses,
         NEW m \in Messages \cup {None}, Submit(r, p, k, s, m)
  PROVE  [Promise!Next]_(Promise!vars)
<1> DEFINE report == [status |-> s, message |-> m, at |-> clock + 1]
<1>1. report \in Report
  BY MaxReportsAssumption DEF TypeOK, Submit, Report
<1>2. submitted' = submitted \cup {Sub(k, report)} /\ UNCHANGED <<db, buf, acked, lapsed>>
  BY DEF Submit, stores
<1>3. /\ shownView' = shownView /\ confirmedView' = confirmedView
      /\ settledView' = settledView /\ lapsedView' = lapsedView
  BY <1>2 DEF shownView, confirmedView, settledView, lapsedView, View, Reported
<1>4. Sub(k, report).key = k /\ Sub(k, report).report = report
  BY DEF Sub
<1> HIDE DEF report
<1>5. CASE k \in Placeholders
  <2>1. PlacedPairs(submitted') = PlacedPairs(submitted) \cup {Sub(k, report)}
    BY <1>2, <1>4, <1>5 DEF PlacedPairs
  <2>2. offeredView' = offeredView \cup {<<k, report>>}
    BY <2>1, <1>2, <1>4 DEF offeredView, PlacedPairs
  <2>3. \E q \in Placeholders, v \in Report : offeredView' = offeredView \cup {<<q, v>>}
    BY <1>1, <1>5, <2>2
  <2>4. \E q \in Placeholders, v \in Report : Promise!Offer(q, v)
    BY <1>3, <2>3
       DEF Promise!Offer, offeredView, shownView, settledView, lapsedView, confirmedView
  <2>5. QED
    BY <2>4 DEF Promise!Next
<1>6. CASE k \notin Placeholders
  <2>1. PlacedPairs(submitted') = PlacedPairs(submitted)
    BY <1>2, <1>4, <1>6 DEF PlacedPairs
  <2>2. offeredView' = offeredView
    BY <2>1 DEF offeredView, PlacedPairs
  <2>3. UNCHANGED Promise!vars
    BY <1>3, <2>2 DEF Promise!vars, offeredView, shownView, settledView, lapsedView, confirmedView
  <2>4. QED
    BY <2>3
<1>7. QED
  BY <1>5, <1>6

\* A 200 confirms a pair that shows, or whose hash has expired in the meantime.
LEMMA PromiseConfirm ==
  ASSUME TypeOK, VisibleInv, NEW r \in Requests, Respond(r)
  PROVE  [Promise!Next]_(Promise!vars)
<1> SUFFICES ASSUME NEW k, k = req[r].key PROVE [Promise!Next]_(Promise!vars)
  OBVIOUS
<1>1. k \in Placeholders /\ Shown(k)
  BY DEF TypeOK, VisibleInv, RequestsShown, RequestShown, Respond
<1>2. shownView[k] # None \/ k \in lapsedView
  BY <1>1, ViewShows DEF Shown, shownView, lapsedView
<1>3. /\ acked' = acked \cup {Sub(k, req[r].report)}
      /\ UNCHANGED <<db, buf, submitted, lapsed>>
  BY DEF Respond, stores
<1>4. confirmedView' = confirmedView \cup {k}
  <2>1. Sub(k, req[r].report).key = k
    BY DEF Sub
  <2>2. QED
    BY <1>3, <2>1 DEF confirmedView
<1>5. /\ offeredView' = offeredView /\ shownView' = shownView
      /\ settledView' = settledView /\ lapsedView' = lapsedView
  BY <1>3 DEF offeredView, shownView, settledView, lapsedView, PlacedPairs, View, Reported
<1>6. Promise!Confirm(k)
  BY <1>2, <1>4, <1>5
     DEF Promise!Confirm, offeredView, shownView, settledView, lapsedView, confirmedView
<1>7. QED
  BY <1>1, <1>6 DEF Promise!Next

\* Every step is a step of SafetyView or a stutter.
LEMMA PromiseStep ==
  ASSUME TypeOK, TypeOK', VisibleInv, ComposedInv', [Next]_vars
  PROVE  [Promise!Next]_(Promise!vars)
<1>1. CASE UNCHANGED <<submitted, acked>>
  BY <1>1, PromiseRevise DEF Promise!Next
<1>2. QED
  BY <1>1, PromiseOffer, PromiseConfirm, HistorySteps

\* The buffer, the drainers and the rows together implement SafetyView, for any
\* number of pods and whatever fails: a report is confirmed only once it shows,
\* what is shown is composed of reports of the user, a pair whose row has been
\* written shows for ever, and any other is shown as unreported again only after
\* a hash of it has expired.
THEOREM ImplementsSafetyView == Spec => KeepsPromise
<1>1. Init => Promise!Init
  BY PromiseInit
<1>2. TypeOK /\ TypeOK' /\ VisibleInv /\ ComposedInv /\ ComposedInv' /\ [Next]_vars
        => [Promise!Next]_(Promise!vars)
  BY PromiseStep
<1>3. QED
  BY <1>1, <1>2, TypeCorrect, VisibleInvariant, ComposedInvariant, PTL
     DEF Spec, KeepsPromise, Promise!Spec

=============================================================================
