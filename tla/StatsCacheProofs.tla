--------------------------- MODULE StatsCacheProofs ---------------------------
(***************************************************************************)
(* Whatever a dashboard is served was true within TTL + MaxAge, for every  *)
(* number of users, departments, readers and writers.  The invariant       *)
(* follows a value from the query to the entry: it was true when it was    *)
(* born, and an entry expires TTL + MaxAge after that at the latest.  The  *)
(* second half follows the writers: what a sweep leaves behind was stored  *)
(* by a reader that raced with it, or is marked by a failure or a job.     *)
(***************************************************************************)
EXTENDS StatsCache, TLAPS

\* A value computed from a state that was current in tick b.
Held(kind, scope, value, b) == \E s \in held[b] : value = View(kind, scope, s)

EntriesBorn ==
  \A k \in Keys : cache[k] # None =>
    \E b \in Times : /\ b <= now
                     /\ cache[k].expireAt <= b + TTL + MaxAge
                     /\ Held(k[1], k[2], cache[k].value, b)

AnswersBorn ==
  \A r \in Readers : reader[r] # None =>
    /\ reader[r].pc = "set" =>
         /\ reader[r].born <= now /\ now <= reader[r].born + MaxAge
         /\ Held(reader[r].kind, reader[r].scope, reader[r].value, reader[r].born)
    /\ reader[r].pc = "done" => reader[r].at <= now

IInv ==
  /\ TypeOK
  /\ EntriesBorn
  /\ AnswersBorn
  /\ ServedFresh

USE TTLAssumption, AgeAssumption, TimeAssumption, NoneAssumption

-----------------------------------------------------------------------------
(* Lemmas *)

\* Every aggregate of a possible state is in Aggregates.
LEMMA ViewType ==
  ASSUME NEW kind \in Kinds, NEW scope \in Scopes, NEW s \in RowStates
  PROVE  View(kind, scope, s) \in Aggregates
<1>1. <<kind, scope>> \in Keys /\ <<kind, scope>>[1] = kind /\ <<kind, scope>>[2] = scope
  BY DEF Keys
<1>. QED  BY <1>1 DEF Aggregates

\* The fields of a reader in each of its states.
LEMMA ReaderFields ==
  ASSUME NEW q \in Reader
  PROVE  /\ q.kind \in Kinds /\ q.scope \in Scopes /\ q.pc \in {"query", "set", "done"}
         /\ q.pc = "set" => q.value \in Aggregates /\ q.born \in Times /\ q.raced \in BOOLEAN
         /\ q.pc = "done" => q.value \in Aggregates /\ q.at \in Times
BY DEF Reader

\* A history that only grows in the past keeps what it has seen.
LEMMA HeldStays ==
  ASSUME NEW b \in Times, held[b] \subseteq held'[b], NEW kind, NEW scope, NEW value,
         Held(kind, scope, value, b)
  PROVE  \E s \in held'[b] : value = View(kind, scope, s)
BY DEF Held

\* The part of the invariant that reads the history survives every step that
\* keeps the cache, or drops entries of it, and the values of the readers.
LEMMA HistoryGrows ==
  ASSUME TypeOK, TypeOK', EntriesBorn, AnswersBorn, ServedFresh,
         now <= now',
         \A b \in Times : b <= now => held[b] \subseteq held'[b],
         \A k \in Keys : cache'[k] # None =>
            /\ cache[k] # None
            /\ cache'[k].value = cache[k].value /\ cache'[k].expireAt = cache[k].expireAt,
         \A r \in Readers : reader'[r] # None =>
            /\ reader[r] # None
            /\ reader'[r].kind = reader[r].kind /\ reader'[r].scope = reader[r].scope
            /\ reader'[r].pc = reader[r].pc
            /\ reader[r].pc = "set" => /\ reader'[r].value = reader[r].value
                                       /\ reader'[r].born = reader[r].born
                                       /\ now' <= reader[r].born + MaxAge
            /\ reader[r].pc = "done" => /\ reader'[r].value = reader[r].value
                                        /\ reader'[r].at = reader[r].at
  PROVE  EntriesBorn' /\ AnswersBorn' /\ ServedFresh'
<1>1. EntriesBorn'
  <2> SUFFICES ASSUME NEW k \in Keys, cache'[k] # None
               PROVE  \E b \in Times : /\ b <= now'
                                       /\ cache'[k].expireAt <= b + TTL + MaxAge
                                       /\ \E s \in held'[b] :
                                            cache'[k].value = View(k[1], k[2], s)
    BY DEF EntriesBorn, Held
  <2>1. PICK b \in Times : /\ b <= now
                           /\ cache[k].expireAt <= b + TTL + MaxAge
                           /\ Held(k[1], k[2], cache[k].value, b)
    BY DEF EntriesBorn
  <2>2. b <= now'
    BY <2>1 DEF TypeOK, Times
  <2>. QED  BY <2>1, <2>2 DEF Held
<1>2. AnswersBorn'
  <2> SUFFICES ASSUME NEW r \in Readers, reader'[r] # None
               PROVE  /\ reader'[r].pc = "set" =>
                           /\ reader'[r].born <= now'
                           /\ now' <= reader'[r].born + MaxAge
                           /\ \E s \in held'[reader'[r].born] :
                                reader'[r].value = View(reader'[r].kind, reader'[r].scope, s)
                      /\ reader'[r].pc = "done" => reader'[r].at <= now'
    BY DEF AnswersBorn, Held
  <2>1. reader[r] # None /\ reader[r] \in Reader
    BY DEF TypeOK
  <2>2. ASSUME reader[r].pc = "set"
        PROVE  /\ reader[r].born <= now'
               /\ \E s \in held'[reader[r].born] :
                    reader[r].value = View(reader[r].kind, reader[r].scope, s)
    <3>1. reader[r].born \in Times /\ reader[r].born <= now
          /\ Held(reader[r].kind, reader[r].scope, reader[r].value, reader[r].born)
      BY <2>1, <2>2, ReaderFields DEF AnswersBorn
    <3>. QED  BY <3>1 DEF Held, TypeOK, Times
  <2>3. ASSUME reader[r].pc = "done" PROVE reader[r].at <= now'
    BY <2>1, <2>3, ReaderFields DEF AnswersBorn, TypeOK, Times
  <2>. QED  BY <2>2, <2>3, <2>1
<1>3. ServedFresh'
  <2> SUFFICES ASSUME NEW r \in Readers, reader'[r] # None, reader'[r].pc = "done"
               PROVE  \E b \in Times :
                        /\ b <= reader'[r].at /\ reader'[r].at <= b + (TTL + MaxAge)
                        /\ \E s \in held'[b] :
                             reader'[r].value = View(reader'[r].kind, reader'[r].scope, s)
    BY DEF ServedFresh, WasTrue
  <2>1. /\ reader[r] # None /\ reader[r] \in Reader /\ reader[r].pc = "done"
        /\ reader'[r].value = reader[r].value /\ reader'[r].at = reader[r].at
        /\ reader'[r].kind = reader[r].kind /\ reader'[r].scope = reader[r].scope
    BY DEF TypeOK
  <2>2. PICK b \in Times :
          /\ b <= reader[r].at /\ reader[r].at <= b + (TTL + MaxAge)
          /\ \E s \in held[b] : reader[r].value = View(reader[r].kind, reader[r].scope, s)
    BY <2>1 DEF ServedFresh, WasTrue
  <2>3. b <= now
    BY <2>1, <2>2, ReaderFields DEF AnswersBorn, TypeOK, Times
  <2>. QED  BY <2>1, <2>2, <2>3
<1>. QED  BY <1>1, <1>2, <1>3

\* A step that changes one reader only keeps the others as they are.
LEMMA OneReader ==
  ASSUME TypeOK, TypeOK', EntriesBorn, AnswersBorn, ServedFresh, NEW r \in Readers, NEW q,
         reader' = [reader EXCEPT ![r] = q], UNCHANGED <<now, held, cache>>,
         q # None /\ q.pc = "set" =>
           /\ q.born <= now /\ now <= q.born + MaxAge
           /\ Held(q.kind, q.scope, q.value, q.born),
         q # None /\ q.pc = "done" =>
           /\ q.at <= now
           /\ WasTrue(q.kind, q.scope, q.value, q.at, TTL + MaxAge)
  PROVE  EntriesBorn' /\ AnswersBorn' /\ ServedFresh'
<1>1. reader' \in [Readers -> Reader \cup {None}] /\ reader'[r] = q
      /\ \A x \in Readers : x # r => reader'[x] = reader[x]
  BY DEF TypeOK
<1>2. EntriesBorn'
  BY DEF EntriesBorn, Held
<1>3. AnswersBorn'
  BY <1>1 DEF AnswersBorn, Held
<1>4. ServedFresh'
  BY <1>1 DEF ServedFresh, WasTrue
<1>. QED  BY <1>2, <1>3, <1>4

-----------------------------------------------------------------------------
(* Type correctness *)

\* The initial state is typed.
LEMMA TypeInit == Init => TypeOK
BY InitialAssumption DEF Init, TypeOK, Times

\* A commit of well-typed rows keeps the types.
LEMMA CommittedType ==
  ASSUME TypeOK, NEW new \in RowStates, Committed(new)
  PROVE  /\ rows' \in RowStates
         /\ held' \in [Times -> SUBSET RowStates]
         /\ writes' \in 0..MaxWrites
         /\ reader' \in [Readers -> Reader \cup {None}]
<1>1. rows' \in RowStates /\ held' \in [Times -> SUBSET RowStates] /\ writes' \in 0..MaxWrites
  BY DEF Committed, TypeOK
<1>2. ASSUME NEW r \in Readers, reader[r] # None, reader[r].pc = "set"
      PROVE  [reader[r] EXCEPT !.raced = TRUE] \in Reader
  BY <1>2 DEF TypeOK, Reader
<1>3. reader' \in [Readers -> Reader \cup {None}]
  BY <1>2 DEF Committed, TypeOK
<1>. QED  BY <1>1, <1>3

\* A row that gets a status, or a department, is a row.
LEMMA StatusSet ==
  ASSUME TypeOK, NEW u \in Users, HasRow(u, rows)
  PROVE  /\ \A s \in Statuses : [rows[u] EXCEPT !.status = s] \in Row
         /\ \A d \in Depts \cup {None} : [rows[u] EXCEPT !.dept = d] \in Row
<1>1. rows[u] \in Row
  BY DEF TypeOK, RowStates, HasRow
<1>. QED  BY <1>1 DEF Row

\* What the jobs of a deployment commit.
Job == (\E us \in SUBSET Users, dept \in Depts \cup {None} : TopUp(us, dept) \/ Backfill(us, dept))
         \/ Prune

\* Each of them replaces the rows by others and touches nothing but marks.
LEMMA JobsAreSilent ==
  ASSUME TypeOK, Job
  PROVE  /\ \E new \in RowStates : Silent(new)
         /\ UNCHANGED <<now, writer>>
<1>1. ASSUME NEW us \in SUBSET Users, NEW dept \in Depts \cup {None}, TopUp(us, dept)
      PROVE  \E new \in RowStates : Silent(new)
  <2>1. [dept |-> dept, status |-> None] \in Row
    BY DEF Row
  <2>2. [u \in Users |-> IF u \in us THEN [dept |-> dept, status |-> None] ELSE rows[u]] \in RowStates
    BY <2>1 DEF TypeOK, RowStates
  <2>. QED  BY <1>1, <2>2 DEF TopUp
<1>2. ASSUME NEW us \in SUBSET Users, NEW dept \in Depts \cup {None}, Backfill(us, dept)
      PROVE  \E new \in RowStates : Silent(new)
  <2>1. \A u \in us : [rows[u] EXCEPT !.dept = dept] \in Row
    BY <1>2, StatusSet DEF Backfill
  <2>2. [u \in Users |-> IF u \in us THEN [rows[u] EXCEPT !.dept = dept] ELSE rows[u]] \in RowStates
    BY <2>1 DEF TypeOK, RowStates
  <2>. QED  BY <1>2, <2>2 DEF Backfill
<1>3. ASSUME Prune
      PROVE  \E new \in RowStates : Silent(new)
  <2>1. [u \in Users |-> IF u \in Surplus THEN Gone ELSE rows[u]] \in RowStates
    BY DEF TypeOK, RowStates
  <2>. QED  BY <1>3, <2>1 DEF Prune
<1>4. UNCHANGED <<now, writer>>
  BY DEF Job, TopUp, Backfill, Prune
<1>. QED  BY <1>1, <1>2, <1>3, <1>4 DEF Job

\* They mark every entry and change nothing else of it.
LEMMA SilentMarks ==
  ASSUME TypeOK, NEW new, Silent(new)
  PROVE  /\ cache' \in [Keys -> Entry \cup {None}]
         /\ \A k \in Keys : cache'[k] # None =>
              /\ cache[k] # None
              /\ cache'[k].value = cache[k].value /\ cache'[k].expireAt = cache[k].expireAt
              /\ cache'[k].raced
<1>1. ASSUME NEW k \in Keys, cache[k] # None
      PROVE  LET c == [cache[k] EXCEPT !.raced = TRUE]
             IN  c \in Entry /\ c.value = cache[k].value /\ c.expireAt = cache[k].expireAt /\ c.raced
  <2>1. cache[k] \in Entry
    BY <1>1 DEF TypeOK
  <2>. QED  BY <2>1 DEF Entry
<1>. QED  BY <1>1 DEF Silent

\* A writer record stays one when a field of it is set.
LEMMA WriterType ==
  ASSUME NEW v \in Writer, NEW c \in {"scan", "del", "commit"}, NEW T \in SUBSET Keys
  PROVE  /\ [v EXCEPT !.pc = c] \in Writer
         /\ [v EXCEPT !.pc = c, !.todo = T] \in Writer
         /\ [v EXCEPT !.todo = T] \in Writer
BY DEF Writer

\* Where a handler goes on after the invalidation.
LEMMA AfterInvalidationType ==
  ASSUME TypeOK, NEW w \in Writers, writer[w] # None, AfterInvalidation(w)
  PROVE  writer' \in [Writers -> Writer \cup {None}]
<1>1. writer[w] \in Writer
  BY DEF TypeOK
<1>2. [writer[w] EXCEPT !.pc = "commit", !.todo = {}] \in Writer
  BY <1>1, WriterType
<1>. QED  BY <1>2 DEF AfterInvalidation, TypeOK

\* Every step keeps the types.
LEMMA TypeNext == TypeOK /\ [Next]_vars => TypeOK'
<1> SUFFICES ASSUME TypeOK, [Next]_vars PROVE TypeOK'
  OBVIOUS
<1>1. CASE Tick
  <2>1. held' \in [Times -> SUBSET RowStates]
    BY <1>1 DEF Tick, TypeOK
  <2>. QED  BY <1>1, <2>1 DEF Tick, TypeOK, Times
<1>2. ASSUME NEW r \in Readers, NEW kind \in Kinds, NEW scope \in Scopes, Get(r, kind, scope)
      PROVE  TypeOK'
  <2> DEFINE k == CacheKey(kind, scope)
  <2>1. k \in Keys
    BY DEF CacheKey, Keys
  <2>2. ASSUME Live(k)
        PROVE  [pc |-> "done", kind |-> kind, scope |-> scope, value |-> cache[k].value,
                at |-> now] \in Reader
    <3>1. cache[k] \in Entry
      BY <2>1, <2>2 DEF Live, TypeOK
    <3>. QED  BY <3>1 DEF Entry, Reader, TypeOK
  <2>3. [pc |-> "query", kind |-> kind, scope |-> scope] \in Reader
    BY DEF Reader
  <2>. QED  BY <1>2, <2>2, <2>3 DEF Get, TypeOK, database
<1>3. ASSUME NEW r \in Readers, Query(r)
      PROVE  TypeOK'
  <2>1. PICK t \in Times : \E s \in held[t] :
          reader' = [reader EXCEPT ![r] =
            [pc |-> "set", kind |-> reader[r].kind, scope |-> reader[r].scope,
             value |-> View(reader[r].kind, reader[r].scope, s), born |-> t,
             raced |-> s # rows]]
    BY <1>3 DEF Query
  <2>2. PICK s \in held[t] : reader' = [reader EXCEPT ![r] =
            [pc |-> "set", kind |-> reader[r].kind, scope |-> reader[r].scope,
             value |-> View(reader[r].kind, reader[r].scope, s), born |-> t,
             raced |-> s # rows]]
    BY <2>1
  <2>3. reader[r].kind \in Kinds /\ reader[r].scope \in Scopes /\ s \in RowStates
    BY <1>3, ReaderFields DEF Query, TypeOK
  <2>4. View(reader[r].kind, reader[r].scope, s) \in Aggregates
    BY <2>3, ViewType
  <2>5. [pc |-> "set", kind |-> reader[r].kind, scope |-> reader[r].scope,
         value |-> View(reader[r].kind, reader[r].scope, s), born |-> t,
         raced |-> s # rows] \in Reader
    BY <2>3, <2>4 DEF Reader
  <2>6. reader' \in [Readers -> Reader \cup {None}]
    BY <2>2, <2>5 DEF TypeOK
  <2>. QED  BY <1>3, <2>6 DEF Query, TypeOK, database
<1>4. ASSUME NEW r \in Readers, Set(r)
      PROVE  TypeOK'
  <2> DEFINE q == reader[r]
  <2> DEFINE k == CacheKey(q.kind, q.scope)
  <2>1. q \in Reader /\ q.pc = "set" /\ q.kind \in Kinds /\ q.scope \in Scopes
        /\ q.value \in Aggregates /\ q.raced \in BOOLEAN
    BY <1>4, ReaderFields DEF Set, TypeOK
  <2>2. k \in Keys
    BY <2>1 DEF CacheKey, Keys
  <2>3. Uncommitted \in BOOLEAN /\ Expiry(now) \in Nat
    BY DEF Uncommitted, Expiry, TypeOK, Times
  <2>4. [value |-> q.value, expireAt |-> Expiry(now), raced |-> q.raced \/ Uncommitted] \in Entry
    <3> HIDE DEF q
    <3>. QED  BY <2>1, <2>3 DEF Entry
  <2>5. cache' \in [Keys -> Entry \cup {None}]
    BY <1>4, <2>2, <2>4 DEF Set, TypeOK
  <2>6. [pc |-> "done", kind |-> q.kind, scope |-> q.scope, value |-> q.value, at |-> now] \in Reader
    BY <2>1 DEF Reader, TypeOK
  <2>. QED  BY <1>4, <2>5, <2>6 DEF Set, TypeOK, database
<1>5. ASSUME NEW w \in Writers, NEW us \in SUBSET Users, NEW s \in Statuses, DrainCommit(w, us, s)
      PROVE  TypeOK'
  <2> DEFINE new == [u \in Users |-> IF u \in us /\ HasRow(u, rows)
                                        THEN [rows[u] EXCEPT !.status = s] ELSE rows[u]]
  <2>1. new \in RowStates
    <3>1. \A u \in Users : HasRow(u, rows) => [rows[u] EXCEPT !.status = s] \in Row
      BY StatusSet
    <3>. QED  BY <3>1 DEF TypeOK, RowStates
  <2>2. Committed(new)
    BY <1>5 DEF DrainCommit
  <2>3. /\ rows' \in RowStates /\ held' \in [Times -> SUBSET RowStates]
        /\ writes' \in 0..MaxWrites /\ reader' \in [Readers -> Reader \cup {None}]
    <3> HIDE DEF new
    <3>. QED  BY <2>1, <2>2, CommittedType
  <2>4. [kind |-> "drain", pc |-> "scan", todo |-> {}] \in Writer
    BY DEF Writer
  <2>. QED  BY <1>5, <2>3, <2>4 DEF DrainCommit, TypeOK
<1>6. ASSUME NEW w \in Writers, NEW kind \in WriterKinds \ {"drain"}, Start(w, kind)
      PROVE  TypeOK'
  <2>1. [kind |-> kind, pc |-> "scan", todo |-> {}] \in Writer
    BY KindsAssumption DEF Writer
  <2>. QED  BY <1>6, <2>1 DEF Start, TypeOK, database
<1>7. ASSUME NEW w \in Writers, Scan(w)
      PROVE  TypeOK'
  <2>1. Found \in SUBSET Keys /\ writer[w] \in Writer
    BY <1>7 DEF Found, Scan, TypeOK
  <2>2. [writer[w] EXCEPT !.pc = "del", !.todo = Found] \in Writer
    BY <2>1, WriterType
  <2>3. writer' = [writer EXCEPT ![w] = [writer[w] EXCEPT !.pc = "del", !.todo = Found]]
    BY <1>7 DEF Scan, TypeOK
  <2>. QED  BY <1>7, <2>2, <2>3 DEF Scan, TypeOK, database
<1>8. ASSUME NEW w \in Writers, NEW k \in Keys, Del(w, k)
      PROVE  TypeOK'
  <2>1. writer[w] \in Writer /\ writer[w].todo \ {k} \in SUBSET Keys
    BY <1>8 DEF Del, TypeOK, Writer
  <2>2. [writer[w] EXCEPT !.todo = writer[w].todo \ {k}] \in Writer
    BY <2>1, WriterType
  <2>3. writer' = [writer EXCEPT ![w] = [writer[w] EXCEPT !.todo = writer[w].todo \ {k}]]
    BY <1>8 DEF Del, TypeOK
  <2>. QED  BY <1>8, <2>2, <2>3 DEF Del, TypeOK, database
<1>9. ASSUME NEW w \in Writers, Invalidated(w)
      PROVE  TypeOK'
  <2>1. writer' \in [Writers -> Writer \cup {None}]
    BY <1>9, AfterInvalidationType DEF Invalidated
  <2>. QED  BY <1>9, <2>1 DEF Invalidated, TypeOK, database
<1>10. ASSUME NEW w \in Writers, InvalidationFails(w)
       PROVE  TypeOK'
  <2>1. writer' \in [Writers -> Writer \cup {None}]
    BY <1>10, AfterInvalidationType DEF InvalidationFails
  <2>2. ASSUME NEW k \in Keys, cache[k] # None
        PROVE  [cache[k] EXCEPT !.raced = TRUE] \in Entry
    BY <2>2 DEF TypeOK, Entry
  <2>3. cache' \in [Keys -> Entry \cup {None}]
    BY <1>10, <2>2 DEF InvalidationFails
  <2>. QED  BY <1>10, <2>1, <2>3 DEF InvalidationFails, TypeOK, database
<1>11. ASSUME NEW w \in Writers, Commit(w)
       PROVE  TypeOK'
  <2>1. PICK new \in RowStates : Committed(new)
    <3>1. [u \in Users |-> Gone] \in RowStates
      BY DEF RowStates
    <3>2. ASSUME NEW u \in Users, NEW s \in Statuses, HasRow(u, rows),
                 Committed([rows EXCEPT ![u] = [@ EXCEPT !.status = s]])
          PROVE  \E new \in RowStates : Committed(new)
      <4> DEFINE row == [rows[u] EXCEPT !.status = s]
      <4>1. row \in Row
        BY <3>2, StatusSet
      <4>2. Committed([rows EXCEPT ![u] = row])
        BY <3>2
      <4>3. [rows EXCEPT ![u] = row] \in RowStates
        <5> HIDE DEF row
        <5>. QED  BY <4>1 DEF TypeOK, RowStates
      <4>. QED  BY <4>2, <4>3
    <3>. QED  BY <1>11, <3>1, <3>2 DEF Commit
  <2>2. /\ rows' \in RowStates /\ held' \in [Times -> SUBSET RowStates]
        /\ writes' \in 0..MaxWrites /\ reader' \in [Readers -> Reader \cup {None}]
    BY <2>1, CommittedType
  <2>. QED  BY <1>11, <2>2 DEF Commit, TypeOK
<1>12. ASSUME NEW w \in Writers, Rollback(w)
       PROVE  TypeOK'
  BY <1>12 DEF Rollback, TypeOK, database
<1>13. CASE Job
  <2>1. PICK new \in RowStates : Silent(new)
    BY <1>13, JobsAreSilent
  <2>2. Committed(new)
    BY <2>1 DEF Silent
  <2>. QED  BY <1>13, <2>1, <2>2, JobsAreSilent, SilentMarks, CommittedType DEF TypeOK
<1>14. CASE UNCHANGED vars
  BY <1>14 DEF vars, TypeOK
<1>. QED  BY <1>1, <1>2, <1>3, <1>4, <1>5, <1>6, <1>7, <1>8, <1>9, <1>10, <1>11, <1>12,
             <1>13, <1>14 DEF Next, Job

-----------------------------------------------------------------------------
(* Freshness *)

\* Nothing has been read, cached or answered.
LEMMA FreshInit == Init => IInv
BY TypeInit DEF Init, IInv, EntriesBorn, AnswersBorn, ServedFresh

\* A commit only adds to the history of the current tick.
LEMMA CommittedFresh ==
  ASSUME TypeOK, TypeOK', EntriesBorn, AnswersBorn, ServedFresh, NEW new,
         Committed(new), UNCHANGED now,
         \A k \in Keys : cache'[k] # None =>
            /\ cache[k] # None
            /\ cache'[k].value = cache[k].value /\ cache'[k].expireAt = cache[k].expireAt
  PROVE  EntriesBorn' /\ AnswersBorn' /\ ServedFresh'
<1>1. \A b \in Times : b <= now => held[b] \subseteq held'[b]
  BY DEF Committed, TypeOK
<1>2. now <= now'
  BY DEF TypeOK, Times
<1>3. ASSUME NEW r \in Readers, reader'[r] # None
      PROVE  /\ reader[r] # None
             /\ reader'[r].kind = reader[r].kind /\ reader'[r].scope = reader[r].scope
             /\ reader'[r].pc = reader[r].pc
             /\ reader[r].pc = "set" => /\ reader'[r].value = reader[r].value
                                        /\ reader'[r].born = reader[r].born
                                        /\ now' <= reader[r].born + MaxAge
             /\ reader[r].pc = "done" => /\ reader'[r].value = reader[r].value
                                         /\ reader'[r].at = reader[r].at
  <2>1. CASE reader[r] # None /\ reader[r].pc = "set"
    <3>1. reader'[r] = [reader[r] EXCEPT !.raced = TRUE]
      BY <2>1 DEF Committed
    <3>2. reader[r] \in [pc : {"set"}, kind : Kinds, scope : Scopes, value : Aggregates,
                         born : Times, raced : BOOLEAN]
      BY <2>1 DEF TypeOK, Reader
    <3>. QED  BY <2>1, <3>1, <3>2 DEF AnswersBorn
  <2>2. CASE ~(reader[r] # None /\ reader[r].pc = "set")
    BY <1>3, <2>2 DEF Committed
  <2>. QED  BY <2>1, <2>2
<1>. QED  BY <1>1, <1>2, <1>3, HistoryGrows

\* A step that leaves readers and history alone and drops or marks entries.
LEMMA CacheShrinks ==
  ASSUME TypeOK, TypeOK', EntriesBorn, AnswersBorn, ServedFresh,
         UNCHANGED <<now, held, reader>>,
         \A k \in Keys : cache'[k] # None =>
            /\ cache[k] # None
            /\ cache'[k].value = cache[k].value /\ cache'[k].expireAt = cache[k].expireAt
  PROVE  EntriesBorn' /\ AnswersBorn' /\ ServedFresh'
<1>1. now <= now'
  BY DEF TypeOK, Times
<1>2. AnswersBorn' /\ ServedFresh'
  BY DEF AnswersBorn, ServedFresh, WasTrue, Held
<1>3. EntriesBorn'
  BY <1>1 DEF EntriesBorn, Held
<1>. QED  BY <1>2, <1>3

\* Every step keeps the invariant.
LEMMA FreshNext == IInv /\ [Next]_vars => IInv'
<1> SUFFICES ASSUME IInv, [Next]_vars PROVE EntriesBorn' /\ AnswersBorn' /\ ServedFresh'
  BY TypeNext DEF IInv
<1>0. TypeOK /\ TypeOK' /\ EntriesBorn /\ AnswersBorn /\ ServedFresh
  BY TypeNext DEF IInv
<1>1. CASE Tick
  <2>1. \A b \in Times : b <= now => held[b] \subseteq held'[b]
    BY <1>1, <1>0 DEF Tick, TypeOK, Times
  <2>2. now <= now'
    BY <1>1, <1>0 DEF Tick, TypeOK, Times
  <2>3. \A r \in Readers : reader[r] # None /\ reader[r].pc = "set"
                             => now' <= reader[r].born + MaxAge
    BY <1>1 DEF Tick
  <2>4. UNCHANGED <<cache, reader>>
    BY <1>1 DEF Tick
  <2>. QED  BY <1>0, <2>1, <2>2, <2>3, <2>4, HistoryGrows
<1>2. ASSUME NEW r \in Readers, NEW kind \in Kinds, NEW scope \in Scopes, Get(r, kind, scope)
      PROVE  EntriesBorn' /\ AnswersBorn' /\ ServedFresh'
  <2> DEFINE k == <<kind, scope>>
  <2>1. k \in Keys /\ k[1] = kind /\ k[2] = scope
    BY DEF Keys
  <2>2. UNCHANGED <<now, held, cache>>
    BY <1>2 DEF Get, database
  <2>3. ASSUME Live(k)
        PROVE  WasTrue(kind, scope, cache[k].value, now, TTL + MaxAge)
    <3>1. PICK b \in Times : /\ b <= now
                             /\ cache[k].expireAt <= b + TTL + MaxAge
                             /\ Held(kind, scope, cache[k].value, b)
      BY <1>0, <2>1, <2>3 DEF EntriesBorn, Live
    <3>2. now < cache[k].expireAt /\ cache[k].expireAt \in Nat
      BY <1>0, <2>1, <2>3 DEF Live, TypeOK, Entry
    <3>3. now <= b + (TTL + MaxAge)
      BY <1>0, <3>1, <3>2 DEF TypeOK, Times
    <3>. QED  BY <3>1, <3>3 DEF WasTrue, Held
  <2>4. CASE Live(k) /\ reader' = [reader EXCEPT ![r] =
               [pc |-> "done", kind |-> kind, scope |-> scope, value |-> cache[k].value,
                at |-> now]]
    <3>1. now <= now
      BY <1>0 DEF TypeOK, Times
    <3> DEFINE q == [pc |-> "done", kind |-> kind, scope |-> scope,
                     value |-> cache[k].value, at |-> now]
    <3>2. q.pc = "done" /\ q.at <= now
          /\ WasTrue(q.kind, q.scope, q.value, q.at, TTL + MaxAge)
      BY <2>3, <2>4, <3>1
    <3>3. reader' = [reader EXCEPT ![r] = q]
      BY <2>4
    <3> HIDE DEF q
    <3>. QED  BY <1>0, <2>2, <3>2, <3>3, OneReader
  <2>5. CASE reader' = [reader EXCEPT ![r] =
               [pc |-> "query", kind |-> kind, scope |-> scope]]
    <3> DEFINE q == [pc |-> "query", kind |-> kind, scope |-> scope]
    <3>1. q.pc = "query" /\ reader' = [reader EXCEPT ![r] = q]
      BY <2>5
    <3> HIDE DEF q
    <3>. QED  BY <1>0, <2>2, <3>1, OneReader
  <2>. QED  BY <1>2, <2>4, <2>5 DEF Get, CacheKey
<1>3. ASSUME NEW r \in Readers, Query(r)
      PROVE  EntriesBorn' /\ AnswersBorn' /\ ServedFresh'
  <2>1. PICK t \in Times : \E s \in held[t] :
          /\ t <= now /\ now <= t + MaxAge
          /\ reader' = [reader EXCEPT ![r] =
               [pc |-> "set", kind |-> reader[r].kind, scope |-> reader[r].scope,
                value |-> View(reader[r].kind, reader[r].scope, s), born |-> t,
                raced |-> s # rows]]
    BY <1>3 DEF Query
  <2>2. PICK s \in held[t] :
          /\ t <= now /\ now <= t + MaxAge
          /\ reader' = [reader EXCEPT ![r] =
               [pc |-> "set", kind |-> reader[r].kind, scope |-> reader[r].scope,
                value |-> View(reader[r].kind, reader[r].scope, s), born |-> t,
                raced |-> s # rows]]
    BY <2>1
  <2> DEFINE q == [pc |-> "set", kind |-> reader[r].kind, scope |-> reader[r].scope,
                   value |-> View(reader[r].kind, reader[r].scope, s), born |-> t,
                   raced |-> s # rows]
  <2>3. /\ q.pc = "set" /\ q.born <= now /\ now <= q.born + MaxAge
        /\ Held(q.kind, q.scope, q.value, q.born)
    BY <2>2 DEF Held
  <2>4. UNCHANGED <<now, held, cache>> /\ reader' = [reader EXCEPT ![r] = q]
    BY <1>3, <2>2 DEF Query, database
  <2> HIDE DEF q
  <2>. QED  BY <1>0, <2>3, <2>4, OneReader
<1>4. ASSUME NEW r \in Readers, Set(r)
      PROVE  EntriesBorn' /\ AnswersBorn' /\ ServedFresh'
  <2> DEFINE q == reader[r]
  <2> DEFINE k == <<q.kind, q.scope>>
  <2> DEFINE e == [value |-> q.value, expireAt |-> now + TTL, raced |-> q.raced \/ Uncommitted]
  <2> DEFINE d == [pc |-> "done", kind |-> q.kind, scope |-> q.scope, value |-> q.value,
                   at |-> now]
  <2>1. /\ q \in Reader /\ q.pc = "set" /\ q.born \in Times
        /\ q.kind \in Kinds /\ q.scope \in Scopes
        /\ q.born <= now /\ now <= q.born + MaxAge
        /\ Held(q.kind, q.scope, q.value, q.born)
    BY <1>4, <1>0, ReaderFields DEF Set, TypeOK, AnswersBorn
  <2>2. k \in Keys /\ k[1] = q.kind /\ k[2] = q.scope
    BY <2>1 DEF Keys
  <2>3. /\ cache' = [cache EXCEPT ![k] = e] \/ cache' = cache
        /\ reader' = [reader EXCEPT ![r] = d]
        /\ UNCHANGED <<now, held>>
    BY <1>4 DEF Set, CacheKey, Expiry, database
  <2>4. /\ d.pc = "done" /\ d.at = now /\ d.kind = q.kind /\ d.scope = q.scope
        /\ d.value = q.value /\ e.value = q.value /\ e.expireAt = now + TTL
    OBVIOUS
  <2>5. now \in Nat /\ q.born \in Nat /\ now + TTL <= q.born + TTL + MaxAge
        /\ now <= q.born + (TTL + MaxAge) /\ now <= now
    <3> HIDE DEF q
    <3>. QED  BY <1>0, <2>1 DEF TypeOK, Times
  <2>6. EntriesBorn'
    <3> SUFFICES ASSUME NEW x \in Keys, cache'[x] # None
                 PROVE  \E b \in Times : /\ b <= now
                                         /\ cache'[x].expireAt <= b + TTL + MaxAge
                                         /\ Held(x[1], x[2], cache'[x].value, b)
      BY <2>3 DEF EntriesBorn, Held
    <3>1. CASE cache'[x] = e /\ x = k
      <4> HIDE DEF q, e, k
      <4>. QED  BY <2>1, <2>2, <2>4, <2>5, <3>1
    <3>2. CASE cache'[x] = cache[x]
      BY <1>0, <3>2 DEF EntriesBorn
    <3>3. cache'[x] = cache[x] \/ (cache'[x] = e /\ x = k)
      <4> HIDE DEF q, e, k
      <4>. QED  BY <1>0, <2>2, <2>3 DEF TypeOK
    <3>. QED  BY <3>1, <3>2, <3>3
  <2>7. \A x \in Readers : reader'[x] = IF x = r THEN d ELSE reader[x]
    <3> HIDE DEF q, d
    <3>. QED  BY <1>0, <2>3 DEF TypeOK
  <2>8. AnswersBorn'
    <3> HIDE DEF q, d
    <3>. QED  BY <1>0, <2>3, <2>4, <2>5, <2>7 DEF AnswersBorn, Held
  <2>9. WasTrue(d.kind, d.scope, d.value, d.at, TTL + MaxAge)
    <3> HIDE DEF q, d
    <3>. QED  BY <2>1, <2>4, <2>5 DEF WasTrue, Held
  <2>10. ServedFresh'
    <3> HIDE DEF q, d
    <3>. QED  BY <1>0, <2>3, <2>7, <2>9 DEF ServedFresh, WasTrue
  <2>. QED  BY <2>6, <2>8, <2>10
<1>5. ASSUME NEW w \in Writers, NEW us \in SUBSET Users, NEW s \in Statuses, DrainCommit(w, us, s)
      PROVE  EntriesBorn' /\ AnswersBorn' /\ ServedFresh'
  <2>1. PICK new : Committed(new)
    BY <1>5 DEF DrainCommit
  <2>2. UNCHANGED <<now, cache>>
    BY <1>5 DEF DrainCommit
  <2>. QED  BY <1>0, <2>1, <2>2, CommittedFresh
<1>6. ASSUME NEW w \in Writers, Commit(w)
      PROVE  EntriesBorn' /\ AnswersBorn' /\ ServedFresh'
  <2>1. PICK new : Committed(new)
    BY <1>6 DEF Commit
  <2>2. UNCHANGED <<now, cache>>
    BY <1>6 DEF Commit
  <2>. QED  BY <1>0, <2>1, <2>2, CommittedFresh
<1>7. ASSUME NEW w \in Writers, NEW k \in Keys, Del(w, k)
      PROVE  EntriesBorn' /\ AnswersBorn' /\ ServedFresh'
  <2>1. UNCHANGED <<now, held, reader>> /\ cache' = [cache EXCEPT ![k] = None]
    BY <1>7 DEF Del, database
  <2>2. \A x \in Keys : cache'[x] # None => cache'[x] = cache[x]
    BY <1>0, <2>1 DEF TypeOK
  <2>. QED  BY <1>0, <2>1, <2>2, CacheShrinks
<1>8. ASSUME NEW w \in Writers, InvalidationFails(w)
      PROVE  EntriesBorn' /\ AnswersBorn' /\ ServedFresh'
  <2>1. UNCHANGED <<now, held, reader>>
    BY <1>8 DEF InvalidationFails, database
  <2>2. ASSUME NEW k \in Keys, cache'[k] # None
        PROVE  /\ cache[k] # None
               /\ cache'[k].value = cache[k].value /\ cache'[k].expireAt = cache[k].expireAt
    <3>1. cache[k] # None /\ cache'[k] = [cache[k] EXCEPT !.raced = TRUE]
      BY <1>8, <2>2 DEF InvalidationFails
    <3>2. cache[k] \in Entry
      BY <1>0, <3>1 DEF TypeOK
    <3>. QED  BY <3>1, <3>2 DEF Entry
  <2>. QED  BY <1>0, <2>1, <2>2, CacheShrinks
<1>9. CASE UNCHANGED <<now, held, cache, reader>>
  BY <1>9, <1>0, CacheShrinks
<1>10. ASSUME NEW w \in Writers,
              \/ \E kind \in WriterKinds \ {"drain"} : Start(w, kind)
              \/ Scan(w) \/ Invalidated(w) \/ Rollback(w)
       PROVE  EntriesBorn' /\ AnswersBorn' /\ ServedFresh'
  BY <1>9, <1>10 DEF Start, Scan, Invalidated, Rollback, database
<1>11. CASE Job
  <2>1. PICK new \in RowStates : Silent(new)
    BY <1>0, <1>11, JobsAreSilent
  <2>2. Committed(new)
    BY <2>1 DEF Silent
  <2>. QED  BY <1>0, <1>11, <2>1, <2>2, JobsAreSilent, SilentMarks, CommittedFresh
<1>12. CASE UNCHANGED vars
  BY <1>9, <1>12 DEF vars
<1>. QED  BY <1>1, <1>2, <1>3, <1>4, <1>5, <1>6, <1>7, <1>8, <1>10, <1>11, <1>12 DEF Next, Job

\* The invariant holds in every reachable state.
LEMMA Invariance == Spec => []IInv
BY FreshInit, FreshNext, PTL DEF Spec

\* Type correctness of the statistics cache.
THEOREM TypeCorrect == Spec => []TypeOK
<1>1. IInv => TypeOK
  BY DEF IInv
<1>. QED  BY <1>1, Invariance, PTL

\* A dashboard is served numbers of its own scope that were true within
\* TTL + MaxAge, however reads, commits and invalidations interleave.
THEOREM Fresh == Spec => []ServedFresh
<1>1. IInv => ServedFresh
  BY DEF IInv
<1>. QED  BY <1>1, Invariance, PTL

-----------------------------------------------------------------------------
(* Stale entries *)

\* An answer that no commit has overtaken is the aggregate of the current rows.
AnswersCurrent ==
  \A r \in Readers : reader[r] # None /\ reader[r].pc = "set" =>
    reader[r].raced \/ reader[r].value = View(reader[r].kind, reader[r].scope, rows)

\* A handler that invalidates before get_db commits leaves only entries that it
\* has yet to delete, or that were stored behind its SCAN.
Swept ==
  \A w \in Writers : writer[w] # None /\ writer[w].kind # "drain" /\ writer[w].pc # "scan" =>
    \A k \in Found : cache[k].raced \/ (writer[w].pc = "del" /\ k \in writer[w].todo)

RaceInv ==
  /\ AnswersCurrent
  /\ Swept
  /\ StaleOnlyByRace

\* What a writer still has to delete of key k.
Sweeps(w, k) == writer[w] # None /\ writer[w].kind = "drain"
                  /\ (writer[w].pc = "del" => k \in writer[w].todo)

\* No entry, no answer and no writer to begin with.
LEMMA RaceInit == Init => RaceInv
BY DEF Init, RaceInv, AnswersCurrent, Swept, StaleOnlyByRace, Found, Live

\* A step that changes neither rows nor writers, and at most drops entries.
LEMMA EntriesGo ==
  ASSUME RaceInv, UNCHANGED <<rows, writer>>, Found' \subseteq Found,
         \A k \in Found' : cache'[k] = cache[k]
  PROVE  Swept' /\ StaleOnlyByRace'
<1>1. Swept'
  BY DEF RaceInv, Swept
<1>2. StaleOnlyByRace'
  BY DEF RaceInv, StaleOnlyByRace
<1>. QED  BY <1>1, <1>2

\* A commit marks every answer that is on its way to the cache.
LEMMA CommittedMarks ==
  ASSUME TypeOK, NEW new, Committed(new)
  PROVE  AnswersCurrent'
<1> SUFFICES ASSUME NEW r \in Readers, reader'[r] # None, reader'[r].pc = "set"
             PROVE  reader'[r].raced
  BY DEF AnswersCurrent
<1>1. CASE reader[r] # None /\ reader[r].pc = "set"
  <2>1. reader'[r] = [reader[r] EXCEPT !.raced = TRUE]
    BY <1>1 DEF Committed
  <2>2. reader[r] \in [pc : {"set"}, kind : Kinds, scope : Scopes, value : Aggregates,
                       born : Times, raced : BOOLEAN]
    BY <1>1 DEF TypeOK, Reader
  <2>. QED  BY <2>1, <2>2
<1>2. CASE ~(reader[r] # None /\ reader[r].pc = "set")
  BY <1>2 DEF Committed
<1>. QED  BY <1>1, <1>2

\* A drain has committed before it invalidates: it never comes back to get_db.
DrainsCommitFirst ==
  \A w \in Writers : writer[w] # None /\ writer[w].pc = "commit" => writer[w].kind # "drain"

\* Every step keeps that.
LEMMA DrainsNext == TypeOK /\ DrainsCommitFirst /\ [Next]_vars => DrainsCommitFirst'
<1> SUFFICES ASSUME TypeOK, DrainsCommitFirst, [Next]_vars,
                    NEW v \in Writers, writer'[v] # None, writer'[v].pc = "commit"
             PROVE  writer'[v].kind # "drain"
  BY DEF DrainsCommitFirst
<1>1. CASE writer'[v] = writer[v]
  BY <1>1 DEF DrainsCommitFirst
<1>2. CASE \E w \in Writers : AfterInvalidation(w) /\ writer[w] # None
  <2>1. PICK w \in Writers : AfterInvalidation(w) /\ writer[w] # None
    BY <1>2
  <2>2. CASE v = w
    <3>1. writer'[v] = [writer[v] EXCEPT !.pc = "commit", !.todo = {}]
          /\ writer[v].kind # "drain" /\ writer[v] \in Writer
      BY <2>1, <2>2 DEF AfterInvalidation, TypeOK
    <3>. QED  BY <3>1 DEF Writer
  <2>3. CASE v # w
    BY <2>1, <2>3, <1>1 DEF AfterInvalidation, TypeOK
  <2>. QED  BY <2>2, <2>3
<1>3. ASSUME NEW w \in Writers, NEW us, NEW s, DrainCommit(w, us, s)
      PROVE  writer'[v] = writer[v]
  BY <1>3 DEF DrainCommit, TypeOK
<1>4. ASSUME NEW w \in Writers, NEW kind, Start(w, kind)
      PROVE  writer'[v] = writer[v]
  BY <1>4 DEF Start, TypeOK
<1>5. ASSUME NEW w \in Writers, Scan(w)
      PROVE  writer'[v] = writer[v]
  <2>1. /\ writer[w] \in Writer
        /\ writer' = [writer EXCEPT ![w] = [writer[w] EXCEPT !.pc = "del", !.todo = Found]]
    BY <1>5 DEF Scan, TypeOK
  <2>2. [writer[w] EXCEPT !.pc = "del", !.todo = Found].pc = "del"
    BY <2>1 DEF Writer
  <2>. QED  BY <2>1, <2>2 DEF TypeOK
<1>6. ASSUME NEW w \in Writers, NEW k, Del(w, k)
      PROVE  writer'[v] = writer[v]
  <2>1. /\ writer[w] \in Writer /\ writer[w].pc = "del"
        /\ writer' = [writer EXCEPT ![w] = [writer[w] EXCEPT !.todo = writer[w].todo \ {k}]]
    BY <1>6 DEF Del, TypeOK
  <2>2. [writer[w] EXCEPT !.todo = writer[w].todo \ {k}].pc = "del"
    BY <2>1 DEF Writer
  <2>. QED  BY <2>1, <2>2 DEF TypeOK
<1>7. ASSUME NEW w \in Writers, Invalidated(w) \/ InvalidationFails(w)
      PROVE  AfterInvalidation(w) /\ writer[w] # None
  BY <1>7 DEF Invalidated, InvalidationFails
<1>8. ASSUME NEW w \in Writers, Commit(w) \/ Rollback(w)
      PROVE  writer'[v] = writer[v]
  BY <1>8 DEF Commit, Rollback, TypeOK
<1>9. ASSUME Tick \/ \E r \in Readers : (\E kind \in Kinds, scope \in Scopes : Get(r, kind, scope))
                                      \/ Query(r) \/ Set(r)
      PROVE  writer' = writer
  BY <1>9 DEF Tick, Get, Query, Set
<1>10. CASE Job
  BY <1>1, <1>10, JobsAreSilent
<1>11. CASE UNCHANGED vars
  BY <1>1, <1>11 DEF vars
<1>. QED  BY <1>1, <1>2, <1>3, <1>4, <1>5, <1>6, <1>7, <1>8, <1>9, <1>10, <1>11 DEF Next, Job

\* Every step keeps the invariant.
LEMMA RaceNext == TypeOK /\ DrainsCommitFirst /\ RaceInv /\ [Next]_vars => RaceInv'
<1> SUFFICES ASSUME TypeOK, DrainsCommitFirst, RaceInv, [Next]_vars
             PROVE  AnswersCurrent' /\ Swept' /\ StaleOnlyByRace'
  BY DEF RaceInv
<1>1. CASE Tick
  <2>1. UNCHANGED <<rows, writer, cache, reader>> /\ now' = now + 1
    BY <1>1 DEF Tick
  <2>2. ASSUME NEW k \in Found' PROVE k \in Found /\ cache'[k] = cache[k]
    <3>1. k \in Keys /\ cache[k] # None /\ now + 1 < cache[k].expireAt
      BY <2>1, <2>2 DEF Found, Live
    <3>2. cache[k].expireAt \in Nat /\ now \in Nat
      BY <3>1 DEF TypeOK, Entry, Times
    <3>. QED  BY <2>1, <3>1, <3>2 DEF Found, Live
  <2>3. AnswersCurrent'
    BY <2>1 DEF RaceInv, AnswersCurrent
  <2>. QED  BY <2>1, <2>2, <2>3, EntriesGo
<1>2. ASSUME NEW r \in Readers, NEW kind \in Kinds, NEW scope \in Scopes, Get(r, kind, scope)
      PROVE  AnswersCurrent' /\ Swept' /\ StaleOnlyByRace'
  <2>1. UNCHANGED <<now, rows, writer, cache>>
    BY <1>2 DEF Get, database
  <2>2. \A x \in Readers : \/ reader'[x] = reader[x]
                           \/ reader'[x].pc \in {"query", "done"}
    BY <1>2 DEF Get, TypeOK
  <2>3. AnswersCurrent'
    BY <2>1, <2>2 DEF RaceInv, AnswersCurrent
  <2>4. Found' = Found
    BY <2>1 DEF Found, Live
  <2>. QED  BY <2>1, <2>3, <2>4, EntriesGo
<1>3. ASSUME NEW r \in Readers, Query(r)
      PROVE  AnswersCurrent' /\ Swept' /\ StaleOnlyByRace'
  <2>1. UNCHANGED <<now, rows, writer, cache>>
    BY <1>3 DEF Query, database
  <2>2. \A x \in Readers : x # r => reader'[x] = reader[x]
    BY <1>3 DEF Query, TypeOK
  <2>3. reader'[r].raced \/ reader'[r].value = View(reader'[r].kind, reader'[r].scope, rows)
    <3>1. PICK s : reader'[r].raced = (s # rows)
              /\ reader'[r].value = View(reader[r].kind, reader[r].scope, s)
              /\ reader'[r].kind = reader[r].kind /\ reader'[r].scope = reader[r].scope
      BY <1>3 DEF Query, TypeOK
    <3>. QED  BY <3>1
  <2>4. AnswersCurrent'
    BY <2>1, <2>2, <2>3 DEF RaceInv, AnswersCurrent
  <2>5. Found' = Found
    BY <2>1 DEF Found, Live
  <2>. QED  BY <2>1, <2>4, <2>5, EntriesGo
<1>4. ASSUME NEW r \in Readers, Set(r)
      PROVE  AnswersCurrent' /\ Swept' /\ StaleOnlyByRace'
  <2> DEFINE q == reader[r]
  <2> DEFINE key == <<q.kind, q.scope>>
  <2> DEFINE e == [value |-> q.value, expireAt |-> now + TTL, raced |-> q.raced \/ Uncommitted]
  <2>1. UNCHANGED <<now, rows, writer>>
    BY <1>4 DEF Set, database
  <2>2. \A x \in Readers : reader'[x] = reader[x] \/ reader'[x].pc = "done"
    BY <1>4 DEF Set, TypeOK
  <2>3. AnswersCurrent'
    BY <2>1, <2>2 DEF RaceInv, AnswersCurrent
  <2>4. CASE cache' = cache
    <3>1. Found' = Found
      BY <2>1, <2>4 DEF Found, Live
    <3>. QED  BY <2>1, <2>3, <2>4, <3>1, EntriesGo
  <2>5. CASE cache' = [cache EXCEPT ![key] = e]
    <3>1. /\ e.value = q.value /\ e.raced = (q.raced \/ Uncommitted)
          /\ key[1] = q.kind /\ key[2] = q.scope
      OBVIOUS
    <3>2. q # None /\ q.pc = "set"
      BY <1>4 DEF Set
    <3>3. q.raced \/ q.value = View(q.kind, q.scope, rows)
      <4> HIDE DEF q
      <4>. QED  BY <3>2 DEF RaceInv, AnswersCurrent, q
    <3>4. ASSUME NEW k \in Found'
          PROVE  (k = key /\ cache'[k] = e) \/ (k \in Found /\ cache'[k] = cache[k])
      <4>1. k \in Keys
        BY <3>4 DEF Found
      <4>2. (k = key /\ cache'[k] = e) \/ cache'[k] = cache[k]
        <5> HIDE DEF e, key
        <5>. QED  BY <2>5, <4>1 DEF TypeOK
      <4>. QED  BY <2>1, <3>4, <4>2 DEF Found, Live
    <3>5. Swept'
      <4> SUFFICES ASSUME NEW w \in Writers, writer[w] # None, writer[w].kind # "drain",
                          writer[w].pc # "scan", NEW k \in Found'
                   PROVE  cache'[k].raced \/ (writer[w].pc = "del" /\ k \in writer[w].todo)
        BY <2>1 DEF Swept
      <4>1. Uncommitted
        BY DEF Uncommitted
      <4>2. CASE k = key /\ cache'[k] = e
        <5> HIDE DEF q, key, e
        <5>. QED  BY <3>1, <4>1, <4>2
      <4>3. CASE k \in Found /\ cache'[k] = cache[k]
        BY <4>3 DEF RaceInv, Swept
      <4>. QED  BY <3>4, <4>2, <4>3
    <3>6. StaleOnlyByRace'
      <4> SUFFICES ASSUME NEW k \in Found'
                   PROVE  \/ cache'[k].raced
                          \/ cache'[k].value = View(k[1], k[2], rows)
                          \/ \E w \in Writers : Sweeps(w, k)
        BY <2>1 DEF StaleOnlyByRace, Sweeps
      <4>1. CASE k = key /\ cache'[k] = e
        <5> HIDE DEF q, key, e
        <5>. QED  BY <3>1, <3>3, <4>1
      <4>2. CASE k \in Found /\ cache'[k] = cache[k]
        BY <4>2 DEF RaceInv, StaleOnlyByRace, Sweeps
      <4>. QED  BY <3>4, <4>1, <4>2
    <3>. QED  BY <2>3, <3>5, <3>6
  <2>. QED  BY <1>4, <2>4, <2>5 DEF Set, CacheKey, Expiry
<1>5. ASSUME NEW w \in Writers, NEW us \in SUBSET Users, NEW s \in Statuses, DrainCommit(w, us, s)
      PROVE  AnswersCurrent' /\ Swept' /\ StaleOnlyByRace'
  <2>1. PICK new : Committed(new)
    BY <1>5 DEF DrainCommit
  <2>2. UNCHANGED <<now, cache>>
    BY <1>5 DEF DrainCommit
  <2>3. Found' = Found
    BY <2>2 DEF Found, Live
  <2>4. /\ writer'[w] = [kind |-> "drain", pc |-> "scan", todo |-> {}]
        /\ \A x \in Writers : x # w => writer'[x] = writer[x]
    BY <1>5 DEF DrainCommit, TypeOK
  <2>5. Swept'
    BY <2>2, <2>3, <2>4 DEF RaceInv, Swept
  <2>6. writer'[w] # None
    <3>1. [kind |-> "drain", pc |-> "scan", todo |-> {}] \in Writer
      BY DEF Writer
    <3>. QED  BY <2>4, <3>1
  <2>7. StaleOnlyByRace'
    BY <2>4, <2>6 DEF StaleOnlyByRace
  <2>. QED  BY <2>1, <2>5, <2>7, CommittedMarks
<1>6. ASSUME NEW w \in Writers, Commit(w)
      PROVE  AnswersCurrent' /\ Swept' /\ StaleOnlyByRace'
  <2>1. PICK new : Committed(new)
    BY <1>6 DEF Commit
  <2>2. UNCHANGED <<now, cache>> /\ writer[w] # None /\ writer[w].pc = "commit"
        /\ writer[w].kind # "drain"
    BY <1>6 DEF Commit
  <2>3. Found' = Found
    BY <2>2 DEF Found, Live
  <2>4. \A k \in Found' : cache'[k].raced
    BY <2>2, <2>3 DEF RaceInv, Swept
  <2>. QED  BY <2>1, <2>4, CommittedMarks DEF Swept, StaleOnlyByRace
<1>7. ASSUME NEW w \in Writers, NEW key \in Keys, Del(w, key)
      PROVE  AnswersCurrent' /\ Swept' /\ StaleOnlyByRace'
  <2>1. UNCHANGED <<now, rows, reader>> /\ cache' = [cache EXCEPT ![key] = None]
    BY <1>7 DEF Del, database
  <2>2. ASSUME NEW k \in Found' PROVE k # key /\ k \in Found /\ cache'[k] = cache[k]
    BY <2>1, <2>2 DEF Found, Live, TypeOK
  <2>3. /\ writer[w] # None /\ writer[w] \in Writer /\ writer[w].pc = "del"
    BY <1>7 DEF Del, TypeOK
  <2>4. writer' = [writer EXCEPT ![w] = [writer[w] EXCEPT !.todo = writer[w].todo \ {key}]]
    BY <1>7 DEF Del, TypeOK
  <2>5. \A x \in Writers : x # w => writer'[x] = writer[x]
    BY <2>4 DEF TypeOK
  <2>6. /\ writer'[w].kind = writer[w].kind /\ writer'[w].pc = "del"
        /\ writer'[w].todo = writer[w].todo \ {key}
        /\ writer'[w] # None
    <3>1. [writer[w] EXCEPT !.todo = writer[w].todo \ {key}] \in Writer
      BY <2>3 DEF Writer
    <3>2. writer'[w] = [writer[w] EXCEPT !.todo = writer[w].todo \ {key}]
      BY <2>4 DEF TypeOK
    <3>. QED  BY <2>3, <3>1, <3>2 DEF Writer
  <2>7. AnswersCurrent'
    BY <2>1 DEF RaceInv, AnswersCurrent
  <2>8. Swept'
    <3> SUFFICES ASSUME NEW x \in Writers, writer'[x] # None, writer'[x].kind # "drain",
                        writer'[x].pc # "scan", NEW k \in Found'
                 PROVE  cache'[k].raced \/ (writer'[x].pc = "del" /\ k \in writer'[x].todo)
      BY DEF Swept
    <3>1. cache[k].raced \/ (writer[x].pc = "del" /\ k \in writer[x].todo)
      BY <2>2, <2>3, <2>5, <2>6 DEF RaceInv, Swept
    <3>. QED  BY <2>2, <2>5, <2>6, <3>1
  <2>9. StaleOnlyByRace'
    <3> SUFFICES ASSUME NEW k \in Found', ~cache'[k].raced,
                        cache'[k].value # View(k[1], k[2], rows)
                 PROVE  \E x \in Writers : Sweeps(x, k)'
      BY <2>1 DEF StaleOnlyByRace, Sweeps
    <3>1. PICK x \in Writers : Sweeps(x, k)
      BY <2>2 DEF RaceInv, StaleOnlyByRace, Sweeps
    <3>. QED  BY <2>2, <2>3, <2>5, <2>6, <3>1 DEF Sweeps
  <2>. QED  BY <2>7, <2>8, <2>9
<1>8. ASSUME NEW w \in Writers, InvalidationFails(w)
      PROVE  AnswersCurrent' /\ Swept' /\ StaleOnlyByRace'
  <2>1. UNCHANGED <<now, rows, reader>>
    BY <1>8 DEF InvalidationFails, database
  <2>2. ASSUME NEW k \in Found' PROVE cache'[k].raced
    <3>1. k \in Keys /\ cache'[k] # None
      BY <2>2 DEF Found, Live
    <3>2. cache[k] # None /\ cache'[k] = [cache[k] EXCEPT !.raced = TRUE]
      BY <1>8, <3>1 DEF InvalidationFails
    <3>3. cache[k] \in Entry
      BY <3>1, <3>2 DEF TypeOK
    <3>. QED  BY <3>2, <3>3 DEF Entry
  <2>3. AnswersCurrent'
    BY <2>1 DEF RaceInv, AnswersCurrent
  <2>. QED  BY <2>2, <2>3 DEF Swept, StaleOnlyByRace
<1>9. ASSUME NEW w \in Writers, NEW kind \in WriterKinds \ {"drain"}, Start(w, kind)
      PROVE  AnswersCurrent' /\ Swept' /\ StaleOnlyByRace'
  <2>1. UNCHANGED <<now, rows, cache, reader>> /\ writer[w] = None
    BY <1>9 DEF Start, database
  <2>2. /\ writer'[w] = [kind |-> kind, pc |-> "scan", todo |-> {}]
        /\ \A x \in Writers : x # w => writer'[x] = writer[x]
    BY <1>9 DEF Start, TypeOK
  <2>3. Found' = Found
    BY <2>1 DEF Found, Live
  <2>4. Swept'
    BY <2>1, <2>2, <2>3 DEF RaceInv, Swept
  <2>5. StaleOnlyByRace'
    <3> SUFFICES ASSUME NEW k \in Found, ~cache[k].raced,
                        cache[k].value # View(k[1], k[2], rows)
                 PROVE  \E x \in Writers : Sweeps(x, k)'
      BY <2>1, <2>3 DEF StaleOnlyByRace, Sweeps
    <3>1. PICK x \in Writers : Sweeps(x, k)
      BY DEF RaceInv, StaleOnlyByRace, Sweeps
    <3>. QED  BY <2>1, <2>2, <3>1 DEF Sweeps
  <2>6. AnswersCurrent'
    BY <2>1 DEF RaceInv, AnswersCurrent
  <2>. QED  BY <2>4, <2>5, <2>6
<1>10. ASSUME NEW w \in Writers, Scan(w)
       PROVE  AnswersCurrent' /\ Swept' /\ StaleOnlyByRace'
  <2>1. UNCHANGED <<now, rows, cache, reader>> /\ writer[w] # None /\ writer[w] \in Writer
    BY <1>10 DEF Scan, database, TypeOK
  <2>2. \A x \in Writers : x # w => writer'[x] = writer[x]
    BY <1>10 DEF Scan, TypeOK
  <2>3. /\ writer'[w] # None /\ writer'[w].kind = writer[w].kind
        /\ writer'[w].pc = "del" /\ writer'[w].todo = Found
    <3>1. writer'[w] = [writer[w] EXCEPT !.pc = "del", !.todo = Found]
      BY <1>10 DEF Scan, TypeOK
    <3>2. Found \in SUBSET Keys
      BY DEF Found
    <3>3. [writer[w] EXCEPT !.pc = "del", !.todo = Found] \in Writer
      BY <2>1, <3>2, WriterType
    <3>. QED  BY <2>1, <3>1, <3>3 DEF Writer
  <2>4. Found' = Found
    BY <2>1 DEF Found, Live
  <2>5. Swept'
    BY <2>1, <2>2, <2>3, <2>4 DEF RaceInv, Swept
  <2>6. StaleOnlyByRace'
    <3> SUFFICES ASSUME NEW k \in Found, ~cache[k].raced,
                        cache[k].value # View(k[1], k[2], rows)
                 PROVE  \E x \in Writers : Sweeps(x, k)'
      BY <2>1, <2>4 DEF StaleOnlyByRace, Sweeps
    <3>1. PICK x \in Writers : Sweeps(x, k)
      BY DEF RaceInv, StaleOnlyByRace, Sweeps
    <3>. QED  BY <2>2, <2>3, <3>1 DEF Sweeps
  <2>7. AnswersCurrent'
    BY <2>1 DEF RaceInv, AnswersCurrent
  <2>. QED  BY <2>5, <2>6, <2>7
<1>11. ASSUME NEW w \in Writers, Invalidated(w)
       PROVE  AnswersCurrent' /\ Swept' /\ StaleOnlyByRace'
  <2>1. /\ UNCHANGED <<now, rows, cache, reader>> /\ writer[w] # None
        /\ writer[w].pc = "del" /\ writer[w].todo = {} /\ writer[w] \in Writer
    BY <1>11 DEF Invalidated, database, TypeOK
  <2>2. \A x \in Writers : x # w => writer'[x] = writer[x]
    BY <1>11 DEF Invalidated, AfterInvalidation, TypeOK
  <2>3. writer[w].kind # "drain" => \A k \in Found : cache[k].raced
    BY <2>1 DEF RaceInv, Swept
  <2>4. writer[w].kind = "drain" => writer'[w] = None
    BY <1>11 DEF Invalidated, AfterInvalidation, TypeOK
  <2>5. Found' = Found
    BY <2>1 DEF Found, Live
  <2>6. Swept'
    BY <2>1, <2>2, <2>3, <2>4, <2>5 DEF RaceInv, Swept
  <2>7. StaleOnlyByRace'
    <3> SUFFICES ASSUME NEW k \in Found, ~cache[k].raced,
                        cache[k].value # View(k[1], k[2], rows)
                 PROVE  \E x \in Writers : Sweeps(x, k)'
      BY <2>1, <2>5 DEF StaleOnlyByRace, Sweeps
    <3>1. PICK x \in Writers : Sweeps(x, k)
      BY DEF RaceInv, StaleOnlyByRace, Sweeps
    <3>2. x # w
      BY <2>1, <3>1 DEF Sweeps
    <3>. QED  BY <2>2, <3>1, <3>2 DEF Sweeps
  <2>8. AnswersCurrent'
    BY <2>1 DEF RaceInv, AnswersCurrent
  <2>. QED  BY <2>6, <2>7, <2>8
<1>12. ASSUME NEW w \in Writers, Rollback(w)
       PROVE  AnswersCurrent' /\ Swept' /\ StaleOnlyByRace'
  <2>1. /\ UNCHANGED <<now, rows, cache, reader>> /\ writer[w] # None
        /\ writer[w].pc = "commit"
    BY <1>12 DEF Rollback, database
  <2>2. writer'[w] = None /\ \A x \in Writers : x # w => writer'[x] = writer[x]
    BY <1>12 DEF Rollback, TypeOK
  <2>3. Found' = Found
    BY <2>1 DEF Found, Live
  <2>4. Swept'
    BY <2>1, <2>2, <2>3 DEF RaceInv, Swept
  <2>5. StaleOnlyByRace'
    <3> SUFFICES ASSUME NEW k \in Found, ~cache[k].raced,
                        cache[k].value # View(k[1], k[2], rows)
                 PROVE  \E x \in Writers : Sweeps(x, k)'
      BY <2>1, <2>3 DEF StaleOnlyByRace, Sweeps
    <3>1. writer[w].kind # "drain"
      BY <2>1 DEF DrainsCommitFirst
    <3>. QED  BY <2>1, <3>1 DEF RaceInv, Swept
  <2>6. AnswersCurrent'
    BY <2>1 DEF RaceInv, AnswersCurrent
  <2>. QED  BY <2>4, <2>5, <2>6
<1>13. CASE Job
  <2>1. PICK new \in RowStates : Silent(new)
    BY <1>13, JobsAreSilent
  <2>2. Committed(new)
    BY <2>1 DEF Silent
  <2>3. \A k \in Found' : cache'[k].raced
    BY <2>1, SilentMarks DEF Found, Live
  <2>. QED  BY <2>2, <2>3, CommittedMarks DEF Swept, StaleOnlyByRace
<1>14. CASE UNCHANGED vars
  <2>1. UNCHANGED <<now, rows, cache, reader, writer>>
    BY <1>14 DEF vars
  <2>. QED  BY <2>1 DEF RaceInv, AnswersCurrent, Swept, StaleOnlyByRace, Found, Live
<1>. QED  BY <1>1, <1>2, <1>3, <1>4, <1>5, <1>6, <1>7, <1>8, <1>9, <1>10, <1>11, <1>12,
             <1>13, <1>14 DEF Next, Job

\* An entry outlives a change of its numbers only by the store of a reader that
\* overlaps the change, a failed invalidation or a job of a deployment, however many
\* readers and writers there are.
THEOREM OnlyByRace == Spec => []StaleOnlyByRace
<1>1. Init => RaceInv /\ DrainsCommitFirst
  BY RaceInit DEF Init, DrainsCommitFirst
<1>2. RaceInv => StaleOnlyByRace
  BY DEF RaceInv
<1>. QED  BY <1>1, <1>2, RaceNext, DrainsNext, TypeCorrect, PTL DEF Spec
=============================================================================
