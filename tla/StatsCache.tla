------------------------------ MODULE StatsCache ------------------------------
(***************************************************************************)
(* The dashboard aggregates of one event: GET .../stats and                *)
(* .../stats/by-department answer from a Redis entry with a short TTL, or  *)
(* query the database and store the answer.  Whoever changes the event's   *)
(* rows invalidates all its entries by SCAN and one DEL per key: a drain   *)
(* after its commit, a submission written directly and the deletion of the *)
(* event BEFORE theirs, since get_db commits when the handler has          *)
(* returned.  The jobs of a deployment, top-up, backfill and pruning,      *)
(* change the rows and invalidate nothing.  One action is one await.       *)
(***************************************************************************)
EXTENDS Naturals, FiniteSets

CONSTANTS
  Users,
  Depts,     \* department_snapshot, None for NULL
  Statuses,  \* "safe" and "need_help"
  Kinds,     \* the endpoints, a subset of {"overall", "by-department"}
  Scopes,    \* who asks: All for an admin, a department for its manager
  All,
  Readers,   \* slots for GET requests
  Writers,   \* slots for drains, direct writes and deletions
  WriterKinds, \* which of those there are, a subset of {"drain", "fallback", "delete"}
  RedisFails,  \* whether an invalidation may be cut short
  TTL,
  MaxAge,    \* lag of the read replica, plus the time from a query to its SET
  MaxTime,   \* bound: the last tick
  MaxWrites, \* bound: commits in a behaviour
  Initial,   \* the rows there may be at the start
  Surplus,   \* users with employee ids beyond LOAD_TEST_MAX_EMPLOYEES
  None,
  Absent,    \* no row yet
  Gone       \* no row any more

ASSUME TTLAssumption == TTL \in Nat
ASSUME AgeAssumption == MaxAge \in Nat
ASSUME KindsAssumption == WriterKinds \subseteq {"drain", "fallback", "delete"}
ASSUME FailureAssumption == RedisFails \in BOOLEAN
ASSUME TimeAssumption == MaxTime \in Nat /\ MaxWrites \in Nat

Times == 0..MaxTime
Keys == Kinds \X Scopes
Row == [dept : Depts \cup {None}, status : Statuses \cup {None}]
RowStates == [Users -> Row \cup {Absent, Gone}]

ASSUME InitialAssumption == Initial \subseteq RowStates /\ Surplus \subseteq Users

HasRow(u, rows) == rows[u] \notin {Absent, Gone}

\* The users an aggregate is about.
Members(scope, rows) == {u \in Users : HasRow(u, rows) /\ (scope = All \/ rows[u].dept = scope)}

Counts(us, rows) ==
  [s \in Statuses \cup {None} |-> Cardinality({u \in us : rows[u].status = s})]

\* The GROUP BY of either endpoint; a department without rows has no line, and
\* the line of None is the one the code names "Unknown".
View(kind, scope, rows) ==
  LET us == Members(scope, rows) IN
    IF kind = "overall"
      THEN Counts(us, rows)
      ELSE [d \in {rows[u].dept : u \in us} |-> Counts({u \in us : rows[u].dept = d}, rows)]

Aggregates == {View(q[1], q[2], s) : q \in Keys, s \in RowStates}

Entry == [value : Aggregates, expireAt : Nat, raced : BOOLEAN]
Reader == [pc : {"query"}, kind : Kinds, scope : Scopes]
     \cup [pc : {"set"}, kind : Kinds, scope : Scopes, value : Aggregates,
           born : Times, raced : BOOLEAN]
     \cup [pc : {"done"}, kind : Kinds, scope : Scopes, value : Aggregates, at : Times]
Writer == [kind : {"drain", "fallback", "delete"}, pc : {"scan", "del", "commit"},
           todo : SUBSET Keys]

ASSUME NoneAssumption == None \notin Entry /\ None \notin Reader /\ None \notin Writer

VARIABLES
  now,
  rows,    \* the committed rows of the event
  held,    \* history: the row states that were current in each tick
  writes,  \* number of commits so far
  cache,   \* stats:event:{id}:*, None when the key is absent
  reader, writer

vars == <<now, rows, held, writes, cache, reader, writer>>
database == <<rows, held, writes>>

Init ==
  /\ now = 0
  /\ rows \in Initial
  /\ held = [t \in Times |-> IF t = 0 THEN {rows} ELSE {}]
  /\ writes = 0
  /\ cache = [k \in Keys |-> None]
  /\ reader = [r \in Readers |-> None]
  /\ writer = [w \in Writers |-> None]

\* Mutant: the key without the scope.
KeyUnscoped(kind, scope) == <<kind, All>>

\* _stats_cache_key, _dept_stats_cache_key
CacheKey(kind, scope) == <<kind, scope>>

Live(k) == cache[k] # None /\ now < cache[k].expireAt

\* The pattern of the invalidation matches every key of the event.
Found == {k \in Keys : Live(k)}

-----------------------------------------------------------------------------
(* get_event_stats, get_stats_by_department *)

\* cache_get_json finds a value, or finds none or fails, which is a miss.
Get(r, kind, scope) ==
  /\ reader[r] # None => reader[r].pc = "done"
  /\ LET k == CacheKey(kind, scope) IN
       \/ /\ Live(k)
          /\ reader' = [reader EXCEPT ![r] = [pc |-> "done", kind |-> kind, scope |-> scope,
                                              value |-> cache[k].value, at |-> now]]
       \/ reader' = [reader EXCEPT ![r] = [pc |-> "query", kind |-> kind, scope |-> scope]]
  /\ UNCHANGED <<now, database, cache, writer>>

\* A write that has scanned already and has yet to commit.
Uncommitted == \E w \in Writers : writer[w] # None /\ writer[w].kind # "drain"
                                    /\ writer[w].pc # "scan"

\* The database, or its replica, answers with a state of the last MaxAge ticks.
Query(r) ==
  /\ reader[r] # None /\ reader[r].pc = "query"
  /\ \E t \in Times : \E s \in held[t] :
       /\ t <= now /\ now <= t + MaxAge
       /\ reader' = [reader EXCEPT ![r] =
            [pc |-> "set", kind |-> reader[r].kind, scope |-> reader[r].scope,
             value |-> View(reader[r].kind, reader[r].scope, s), born |-> t,
             raced |-> s # rows]]
  /\ UNCHANGED <<now, database, cache, writer>>

\* Mutant: an entry that never expires.
NoExpiry(t) == t + 2 * (MaxTime + TTL)

Expiry(t) == t + TTL

\* cache_set_json stores the answer, or fails; the request is answered.
Set(r) ==
  /\ reader[r] # None /\ reader[r].pc = "set"
  /\ \/ cache' = [cache EXCEPT ![CacheKey(reader[r].kind, reader[r].scope)] =
            [value |-> reader[r].value, expireAt |-> Expiry(now),
             raced |-> reader[r].raced \/ Uncommitted]]
     \/ UNCHANGED cache
  /\ reader' = [reader EXCEPT ![r] = [pc |-> "done", kind |-> reader[r].kind,
                  scope |-> reader[r].scope, value |-> reader[r].value, at |-> now]]
  /\ UNCHANGED <<now, database, writer>>

-----------------------------------------------------------------------------
(* Writers *)

\* A commit replaces the rows; whoever has queried and not stored is late.
Committed(new) ==
  /\ writes < MaxWrites
  /\ writes' = writes + 1
  /\ rows' = new
  /\ held' = [held EXCEPT ![now] = @ \cup {new}]
  /\ reader' = [r \in Readers |->
       IF reader[r] # None /\ reader[r].pc = "set"
         THEN [reader[r] EXCEPT !.raced = TRUE] ELSE reader[r]]

\* _batch_update_db of a drain, which invalidates afterwards.
DrainCommit(w, us, s) ==
  /\ writer[w] = None /\ "drain" \in WriterKinds
  /\ us # {}
  /\ Committed([u \in Users |-> IF u \in us /\ HasRow(u, rows)
                                THEN [rows[u] EXCEPT !.status = s] ELSE rows[u]])
  /\ writer' = [writer EXCEPT ![w] = [kind |-> "drain", pc |-> "scan", todo |-> {}]]
  /\ UNCHANGED <<now, cache>>

\* submit_report without a buffer, or delete_event, has changed its session.
Start(w, kind) ==
  /\ writer[w] = None
  /\ writer' = [writer EXCEPT ![w] = [kind |-> kind, pc |-> "scan", todo |-> {}]]
  /\ UNCHANGED <<now, database, cache, reader>>

\* Mutant: a pattern that only matches the numbers of admins.
ScanAdminOnly(w) ==
  /\ writer[w] # None /\ writer[w].pc = "scan"
  /\ writer' = [writer EXCEPT ![w].pc = "del",
                              ![w].todo = Found \cap (Kinds \X {All})]
  /\ UNCHANGED <<now, database, cache, reader>>

\* cache_invalidate_pattern: SCAN finds every key that is there throughout.
Scan(w) ==
  /\ writer[w] # None /\ writer[w].pc = "scan"
  /\ writer' = [writer EXCEPT ![w].pc = "del", ![w].todo = Found]
  /\ UNCHANGED <<now, database, cache, reader>>

\* DEL of one key, which may also be one that was stored during the SCAN.
Del(w, k) ==
  /\ writer[w] # None /\ writer[w].pc = "del"
  /\ k \in writer[w].todo \/ Live(k)
  /\ cache' = [cache EXCEPT ![k] = None]
  /\ writer' = [writer EXCEPT ![w].todo = @ \ {k}]
  /\ UNCHANGED <<now, database, reader>>

\* The invalidation returns: a drain is over, a handler returns to get_db.
AfterInvalidation(w) ==
  writer' = [writer EXCEPT ![w] =
               IF @.kind = "drain" THEN None ELSE [@ EXCEPT !.pc = "commit", !.todo = {}]]

Invalidated(w) ==
  /\ writer[w] # None /\ writer[w].pc = "del" /\ writer[w].todo = {}
  /\ AfterInvalidation(w)
  /\ UNCHANGED <<now, database, cache, reader>>

\* Redis fails and the rest of the keys is left to the TTL; a drain that fails
\* or dies between its commit and here leaves them too.
InvalidationFails(w) ==
  /\ RedisFails
  /\ writer[w] # None /\ writer[w].pc \in {"scan", "del"}
  /\ cache' = [k \in Keys |-> IF cache[k] # None THEN [cache[k] EXCEPT !.raced = TRUE]
                                                 ELSE None]
  /\ AfterInvalidation(w)
  /\ UNCHANGED <<now, database, reader>>

\* get_db commits the report of one user, or the deletion of all rows.
Commit(w) ==
  /\ writer[w] # None /\ writer[w].pc = "commit"
  /\ \/ /\ writer[w].kind = "fallback"
        /\ \E u \in Users, s \in Statuses :
             HasRow(u, rows) /\ Committed([rows EXCEPT ![u] = [@ EXCEPT !.status = s]])
     \/ /\ writer[w].kind = "delete"
        /\ Committed([u \in Users |-> Gone])
  /\ writer' = [writer EXCEPT ![w] = None]
  /\ UNCHANGED <<now, cache>>

\* The commit fails, the row is gone, or the pod dies.
Rollback(w) ==
  /\ writer[w] # None /\ writer[w].pc = "commit"
  /\ writer' = [writer EXCEPT ![w] = None]
  /\ UNCHANGED <<now, database, cache, reader>>

-----------------------------------------------------------------------------
(* Jobs of a deployment, beside live pods *)

\* A commit that no invalidation goes with: what is cached is late from now on.
Silent(new) ==
  /\ new # rows /\ Committed(new)
  /\ cache' = [k \in Keys |-> IF cache[k] # None THEN [cache[k] EXCEPT !.raced = TRUE] ELSE None]

\* The top-up of seed.py inserts placeholders, with the departments of the users.
TopUp(us, dept) ==
  /\ \A u \in us : rows[u] = Absent
  /\ Silent([u \in Users |-> IF u \in us THEN [dept |-> dept, status |-> None] ELSE rows[u]])
  /\ UNCHANGED <<now, writer>>

\* The backfill of init_db.py gives a department to rows that had no snapshot.
Backfill(us, dept) ==
  /\ \A u \in us : HasRow(u, rows) /\ rows[u].dept = None
  /\ Silent([u \in Users |-> IF u \in us THEN [rows[u] EXCEPT !.dept = dept] ELSE rows[u]])
  /\ UNCHANGED <<now, writer>>

\* prune_users deletes the rows of the users it deletes.
Prune ==
  /\ Silent([u \in Users |-> IF u \in Surplus THEN Gone ELSE rows[u]])
  /\ UNCHANGED <<now, writer>>

-----------------------------------------------------------------------------
\* Time passes, but no query is older than MaxAge when its answer is stored.
Tick ==
  /\ now < MaxTime
  /\ \A r \in Readers : reader[r] # None /\ reader[r].pc = "set"
                          => now + 1 <= reader[r].born + MaxAge
  /\ now' = now + 1
  /\ held' = [held EXCEPT ![now + 1] = {rows}]
  /\ UNCHANGED <<rows, writes, cache, reader, writer>>

Next ==
  \/ Tick
  \/ \E r \in Readers :
       \/ \E kind \in Kinds, scope \in Scopes : Get(r, kind, scope)
       \/ Query(r) \/ Set(r)
  \/ \E w \in Writers :
       \/ \E us \in SUBSET Users, s \in Statuses : DrainCommit(w, us, s)
       \/ \E kind \in WriterKinds \ {"drain"} : Start(w, kind)
       \/ Scan(w) \/ Invalidated(w) \/ InvalidationFails(w) \/ Commit(w) \/ Rollback(w)
       \/ \E k \in Keys : Del(w, k)
  \/ \E us \in SUBSET Users, dept \in Depts \cup {None} : TopUp(us, dept) \/ Backfill(us, dept)
  \/ Prune

Spec == Init /\ [][Next]_vars

-----------------------------------------------------------------------------
(* Properties *)

\* Every variable has its type.
TypeOK ==
  /\ now \in Times
  /\ rows \in RowStates
  /\ held \in [Times -> SUBSET RowStates]
  /\ writes \in 0..MaxWrites
  /\ cache \in [Keys -> Entry \cup {None}]
  /\ reader \in [Readers -> Reader \cup {None}]
  /\ writer \in [Writers -> Writer \cup {None}]

\* The value was the aggregate of that kind and scope at most age ticks before t.
WasTrue(kind, scope, value, t, age) ==
  \E b \in Times : /\ b <= t /\ t <= b + age
                   /\ \E s \in held[b] : value = View(kind, scope, s)

\* However reads, writes and failed invalidations interleave, a dashboard gets
\* numbers that were true, for its own scope, within TTL + MaxAge: the lag that
\* the cache was designed for (cache.py:12) and no leak between admins and
\* managers.
ServedFresh ==
  \A r \in Readers :
    LET q == reader[r] IN
      q # None /\ q.pc = "done" => WasTrue(q.kind, q.scope, q.value, q.at, TTL + MaxAge)

\* An entry outlives a change of its numbers only by the store of a reader that
\* overlaps the change, by an invalidation that fails, or by a job of a deployment,
\* which invalidates nothing: a drain, a direct write or a deletion that comes to
\* its end leaves nothing else behind, of any kind and scope.
StaleOnlyByRace ==
  \A k \in Found :
    \/ cache[k].raced
    \/ cache[k].value = View(k[1], k[2], rows)
    \/ \E w \in Writers : /\ writer[w] # None /\ writer[w].kind = "drain"
                          /\ writer[w].pc = "del" => k \in writer[w].todo
=============================================================================
