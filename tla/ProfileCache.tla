----------------------------- MODULE ProfileCache -----------------------------
(***************************************************************************)
(* Who may do what.  A login looks the account up and issues a token; every *)
(* later request trusts the token until it expires and takes the role from *)
(* a cached profile, or from the users table on a miss.  Administrators    *)
(* create, change and deactivate users; a change deletes the cached        *)
(* profile BEFORE get_db commits it, and prune_users deletes rows without  *)
(* touching the cache.  One action is one await.                           *)
(***************************************************************************)
EXTENDS Naturals

CONSTANTS
  Users,
  Roles,      \* those in use, a subset of {"employee", "manager", "admin"}
  Initial,    \* the users table at the start, user |-> profile or Gone
  Patches,    \* what PATCHes ask for; None in a field that the request leaves out
  Prunable,   \* employees beyond LOAD_TEST_MAX_EMPLOYEES
  Requests,   \* slots for requests in flight
  RedisFails, \* whether a DEL may fail
  TTL,        \* USER_PROFILE_TTL
  Lifetime,   \* JWT_EXPIRE_MINUTES
  MaxAge,     \* the longest time from a query to its SET and of a bcrypt
  MaxTime,    \* bound: the last tick
  MaxWrites,  \* bound: commits in a behaviour
  None, Gone

Profile == [role : Roles, active : BOOLEAN]
Tables == [Users -> Profile \cup {Gone}]

ASSUME InitialAssumption == Initial \in Tables /\ Gone \notin Profile
ASSUME PatchesAssumption ==
  Patches \subseteq [role : Roles \cup {None}, active : BOOLEAN \cup {None}]
ASSUME ClockAssumption == /\ TTL \in Nat \ {0} /\ Lifetime \in Nat /\ MaxAge \in Nat
                          /\ MaxTime \in Nat /\ MaxWrites \in Nat
ASSUME FailureAssumption == RedisFails \in BOOLEAN

Times == 0..MaxTime

\* UserUpdate sets every field of the request, delete_user sets is_active.
Patched(p, patch) ==
  [role |-> IF patch.role = None THEN p.role ELSE patch.role,
   active |-> IF patch.active = None THEN p.active ELSE patch.active]

\* The columns of an UPDATE: those asked for that differ from what was loaded.
Differing(patch, p) ==
  [role |-> IF patch.role = p.role THEN None ELSE patch.role,
   active |-> IF patch.active = p.active THEN None ELSE patch.active]

Entry == [profile : Profile, expireAt : Nat, raced : BOOLEAN]
Request ==
       [pc : {"verify"}, user : Users, born : Times]
  \cup [pc : {"query"}, user : Users]
  \cup [pc : {"set"}, user : Users, profile : Profile, born : Times, raced : BOOLEAN]
  \cup [pc : {"in"}, user : Users, profile : Profile, at : Times, fetched : BOOLEAN]
  \cup [pc : {"flush"}, target : Users, patch : Patches, loaded : Profile]
  \cup [pc : {"del", "commit"}, target : Users, patch : Patches \cup {None},
      new : Profile \cup {None}]

ASSUME NoneAssumption == None \notin Entry /\ None \notin Request /\ None \notin Profile
                           /\ None \notin Nat /\ None \notin Roles /\ None \notin BOOLEAN
                           /\ None \notin Patches

VARIABLES
  now,
  rows,    \* the committed users table
  held,    \* history: the tables that were current in each tick
  writes,  \* number of commits so far
  cache,   \* user:profile:*, None when the key is absent
  session, \* when the last of the user's tokens expires, None without one
  req

vars == <<now, rows, held, writes, cache, session, req>>
database == <<rows, held, writes>>

Init ==
  /\ now = 0
  /\ rows = Initial
  /\ held = [t \in Times |-> IF t = 0 THEN {rows} ELSE {}]
  /\ writes = 0
  /\ cache = [u \in Users |-> None]
  /\ session = [u \in Users |-> None]
  /\ req = [r \in Requests |-> None]

At(r, pc) == req[r] # None /\ req[r].pc = pc
Continue(r, q) == req' = [req EXCEPT ![r] = q]
End(r) == Continue(r, None)

-----------------------------------------------------------------------------
(* login *)

\* Mutant: the password alone decides.
LoginAnyAccount(r, u) ==
  /\ req[r] = None
  /\ rows[u] # Gone
  /\ Continue(r, [pc |-> "verify", user |-> u, born |-> now])
  /\ UNCHANGED <<now, database, cache, session>>

\* The SELECT finds an active account; bcrypt runs in a thread.
Login(r, u) ==
  /\ req[r] = None
  /\ rows[u] # Gone /\ rows[u].active
  /\ Continue(r, [pc |-> "verify", user |-> u, born |-> now])
  /\ UNCHANGED <<now, database, cache, session>>

\* The password was right: create_access_token.  The user keeps older tokens.
IssueToken(r) ==
  /\ At(r, "verify")
  /\ session' = [session EXCEPT ![req[r].user] = now + Lifetime]
  /\ End(r)
  /\ UNCHANGED <<now, database, cache>>

-----------------------------------------------------------------------------
(* get_current_user *)

\* The token has not expired; cache_get_json finds the profile, or finds none
\* or fails, which is a miss.
Arrive(r, u) ==
  /\ req[r] = None
  /\ session[u] # None
  /\ \/ /\ cache[u] # None
        /\ Continue(r, [pc |-> "in", user |-> u, profile |-> cache[u].profile, at |-> now,
                         fetched |-> FALSE])
     \/ Continue(r, [pc |-> "query", user |-> u])
  /\ UNCHANGED <<now, database, cache, session>>

\* The SELECT on the primary; without a row the answer is 401.
Query(r) ==
  /\ At(r, "query")
  /\ LET u == req[r].user IN
       IF rows[u] = Gone
         THEN End(r)
         ELSE Continue(r, [pc |-> "set", user |-> u, profile |-> rows[u], born |-> now,
                           raced |-> FALSE])
  /\ UNCHANGED <<now, database, cache, session>>

\* Mutant: a profile is kept as long as a token.
NoExpiry(t) == t + TTL + Lifetime + MaxTime

Expiry(t) == t + TTL

Locks(r, u) == /\ req[r] # None /\ req[r].pc \in {"del", "commit"}
               /\ req[r].target = u /\ req[r].new # None

\* A change that has deleted the profile and has yet to commit.
Uncommitted(u) == \E r \in Requests : Locks(r, u) /\ req[r].pc = "commit"

\* cache_set_json stores the profile, or fails; the request goes on.
Set(r) ==
  /\ At(r, "set")
  /\ LET q == req[r] IN
       /\ \/ cache' = [cache EXCEPT ![q.user] =
               [profile |-> q.profile, expireAt |-> Expiry(now),
                raced |-> q.raced \/ Uncommitted(q.user)]]
          \/ UNCHANGED cache
       /\ Continue(r, [pc |-> "in", user |-> q.user, profile |-> q.profile, at |-> now,
                         fetched |-> TRUE])
  /\ UNCHANGED <<now, database, session>>

-----------------------------------------------------------------------------
(* Handlers *)

\* Mutant: require_role("manager", "admin") where "admin" is meant, or none.
AnyRole(r, roles) == At(r, "in")

\* require_role: the profile has one of the roles.
RequireRole(r, roles) == At(r, "in") /\ req[r].profile.role \in roles

\* The session keeps an object it has loaded as it was: an administrator whose
\* profile came from the table is not read again.
Loaded(r, u) == IF req[r].fetched /\ u = req[r].user THEN req[r].profile ELSE rows[u]

\* update_user, delete_user: SELECT of the target, or 404.
Load(r, u, patch) ==
  /\ RequireRole(r, {"admin"})
  /\ IF rows[u] = Gone
       THEN End(r)
       ELSE Continue(r, [pc |-> "flush", target |-> u, patch |-> patch,
                           loaded |-> Loaded(r, u)])
  /\ UNCHANGED <<now, database, cache, session>>

Locked(u) == \E r \in Requests : Locks(r, u)

\* Mutant: the UPDATE writes every column as it was loaded.
FlushWholeRow(r) ==
  /\ At(r, "flush")
  /\ LET q == req[r] IN
       /\ ~Locked(q.target) /\ rows[q.target] # Gone
       /\ Continue(r, [pc |-> "del", target |-> q.target, patch |-> q.patch,
                        new |-> Patched(q.loaded, q.patch)])
  /\ UNCHANGED <<now, database, cache, session>>

\* flush waits for the row's lock; the UPDATE has the columns that differ from
\* what was loaded, and there is none if nothing differs.  A row that was
\* pruned meanwhile is an error.
Flush(r) ==
  /\ At(r, "flush")
  /\ LET q == req[r]
         after(new) == [pc |-> "del", target |-> q.target, patch |-> q.patch, new |-> new] IN
       IF Patched(q.loaded, q.patch) = q.loaded
         THEN Continue(r, after(None))
         ELSE /\ ~Locked(q.target)
              /\ IF rows[q.target] = Gone
                   THEN End(r)
                   ELSE Continue(r, after(Patched(rows[q.target],
                                                  Differing(q.patch, q.loaded))))
  /\ UNCHANGED <<now, database, cache, session>>

\* No row was ever stored under this id.
Unused(u) == \A t \in Times : \A s \in held[t] : s[u] = Gone

\* create_user: the INSERT, which waits for a concurrent one of the same
\* employee_id, or 409 when that is taken.  No profile of a new id is cached.
Create(r, u, p) ==
  /\ RequireRole(r, {"admin"})
  /\ p.active
  /\ ~Locked(u)
  /\ IF Unused(u)
       THEN Continue(r, [pc |-> "commit", target |-> u, patch |-> None, new |-> p])
       ELSE rows[u] # Gone /\ End(r)
  /\ UNCHANGED <<now, database, cache, session>>

\* Mutant: no cache_delete.
NoDelProfile(r) ==
  /\ At(r, "del")
  /\ Continue(r, [req[r] EXCEPT !.pc = "commit"])
  /\ UNCHANGED <<now, database, cache, session>>

\* Whoever has cached the profile is late from now on.
MarkCache(u) ==
  cache' = [cache EXCEPT ![u] = IF @ = None THEN None ELSE [@ EXCEPT !.raced = TRUE]]

\* cache_delete of the profile; a Redis error is swallowed.
DelProfile(r) ==
  /\ At(r, "del")
  /\ \/ cache' = [cache EXCEPT ![req[r].target] = None]
     \/ RedisFails /\ MarkCache(req[r].target)
  /\ Continue(r, [req[r] EXCEPT !.pc = "commit"])
  /\ UNCHANGED <<now, database, session>>

-----------------------------------------------------------------------------
(* Commits *)

Committed(new) ==
  /\ writes < MaxWrites
  /\ writes' = writes + 1
  /\ rows' = new
  /\ held' = [held EXCEPT ![now] = @ \cup {new}]

\* A request that has queried the profile and not stored it yet is late, too.
MarkReader(u, q) ==
  IF q # None /\ q.pc = "set" /\ q.user = u THEN [q EXCEPT !.raced = TRUE] ELSE q

\* get_db commits when the handler has returned.
Commit(r) ==
  /\ At(r, "commit")
  /\ LET q == req[r] IN
       IF q.new = None
         THEN End(r) /\ UNCHANGED database
         ELSE /\ Committed([rows EXCEPT ![q.target] = q.new])
              /\ req' = [x \in Requests |-> IF x = r THEN None ELSE MarkReader(q.target, req[x])]
  /\ UNCHANGED <<now, cache, session>>

\* The answer of a handler that only reads, or a 401, 403, 409 or 500: a wrong
\* password, a role that is missing, a failed statement, a dead pod.
Leave(r) ==
  /\ req[r] # None
  /\ End(r)
  /\ UNCHANGED <<now, database, cache, session>>

\* prune_users deletes employees beyond the cap; the SELECT that found them may
\* be older than a promotion, the DELETE waits for the row's lock.
Prune(u) ==
  /\ u \in Prunable /\ rows[u] # Gone /\ ~Locked(u)
  /\ \E t \in Times : \E s \in held[t] : s[u] # Gone /\ s[u].role = "employee"
  /\ Committed([rows EXCEPT ![u] = Gone])
  /\ MarkCache(u)
  /\ req' = [r \in Requests |-> MarkReader(u, req[r])]
  /\ UNCHANGED <<now, session>>

\* Time passes: entries and tokens expire, but no query is older than MaxAge when
\* its answer is stored, and no bcrypt takes longer.
Tick ==
  /\ now < MaxTime
  /\ \A r \in Requests : At(r, "set") \/ At(r, "verify") => now + 1 <= req[r].born + MaxAge
  /\ now' = now + 1
  /\ held' = [held EXCEPT ![now + 1] = {rows}]
  /\ cache' = [u \in Users |-> IF cache[u] # None /\ now + 1 < cache[u].expireAt
                                 THEN cache[u] ELSE None]
  /\ session' = [u \in Users |-> IF session[u] # None /\ now + 1 <= session[u]
                                   THEN session[u] ELSE None]
  /\ UNCHANGED <<rows, writes, req>>

Next ==
  \/ Tick
  \/ \E u \in Users : Prune(u)
  \/ \E r \in Requests :
       \/ \E u \in Users : \/ Login(r, u) \/ Arrive(r, u)
                           \/ \E patch \in Patches : Load(r, u, patch)
                           \/ \E p \in Profile : Create(r, u, p)
       \/ IssueToken(r) \/ Query(r) \/ Set(r) \/ Leave(r)
       \/ Flush(r) \/ DelProfile(r) \/ Commit(r)

Spec == Init /\ [][Next]_vars

-----------------------------------------------------------------------------
(* Properties *)

\* Every variable has its type.
TypeOK ==
  /\ now \in Times
  /\ rows \in Tables
  /\ held \in [Times -> SUBSET Tables]
  /\ writes \in 0..MaxWrites
  /\ cache \in [Users -> Entry \cup {None}]
  /\ session \in [Users -> Nat \cup {None}]
  /\ req \in [Requests -> Request \cup {None}]

\* The profile was the row of the user at most age ticks before t.
WasTrue(u, profile, t, age) ==
  \E b \in Times : /\ b <= t /\ t <= b + age
                   /\ \E s \in held[b] : s[u] = profile

\* The profile a request is judged by was in the table within TTL + MaxAge,
\* however logins, changes, prunings and failed DELs interleave
\* (dependencies.py:17).
ProfileFresh ==
  \A r \in Requests : At(r, "in") =>
    WasTrue(req[r].user, req[r].profile, req[r].at, TTL + MaxAge)

\* A handler that changes the users table starts.
Starts(r) == At(r, "in") /\ req'[r] # None /\ req'[r].pc # "in"

\* Whoever changes the users table had been an administrator, in the table,
\* within TTL + MaxAge of the check: a demoted one cannot go on longer than
\* that, not even by restoring the own role or by changing others.
OnlyAdminsChange ==
  [][\A r \in Requests : Starts(r) =>
       \E b \in Times :
         /\ b <= req[r].at /\ req[r].at <= b + TTL + MaxAge
         /\ \E s \in held[b] : LET p == s[req[r].user] IN p # Gone /\ p.role = "admin"]_vars

\* is_active is checked by the login alone: a token reaches no further than
\* Lifetime + MaxAge beyond a moment in which its account was active, though the
\* deactivation may be committed while bcrypt runs.
TokensEnd ==
  \A u \in Users : session[u] # None =>
    \E b \in Times : /\ b <= now /\ session[u] <= b + MaxAge + Lifetime
                     /\ \E s \in held[b] : s[u] # Gone /\ s[u].active

\* A change takes effect with its commit: a profile that is out of date was
\* stored between the DEL and the commit or across the commit, or escaped a
\* failed DEL or a pruning.
StaleOnlyByRace ==
  \A u \in Users : cache[u] # None => cache[u].raced \/ cache[u].profile = rows[u]

\* Administrators who PATCH a user at the same time do not undo each other's
\* changes unasked: what changes in a row was asked for, with that value, by the
\* request whose commit it is.
OtherFieldsKept ==
  [][\A u \in Users : rows[u] # Gone /\ rows'[u] \notin {rows[u], Gone} =>
       \E r \in Requests :
         /\ At(r, "commit") /\ req'[r] = None
         /\ req[r].target = u /\ req[r].patch # None
         /\ rows'[u].role \in {rows[u].role, req[r].patch.role}
         /\ rows'[u].active \in {rows[u].active, req[r].patch.active}]_vars
=============================================================================
