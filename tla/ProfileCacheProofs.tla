-------------------------- MODULE ProfileCacheProofs --------------------------
(***************************************************************************)
(* What ProfileCache promises, for every number of users and requests and  *)
(* every TTL and token lifetime.  Three invariants: a profile was in the   *)
(* table when it was read and an entry expires TTL after its SET; what is  *)
(* cached or about to be cached is up to date or marked; a row has one     *)
(* writer at a time, who replaces the fields it was asked to replace.      *)
(***************************************************************************)
EXTENDS ProfileCache, TLAPS

\* A table of tick b of the history h has the row p for u, or an active account.
Held(u, p, b, h) == \E s \in h[b] : s[u] = p
ActiveIn(u, b, h) == \E s \in h[b] : s[u] # Gone /\ s[u].active

\* At time n, with history h: an entry, a token and a request stem from a table.
EntryBorn(u, c, n, h) ==
  \E b \in Times : b <= n /\ c.expireAt <= b + MaxAge + TTL /\ Held(u, c.profile, b, h)

TokenBorn(u, exp, n, h) ==
  \E b \in Times : b <= n /\ exp <= b + MaxAge + Lifetime /\ ActiveIn(u, b, h)

RequestBorn(q, n, h) ==
  /\ q.pc \in {"set", "verify"} => q.born <= n /\ n <= q.born + MaxAge
  /\ q.pc = "verify" => ActiveIn(q.user, q.born, h)
  /\ q.pc = "set" => Held(q.user, q.profile, q.born, h)
  /\ q.pc = "in" =>
       /\ q.at <= n
       /\ \E b \in Times : /\ b <= q.at /\ q.at <= b + (TTL + MaxAge)
                          /\ Held(q.user, q.profile, b, h)

Born ==
  /\ rows \in held[now]
  /\ \A u \in Users : cache[u] # None =>
       now < cache[u].expireAt /\ EntryBorn(u, cache[u], now, held)
  /\ \A r \in Requests : req[r] # None => RequestBorn(req[r], now, held)
  /\ \A u \in Users : session[u] # None => TokenBorn(u, session[u], now, held)

UpToDate(u, q) == q.raced \/ q.profile = rows[u]

Coherent ==
  /\ \A u \in Users : cache[u] # None => UpToDate(u, cache[u])
  /\ \A r \in Requests : At(r, "set") => UpToDate(req[r].user, req[r])
  /\ \A r \in Requests : At(r, "commit") /\ req[r].new # None =>
       (cache[req[r].target] # None => cache[req[r].target].raced)

\* The profile q differs from p only as the patch asks.
Asked(patch, p, q) ==
  patch # None /\ q.role \in {p.role, patch.role} /\ q.active \in {p.active, patch.active}

OneWriter ==
  \A r \in Requests, u \in Users : Locks(r, u) =>
    /\ \A x \in Requests : Locks(x, u) => x = r
    /\ rows[u] # Gone => Asked(req[r].patch, rows[u], req[r].new)

IInv == TypeOK /\ Born /\ Coherent /\ OneWriter

USE InitialAssumption, PatchesAssumption, ClockAssumption, FailureAssumption, NoneAssumption

-----------------------------------------------------------------------------
(* Lemmas *)

\* The fields of a request in each of its states.
LEMMA RequestFields ==
  ASSUME NEW q \in Request
  PROVE  /\ q.pc \in {"verify", "query", "set", "in", "flush", "del", "commit"}
         /\ q.pc = "verify" => q.user \in Users /\ q.born \in Times
         /\ q.pc = "query" => q.user \in Users
         /\ q.pc = "set" => /\ q.user \in Users /\ q.profile \in Profile /\ q.born \in Times
                            /\ q.raced \in BOOLEAN
         /\ q.pc = "in" => q.user \in Users /\ q.profile \in Profile /\ q.at \in Times
         /\ q.pc = "flush" => q.target \in Users /\ q.patch \in Patches /\ q.loaded \in Profile
         /\ q.pc \in {"del", "commit"} => /\ q.target \in Users /\ q.new \in Profile \cup {None}
                                         /\ q.patch \in Patches \cup {None}
BY DEF Request

\* What an UPDATE makes of a profile is one, and differs from it as asked.
LEMMA PatchedType ==
  ASSUME NEW p \in Profile, NEW q \in Profile, NEW patch \in Patches
  PROVE  /\ Patched(p, Differing(patch, q)) \in Profile
         /\ Asked(patch, p, Patched(p, Differing(patch, q)))
<1>1. /\ p.role \in Roles /\ p.active \in BOOLEAN
      /\ patch.role \in Roles \cup {None} /\ patch.active \in BOOLEAN \cup {None}
  BY DEF Profile
<1> DEFINE role == IF patch.role = q.role \/ patch.role = None THEN p.role ELSE patch.role
<1> DEFINE active ==
             IF patch.active = q.active \/ patch.active = None THEN p.active ELSE patch.active
<1>2. Patched(p, Differing(patch, q)) = [role |-> role, active |-> active]
  BY DEF Patched, Differing
<1>3. role \in Roles /\ role \in {p.role, patch.role}
  BY <1>1
<1>4. active \in BOOLEAN /\ active \in {p.active, patch.active}
  BY <1>1
<1>5. patch # None
  OBVIOUS
<1> HIDE DEF role, active
<1>. QED  BY <1>2, <1>3, <1>4, <1>5 DEF Profile, Asked

\* What a handler has loaded of a user is a profile.
LEMMA LoadedProfile ==
  ASSUME TypeOK, NEW r \in Requests, NEW u \in Users, At(r, "in"), rows[u] # Gone
  PROVE  Loaded(r, u) \in Profile
<1>1. req[r] \in Request /\ req[r].pc = "in"
  BY DEF At, TypeOK
<1>2. req[r].profile \in Profile
  BY <1>1, RequestFields
<1>. QED  BY <1>2 DEF Loaded, TypeOK, Tables

\* Replacing one request.
LEMMA Replaced ==
  ASSUME TypeOK, NEW r \in Requests, NEW q \in Request \cup {None}, Continue(r, q)
  PROVE  /\ req' \in [Requests -> Request \cup {None}]
         /\ \A x \in Requests : req'[x] = IF x = r THEN q ELSE req[x]
BY DEF TypeOK, Continue

\* Marking changes nothing but the mark.
LEMMA Marked ==
  ASSUME NEW u \in Users, NEW q \in Request \cup {None}
  PROVE  /\ MarkReader(u, q) \in Request \cup {None}
         /\ MarkReader(u, q) = None <=> q = None
         /\ q # None => /\ MarkReader(u, q).pc = q.pc
                        /\ q.pc # "set" => MarkReader(u, q) = q
                        /\ q.pc = "set" =>
                             /\ MarkReader(u, q).user = q.user
                             /\ MarkReader(u, q).profile = q.profile
                             /\ MarkReader(u, q).born = q.born
                             /\ q.raced \/ q.user = u => MarkReader(u, q).raced
<1>1. CASE q # None /\ q.pc = "set" /\ q.user = u
  <2>1. q \in [pc : {"set"}, user : Users, profile : Profile, born : Times, raced : BOOLEAN]
    BY <1>1 DEF Request
  <2>2. [q EXCEPT !.raced = TRUE] \in Request
    BY <2>1 DEF Request
  <2>. QED  BY <1>1, <2>1, <2>2 DEF MarkReader
<1>2. CASE ~(q # None /\ q.pc = "set" /\ q.user = u)
  BY <1>2 DEF MarkReader
<1>. QED  BY <1>1, <1>2

\* The same for an entry of the cache.
LEMMA MarkedCache ==
  ASSUME TypeOK, NEW u \in Users, MarkCache(u)
  PROVE  /\ cache' \in [Users -> Entry \cup {None}]
         /\ \A x \in Users :
              /\ cache'[x] # None <=> cache[x] # None
              /\ x # u => cache'[x] = cache[x]
              /\ cache[x] # None => /\ cache'[x].profile = cache[x].profile
                                    /\ cache'[x].expireAt = cache[x].expireAt
              /\ cache'[u] # None => cache'[u].raced
<1>1. CASE cache[u] = None
  BY <1>1 DEF MarkCache, TypeOK
<1>2. CASE cache[u] # None
  <2>1. cache[u] \in Entry
    BY <1>2 DEF TypeOK
  <2> DEFINE c == [cache[u] EXCEPT !.raced = TRUE]
  <2>2. c \in Entry /\ c.profile = cache[u].profile /\ c.expireAt = cache[u].expireAt /\ c.raced
    BY <2>1 DEF Entry
  <2>3. cache' = [cache EXCEPT ![u] = c]
    BY <1>2 DEF MarkCache, TypeOK
  <2> HIDE DEF c
  <2>. QED  BY <1>2, <2>2, <2>3 DEF TypeOK
<1>. QED  BY <1>1, <1>2

-----------------------------------------------------------------------------
(* Type correctness *)

\* The initial state is typed.
LEMMA TypeInit == Init => TypeOK
BY DEF Init, TypeOK, Tables, Times

\* A commit of well-typed rows keeps the types.
LEMMA CommittedType ==
  ASSUME TypeOK, NEW new \in Tables, Committed(new)
  PROVE  rows' \in Tables /\ held' \in [Times -> SUBSET Tables] /\ writes' \in 0..MaxWrites
BY DEF Committed, TypeOK

\* Every step keeps the types.
LEMMA TypeNext == TypeOK /\ [Next]_vars => TypeOK'
<1> SUFFICES ASSUME TypeOK, [Next]_vars PROVE TypeOK'
  OBVIOUS
<1>1. CASE Tick
  <2>1. now' \in Times
    BY <1>1 DEF Tick, TypeOK, Times
  <2>2. held' \in [Times -> SUBSET Tables] /\ cache' \in [Users -> Entry \cup {None}]
        /\ session' \in [Users -> Nat \cup {None}]
    BY <1>1 DEF Tick, TypeOK
  <2>. QED  BY <1>1, <2>1, <2>2 DEF Tick, TypeOK
<1>2. ASSUME NEW u \in Users, Prune(u)
      PROVE  TypeOK'
  <2>1. [rows EXCEPT ![u] = Gone] \in Tables
    BY DEF TypeOK, Tables
  <2>2. req' \in [Requests -> Request \cup {None}]
    BY <1>2, Marked DEF Prune, TypeOK
  <2>. QED  BY <1>2, <2>1, <2>2, CommittedType, MarkedCache DEF Prune, TypeOK
<1>3. ASSUME NEW r \in Requests, NEW u \in Users, Login(r, u)
      PROVE  TypeOK'
  <2>1. [pc |-> "verify", user |-> u, born |-> now] \in Request
    BY DEF Request, TypeOK
  <2>. QED  BY <1>3, <2>1, Replaced DEF Login, TypeOK, database
<1>4. ASSUME NEW r \in Requests, NEW u \in Users, Arrive(r, u)
      PROVE  TypeOK'
  <2>1. cache[u] # None =>
          [pc |-> "in", user |-> u, profile |-> cache[u].profile, at |-> now,
           fetched |-> FALSE] \in Request
    BY DEF Request, TypeOK, Entry
  <2>2. [pc |-> "query", user |-> u] \in Request
    BY DEF Request
  <2>. QED  BY <1>4, <2>1, <2>2, Replaced DEF Arrive, TypeOK, database
<1>5. ASSUME NEW r \in Requests, NEW u \in Users, NEW patch \in Patches, Load(r, u, patch)
      PROVE  TypeOK'
  <2>1. rows[u] # Gone =>
          [pc |-> "flush", target |-> u, patch |-> patch, loaded |-> Loaded(r, u)] \in Request
    BY <1>5, LoadedProfile DEF Load, RequireRole, Request
  <2>. QED  BY <1>5, <2>1, Replaced DEF Load, End, TypeOK, database
<1>6. ASSUME NEW r \in Requests, NEW u \in Users, NEW p \in Profile, Create(r, u, p)
      PROVE  TypeOK'
  <2>1. [pc |-> "commit", target |-> u, patch |-> None, new |-> p] \in Request
    BY DEF Request
  <2>. QED  BY <1>6, <2>1, Replaced DEF Create, End, TypeOK, database
<1>7. ASSUME NEW r \in Requests, IssueToken(r)
      PROVE  TypeOK'
  <2>1. now + Lifetime \in Nat
    BY DEF TypeOK, Times
  <2>2. session' \in [Users -> Nat \cup {None}]
    BY <1>7, <2>1 DEF TypeOK, IssueToken
  <2>. QED  BY <1>7, <2>2, Replaced DEF IssueToken, End, TypeOK, database
<1>8. ASSUME NEW r \in Requests, Query(r)
      PROVE  TypeOK'
  <2>1. req[r].user \in Users
    BY <1>8, RequestFields DEF Query, At, TypeOK
  <2>2. rows[req[r].user] # Gone =>
          [pc |-> "set", user |-> req[r].user, profile |-> rows[req[r].user], born |-> now,
           raced |-> FALSE] \in Request
    BY <2>1 DEF Request, TypeOK, Tables
  <2>. QED  BY <1>8, <2>2, Replaced DEF Query, End, TypeOK, database
<1>9. ASSUME NEW r \in Requests, Set(r)
      PROVE  TypeOK'
  <2> DEFINE q == req[r]
  <2> DEFINE c == [profile |-> q.profile, expireAt |-> Expiry(now),
                   raced |-> q.raced \/ Uncommitted(q.user)]
  <2>1. q.user \in Users /\ q.profile \in Profile
    BY <1>9, RequestFields DEF Set, At, TypeOK
  <2>2. Expiry(now) \in Nat
    BY DEF Expiry, TypeOK, Times
  <2>3. (q.raced \/ Uncommitted(q.user)) \in BOOLEAN
    OBVIOUS
  <2>4. c \in Entry
    <3> HIDE DEF q
    <3>. QED  BY <2>1, <2>2, <2>3 DEF Entry
  <2>5. [pc |-> "in", user |-> q.user, profile |-> q.profile, at |-> now,
            fetched |-> TRUE] \in Request
    <3> HIDE DEF q
    <3>. QED  BY <2>1 DEF Request, TypeOK
  <2>6. cache' \in [Users -> Entry \cup {None}]
    <3>1. cache' = [cache EXCEPT ![q.user] = c] \/ cache' = cache
      BY <1>9 DEF Set
    <3> HIDE DEF q, c
    <3>. QED  BY <2>4, <3>1 DEF TypeOK
  <2>. QED  BY <1>9, <2>5, <2>6, Replaced DEF Set, TypeOK, database
<1>10. ASSUME NEW r \in Requests, Leave(r)
       PROVE  TypeOK'
  BY <1>10, Replaced DEF Leave, End, TypeOK, database
<1>11. ASSUME NEW r \in Requests, Flush(r)
       PROVE  TypeOK'
  <2>1. req[r].target \in Users /\ req[r].patch \in Patches /\ req[r].loaded \in Profile
    BY <1>11, RequestFields DEF Flush, At, TypeOK
  <2>2. rows[req[r].target] # Gone =>
          Patched(rows[req[r].target], Differing(req[r].patch, req[r].loaded)) \in Profile
    BY <2>1, PatchedType DEF TypeOK, Tables
  <2>3. \A new \in Profile \cup {None} :
          [pc |-> "del", target |-> req[r].target, patch |-> req[r].patch, new |-> new] \in Request
    BY <2>1 DEF Request
  <2>. QED  BY <1>11, <2>2, <2>3, Replaced DEF Flush, End, TypeOK, database
<1>12. ASSUME NEW r \in Requests, DelProfile(r)
       PROVE  TypeOK'
  <2>1. req[r] \in [pc : {"del", "commit"}, target : Users, patch : Patches \cup {None},
                    new : Profile \cup {None}]
    BY <1>12 DEF DelProfile, At, TypeOK, Request
  <2>2. [req[r] EXCEPT !.pc = "commit"] \in Request
    BY <2>1 DEF Request
  <2>3. cache' \in [Users -> Entry \cup {None}]
    BY <1>12, <2>1, MarkedCache DEF DelProfile, TypeOK
  <2>. QED  BY <1>12, <2>2, <2>3, Replaced DEF DelProfile, TypeOK, database
<1>13. ASSUME NEW r \in Requests, Commit(r)
       PROVE  TypeOK'
  <2>1. req[r].target \in Users /\ req[r].new \in Profile \cup {None}
    BY <1>13, RequestFields DEF Commit, At, TypeOK
  <2>2. CASE req[r].new = None
    BY <1>13, <2>2, Replaced DEF Commit, End, TypeOK, database
  <2>3. CASE req[r].new # None
    <3>1. [rows EXCEPT ![req[r].target] = req[r].new] \in Tables
      BY <2>1, <2>3 DEF TypeOK, Tables
    <3>2. Committed([rows EXCEPT ![req[r].target] = req[r].new])
      BY <1>13, <2>3 DEF Commit
    <3>3. req' \in [Requests -> Request \cup {None}]
      BY <1>13, <2>1, <2>3, Marked DEF Commit, TypeOK
    <3>. QED  BY <1>13, <3>1, <3>2, <3>3, CommittedType DEF Commit, TypeOK
  <2>. QED  BY <2>2, <2>3
<1>14. CASE UNCHANGED vars
  BY <1>14 DEF vars, TypeOK
<1>. QED  BY <1>1, <1>2, <1>3, <1>4, <1>5, <1>6, <1>7, <1>8, <1>9, <1>10, <1>11, <1>12,
             <1>13, <1>14 DEF Next
-----------------------------------------------------------------------------
(* Where values come from *)

\* A history that only grows in the past keeps what it has seen.
LEMMA HistoryGrows ==
  ASSUME NEW n \in Times, NEW n2 \in Times, n <= n2, NEW h, NEW h2,
         \A b \in Times : b <= n => h[b] \subseteq h2[b]
  PROVE  /\ \A u, c : EntryBorn(u, c, n, h) => EntryBorn(u, c, n2, h2)
         /\ \A u, x : TokenBorn(u, x, n, h) => TokenBorn(u, x, n2, h2)
         /\ \A q \in Request :
              /\ RequestBorn(q, n, h)
              /\ q.pc \in {"set", "verify"} => n2 <= q.born + MaxAge
              => RequestBorn(q, n2, h2)
<1>1. \A b \in Times : b <= n => b <= n2
  BY DEF Times
<1>2. \A u, p : \A b \in Times : b <= n =>
        (Held(u, p, b, h) => Held(u, p, b, h2)) /\ (ActiveIn(u, b, h) => ActiveIn(u, b, h2))
  BY DEF Held, ActiveIn
<1>3. \A u, c : EntryBorn(u, c, n, h) => EntryBorn(u, c, n2, h2)
  BY <1>1, <1>2 DEF EntryBorn
<1>4. \A u, x : TokenBorn(u, x, n, h) => TokenBorn(u, x, n2, h2)
  BY <1>1, <1>2 DEF TokenBorn
<1>5. ASSUME NEW q \in Request, RequestBorn(q, n, h),
             q.pc \in {"set", "verify"} => n2 <= q.born + MaxAge
      PROVE  RequestBorn(q, n2, h2)
  <2>1. CASE q.pc \in {"set", "verify"}
    BY <1>1, <1>2, <1>5, <2>1, RequestFields DEF RequestBorn
  <2>2. CASE q.pc = "in"
    <3>1. q.at \in Times /\ q.at <= n
      BY <1>5, <2>2, RequestFields DEF RequestBorn
    <3>2. PICK b \in Times : /\ b <= q.at /\ q.at <= b + (TTL + MaxAge)
                             /\ Held(q.user, q.profile, b, h)
      BY <1>5, <2>2 DEF RequestBorn
    <3>3. b <= n
      BY <3>1, <3>2 DEF Times
    <3>. QED  BY <1>1, <1>2, <2>2, <3>1, <3>2, <3>3 DEF RequestBorn
  <2>3. CASE q.pc \notin {"set", "verify", "in"}
    BY <2>3 DEF RequestBorn
  <2>. QED  BY <2>1, <2>2, <2>3
<1>. QED  BY <1>3, <1>4, <1>5

\* Nothing has been read, cached or issued.
LEMMA BornInit == Init => Born
BY DEF Init, Born, Times

\* A step that replaces one request and nothing else that matters here.
LEMMA OneRequest ==
  ASSUME TypeOK, Born, NEW r \in Requests, NEW q \in Request \cup {None}, Continue(r, q),
         q # None => RequestBorn(q, now, held),
         UNCHANGED <<now, rows, held, cache, session>>
  PROVE  Born'
BY Replaced DEF Born

\* A commit only adds a table to the current tick.
LEMMA CommittedBorn ==
  ASSUME TypeOK, TypeOK', Born, NEW new \in Tables, Committed(new), UNCHANGED <<now, session>>,
         \A u \in Users : cache'[u] # None =>
           /\ cache[u] # None /\ cache'[u].profile = cache[u].profile
           /\ cache'[u].expireAt = cache[u].expireAt,
         NEW v \in Users,
         \A x \in Requests : req'[x] = None \/ req'[x] = MarkReader(v, req[x])
  PROVE  Born'
<1>1. /\ now \in Times /\ now <= now
      /\ \A b \in Times : b <= now => held[b] \subseteq held'[b]
      /\ rows' \in held'[now']
  BY DEF Committed, TypeOK, Times
<1>2. ASSUME NEW u \in Users, cache'[u] # None
      PROVE  now' < cache'[u].expireAt /\ EntryBorn(u, cache'[u], now', held')
  <2>1. EntryBorn(u, cache[u], now, held')
    BY <1>1, <1>2, HistoryGrows DEF Born
  <2>. QED  BY <1>2, <2>1 DEF Born, EntryBorn
<1>3. ASSUME NEW x \in Requests, req'[x] # None
      PROVE  RequestBorn(req'[x], now', held')
  <2>1. req[x] \in Request \cup {None} /\ req'[x] = MarkReader(v, req[x])
    BY <1>3 DEF TypeOK
  <2>2. req[x] \in Request /\ req[x] # None /\ req'[x].pc = req[x].pc
        /\ (req[x].pc = "set" => /\ req'[x].user = req[x].user /\ req'[x].born = req[x].born
                                 /\ req'[x].profile = req[x].profile)
        /\ (req[x].pc # "set" => req'[x] = req[x])
    BY <1>3, <2>1, Marked
  <2>3. RequestBorn(req[x], now, held)
    BY <2>2 DEF Born
  <2>4. req[x].pc \in {"set", "verify"} => now <= req[x].born + MaxAge
    BY <2>3 DEF RequestBorn
  <2>5. RequestBorn(req[x], now, held')
    BY <1>1, <2>2, <2>3, <2>4, HistoryGrows
  <2>. QED  BY <2>2, <2>5 DEF RequestBorn
<1>4. ASSUME NEW u \in Users, session'[u] # None
      PROVE  TokenBorn(u, session'[u], now', held')
  BY <1>1, <1>4, HistoryGrows DEF Born
<1>. QED  BY <1>1, <1>2, <1>3, <1>4 DEF Born

\* Every step keeps the origins.
LEMMA BornNext == TypeOK /\ Born /\ [Next]_vars => Born'
<1> SUFFICES ASSUME TypeOK, TypeOK', Born, [Next]_vars PROVE Born'
  BY TypeNext
<1>0. now \in Times /\ now <= now
  BY DEF TypeOK, Times
<1>1. CASE Tick
  <2>1. /\ now <= now' /\ now' \in Times /\ rows' \in held'[now']
        /\ \A b \in Times : b <= now => held[b] \subseteq held'[b]
    BY <1>1 DEF Tick, TypeOK, Times
  <2>2. ASSUME NEW u \in Users, cache'[u] # None
        PROVE  now' < cache'[u].expireAt /\ EntryBorn(u, cache'[u], now', held')
    <3>1. cache'[u] = cache[u] /\ now' < cache[u].expireAt /\ cache[u] # None
      BY <1>1, <2>2 DEF Tick
    <3>. QED  BY <1>0, <2>1, <3>1, HistoryGrows DEF Born
  <2>3. ASSUME NEW x \in Requests, req'[x] # None
        PROVE  RequestBorn(req'[x], now', held')
    <3>1. req'[x] = req[x] /\ req[x] \in Request /\ RequestBorn(req[x], now, held)
          /\ (req[x].pc \in {"set", "verify"} => now' <= req[x].born + MaxAge)
      BY <1>1, <2>3 DEF Tick, At, TypeOK, Born
    <3>. QED  BY <1>0, <2>1, <3>1, HistoryGrows
  <2>4. ASSUME NEW u \in Users, session'[u] # None
        PROVE  TokenBorn(u, session'[u], now', held')
    <3>1. session'[u] = session[u] /\ session[u] # None
      BY <1>1, <2>4 DEF Tick
    <3>. QED  BY <1>0, <2>1, <3>1, HistoryGrows DEF Born
  <2>. QED  BY <2>1, <2>2, <2>3, <2>4 DEF Born
<1>2. ASSUME NEW u \in Users, Prune(u)
      PROVE  Born'
  <2>1. [rows EXCEPT ![u] = Gone] \in Tables
    BY DEF TypeOK, Tables
  <2>. QED  BY <1>2, <2>1, CommittedBorn, MarkedCache DEF Prune, TypeOK
<1>3. ASSUME NEW r \in Requests, NEW u \in Users, Login(r, u)
      PROVE  Born'
  <2> DEFINE q == [pc |-> "verify", user |-> u, born |-> now]
  <2>1. q \in Request
    BY DEF Request, TypeOK
  <2>2. RequestBorn(q, now, held)
    BY <1>0, <1>3 DEF RequestBorn, Login, ActiveIn, Born, Times
  <2>3. Continue(r, q) /\ UNCHANGED <<now, rows, held, cache, session>>
    BY <1>3 DEF Login, database
  <2> HIDE DEF q
  <2>. QED  BY <2>1, <2>2, <2>3, OneRequest
<1>4. ASSUME NEW r \in Requests, NEW u \in Users, Arrive(r, u)
      PROVE  Born'
  <2> DEFINE q == [pc |-> "in", user |-> u, profile |-> cache[u].profile, at |-> now,
           fetched |-> FALSE]
  <2> DEFINE z == [pc |-> "query", user |-> u]
  <2>1. UNCHANGED <<now, rows, held, cache, session>>
        /\ ((cache[u] # None /\ Continue(r, q)) \/ Continue(r, z))
    BY <1>4 DEF Arrive, database
  <2>2. ASSUME cache[u] # None
        PROVE  q \in Request /\ RequestBorn(q, now, held)
    <3>1. cache[u] \in Entry
      BY <2>2 DEF TypeOK
    <3>2. PICK b \in Times : /\ b <= now /\ cache[u].expireAt <= b + MaxAge + TTL
                             /\ Held(u, cache[u].profile, b, held)
      BY <2>2 DEF Born, EntryBorn
    <3>3. now < cache[u].expireAt /\ cache[u].expireAt \in Nat /\ b \in Nat /\ now \in Nat
      BY <2>2, <3>1 DEF Born, Entry, TypeOK, Times
    <3>4. now <= b + (TTL + MaxAge)
      BY <3>2, <3>3
    <3>. QED  BY <1>0, <3>1, <3>2, <3>4 DEF Request, Entry, RequestBorn
  <2>3. z \in Request /\ RequestBorn(z, now, held)
    BY DEF Request, RequestBorn
  <2> HIDE DEF q, z
  <2>. QED  BY <2>1, <2>2, <2>3, OneRequest
<1>5. ASSUME NEW r \in Requests, NEW u \in Users, NEW patch \in Patches, Load(r, u, patch)
      PROVE  Born'
  <2> DEFINE q == [pc |-> "flush", target |-> u, patch |-> patch, loaded |-> Loaded(r, u)]
  <2>1. rows[u] # Gone => q \in Request
    BY <1>5, LoadedProfile DEF Load, RequireRole, Request
  <2>2. RequestBorn(q, now, held)
    BY DEF RequestBorn
  <2>3. ((rows[u] # Gone /\ Continue(r, q)) \/ Continue(r, None))
        /\ UNCHANGED <<now, rows, held, cache, session>>
    BY <1>5 DEF Load, End, database
  <2> HIDE DEF q
  <2>. QED  BY <2>1, <2>2, <2>3, OneRequest
<1>6. ASSUME NEW r \in Requests, NEW u \in Users, NEW p \in Profile, Create(r, u, p)
      PROVE  Born'
  <2> DEFINE q == [pc |-> "commit", target |-> u, patch |-> None, new |-> p]
  <2>1. q \in Request /\ RequestBorn(q, now, held)
    BY DEF Request, RequestBorn
  <2>2. (Continue(r, q) \/ Continue(r, None)) /\ UNCHANGED <<now, rows, held, cache, session>>
    BY <1>6 DEF Create, End, database
  <2> HIDE DEF q
  <2>. QED  BY <2>1, <2>2, OneRequest
<1>7. ASSUME NEW r \in Requests, IssueToken(r)
      PROVE  Born'
  <2>1. /\ req[r] # None /\ req[r].pc = "verify" /\ req[r].user \in Users
        /\ req[r].born \in Times
    BY <1>7, RequestFields DEF IssueToken, At, TypeOK
  <2>2. /\ req[r].born <= now /\ now <= req[r].born + MaxAge
        /\ ActiveIn(req[r].user, req[r].born, held)
    BY <2>1 DEF Born, RequestBorn
  <2>3. now + Lifetime <= req[r].born + MaxAge + Lifetime
    BY <1>0, <2>1, <2>2 DEF Times
  <2>4. TokenBorn(req[r].user, now + Lifetime, now, held)
    BY <2>1, <2>2, <2>3 DEF TokenBorn
  <2>5. /\ \A u \in Users : session'[u] = session[u] \/ (u = req[r].user /\ session'[u] = now + Lifetime)
        /\ \A x \in Requests : req'[x] = IF x = r THEN None ELSE req[x]
        /\ UNCHANGED <<now, rows, held, cache>>
    BY <1>7, Replaced DEF IssueToken, End, TypeOK, database
  <2>. QED  BY <2>4, <2>5 DEF Born
<1>8. ASSUME NEW r \in Requests, Query(r)
      PROVE  Born'
  <2> DEFINE u == req[r].user
  <2> DEFINE q == [pc |-> "set", user |-> u, profile |-> rows[u], born |-> now, raced |-> FALSE]
  <2>1. u \in Users
    BY <1>8, RequestFields DEF Query, At, TypeOK
  <2>2. rows[u] # Gone => q \in Request
    BY <2>1 DEF Request, TypeOK, Tables
  <2>3. RequestBorn(q, now, held)
    BY <1>0 DEF RequestBorn, Held, Born, Times
  <2>4. ((rows[u] # Gone /\ Continue(r, q)) \/ Continue(r, None))
        /\ UNCHANGED <<now, rows, held, cache, session>>
    BY <1>8 DEF Query, End, database
  <2> HIDE DEF q
  <2>. QED  BY <2>2, <2>3, <2>4, OneRequest
<1>9. ASSUME NEW r \in Requests, Set(r)
      PROVE  Born'
  <2> DEFINE q == req[r]
  <2> DEFINE c == [profile |-> q.profile, expireAt |-> now + TTL,
                   raced |-> q.raced \/ Uncommitted(q.user)]
  <2> DEFINE d == [pc |-> "in", user |-> q.user, profile |-> q.profile, at |-> now,
            fetched |-> TRUE]
  <2>1. /\ q \in Request /\ q # None /\ q.pc = "set" /\ q.user \in Users /\ q.profile \in Profile
        /\ q.born \in Times
    BY <1>9, RequestFields DEF Set, At, TypeOK
  <2>2. q.born <= now /\ now <= q.born + MaxAge /\ Held(q.user, q.profile, q.born, held)
    BY <2>1 DEF Born, RequestBorn
  <2>3. /\ now < now + TTL /\ now + TTL <= q.born + MaxAge + TTL
        /\ now <= q.born + (TTL + MaxAge)
    <3> HIDE DEF q
    <3>. QED  BY <1>0, <2>1, <2>2 DEF Times
  <2>4. now < c.expireAt /\ EntryBorn(q.user, c, now, held)
    <3> HIDE DEF q
    <3>. QED  BY <2>1, <2>2, <2>3 DEF EntryBorn
  <2>5. d \in Request /\ RequestBorn(d, now, held)
    <3> HIDE DEF q
    <3>. QED  BY <1>0, <2>1, <2>2, <2>3 DEF Request, RequestBorn
  <2>6. /\ Continue(r, d) /\ UNCHANGED <<now, rows, held, session>>
        /\ \A u \in Users : cache'[u] = cache[u] \/ (u = q.user /\ cache'[u] = c)
    BY <1>9 DEF Set, TypeOK, database, Expiry
  <2> HIDE DEF q, c, d
  <2>. QED  BY <2>4, <2>5, <2>6, Replaced DEF Born
<1>10. ASSUME NEW r \in Requests, Leave(r)
       PROVE  Born'
  BY <1>10, OneRequest DEF Leave, End, database
<1>11. ASSUME NEW r \in Requests, Flush(r)
       PROVE  Born'
  <2>1. req[r].target \in Users /\ req[r].patch \in Patches /\ req[r].loaded \in Profile
    BY <1>11, RequestFields DEF Flush, At, TypeOK
  <2>2. rows[req[r].target] # Gone =>
          Patched(rows[req[r].target], Differing(req[r].patch, req[r].loaded)) \in Profile
    BY <2>1, PatchedType DEF TypeOK, Tables
  <2>3. PICK new \in Profile \cup {None} :
          \/ Continue(r, None)
          \/ Continue(r, [pc |-> "del", target |-> req[r].target, patch |-> req[r].patch, new |-> new])
    BY <1>11, <2>2 DEF Flush, End
  <2> DEFINE q == [pc |-> "del", target |-> req[r].target, patch |-> req[r].patch, new |-> new]
  <2>4. q \in Request /\ RequestBorn(q, now, held)
    BY <2>1 DEF Request, RequestBorn
  <2>5. (Continue(r, q) \/ Continue(r, None)) /\ UNCHANGED <<now, rows, held, cache, session>>
    BY <1>11, <2>3 DEF Flush, database
  <2> HIDE DEF q
  <2>. QED  BY <2>4, <2>5, OneRequest
<1>12. ASSUME NEW r \in Requests, DelProfile(r)
       PROVE  Born'
  <2>1. req[r].target \in Users /\ req[r] # None
        /\ req[r] \in [pc : {"del", "commit"}, target : Users, patch : Patches \cup {None},
                    new : Profile \cup {None}]
    BY <1>12 DEF DelProfile, At, TypeOK, Request
  <2>2. /\ \A u \in Users : cache'[u] # None =>
             /\ cache[u] # None /\ cache'[u].profile = cache[u].profile
             /\ cache'[u].expireAt = cache[u].expireAt
        /\ UNCHANGED <<now, rows, held, session>>
    BY <1>12, <2>1, MarkedCache DEF DelProfile, TypeOK, database
  <2>3. \A x \in Requests : req'[x] = req[x] \/ req'[x].pc = "commit"
    BY <1>12, <2>1 DEF DelProfile, Continue, TypeOK
  <2>. QED  BY <2>2, <2>3 DEF Born, EntryBorn, RequestBorn
<1>13. ASSUME NEW r \in Requests, Commit(r)
       PROVE  Born'
  <2>1. req[r].target \in Users /\ req[r].new \in Profile \cup {None}
    BY <1>13, RequestFields DEF Commit, At, TypeOK
  <2>2. CASE req[r].new = None
    BY <1>13, <2>2, OneRequest DEF Commit, End, database
  <2>3. CASE req[r].new # None
    <3> DEFINE new == [rows EXCEPT ![req[r].target] = req[r].new]
    <3>1. new \in Tables
      BY <2>1, <2>3 DEF TypeOK, Tables
    <3>2. /\ Committed(new) /\ UNCHANGED <<now, session, cache>>
          /\ \A x \in Requests : req'[x] = None \/ req'[x] = MarkReader(req[r].target, req[x])
      BY <1>13, <2>3 DEF Commit
    <3> HIDE DEF new
    <3>. QED  BY <2>1, <3>1, <3>2, CommittedBorn
  <2>. QED  BY <2>2, <2>3
<1>14. CASE UNCHANGED vars
  BY <1>14 DEF vars, Born
<1>. QED  BY <1>1, <1>2, <1>3, <1>4, <1>5, <1>6, <1>7, <1>8, <1>9, <1>10, <1>11, <1>12,
             <1>13, <1>14 DEF Next
-----------------------------------------------------------------------------
(* What is cached is up to date or marked *)

\* Nothing is cached, no request has read.
LEMMA CoherentInit == Init => Coherent
BY DEF Init, Coherent, At

\* A step that replaces one request, by none that holds an unmarked outdated
\* profile and none that is about to commit over one.
LEMMA OneCoherent ==
  ASSUME TypeOK, Coherent, NEW r \in Requests, NEW q \in Request \cup {None}, Continue(r, q),
         q # None /\ q.pc = "set" => UpToDate(q.user, q),
         q # None /\ q.pc = "commit" /\ q.new # None =>
           (cache[q.target] # None => cache[q.target].raced),
         UNCHANGED <<rows, cache>>
  PROVE  Coherent'
BY Replaced DEF Coherent, At, UpToDate

\* A commit of the row of v alone, with the request and the entry marked.
LEMMA CommittedCoherent ==
  ASSUME TypeOK, TypeOK', Coherent, NEW v \in Users,
         \A u \in Users : u # v => rows'[u] = rows[u],
         cache'[v] # None => cache'[v].raced,
         \A u \in Users : u # v => cache'[u] = cache[u],
         \A x \in Requests : req'[x] = None \/ req'[x] = MarkReader(v, req[x])
  PROVE  Coherent'
<1>1. \A u \in Users : cache'[u] # None => (cache'[u].raced \/ cache'[u].profile = rows'[u])
  BY DEF Coherent, UpToDate
<1>2. ASSUME NEW x \in Requests, req'[x] # None
      PROVE  /\ req'[x].pc = "set" => (req'[x].raced \/ req'[x].profile = rows'[req'[x].user])
             /\ req'[x].pc = "commit" /\ req'[x].new # None =>
                  (cache'[req'[x].target] # None => cache'[req'[x].target].raced)
  <2>1. req[x] \in Request \cup {None} /\ req'[x] = MarkReader(v, req[x])
    BY <1>2 DEF TypeOK
  <2>2. req[x] # None /\ req[x] \in Request /\ req'[x].pc = req[x].pc
    BY <1>2, <2>1, Marked
  <2>3. CASE req[x].pc = "set"
    <3>1. req[x].user \in Users /\ req'[x].user = req[x].user /\ req'[x].profile = req[x].profile
          /\ (req[x].raced \/ req[x].user = v => req'[x].raced)
      BY <2>1, <2>2, <2>3, Marked, RequestFields
    <3>2. req[x].raced \/ req[x].profile = rows[req[x].user]
      BY <2>2, <2>3 DEF Coherent, At, UpToDate
    <3>. QED  BY <2>2, <2>3, <3>1, <3>2
  <2>4. CASE req[x].pc # "set"
    <3>1. req'[x] = req[x]
      BY <2>1, <2>2, <2>4, Marked
    <3>2. req[x].pc = "commit" => req[x].target \in Users
      BY <2>2, RequestFields
    <3>. QED  BY <2>2, <2>4, <3>1, <3>2 DEF Coherent, At
  <2>. QED  BY <2>3, <2>4
<1>. QED  BY <1>1, <1>2 DEF Coherent, At, UpToDate

\* Every step keeps the marks.
LEMMA CoherentNext == TypeOK /\ Born /\ Coherent /\ [Next]_vars => Coherent'
<1> SUFFICES ASSUME TypeOK, TypeOK', Born, Coherent, [Next]_vars PROVE Coherent'
  BY TypeNext
<1>1. CASE Tick
  <2>1. \A u \in Users : cache'[u] # None => cache'[u] = cache[u]
    BY <1>1 DEF Tick
  <2>2. \A r \in Requests : At(r, "commit") => req[r].target \in Users
    BY RequestFields DEF At, TypeOK
  <2>. QED  BY <1>1, <2>1, <2>2 DEF Tick, Coherent, At, UpToDate
<1>2. ASSUME NEW u \in Users, Prune(u)
      PROVE  Coherent'
  <2>1. \A x \in Users : x # u => rows'[x] = rows[x]
    BY <1>2 DEF Prune, Committed, TypeOK, Tables
  <2>. QED  BY <1>2, <2>1, CommittedCoherent, MarkedCache DEF Prune
<1>3. ASSUME NEW r \in Requests, NEW u \in Users, Login(r, u)
      PROVE  Coherent'
  <2>1. [pc |-> "verify", user |-> u, born |-> now] \in Request
    BY DEF Request, TypeOK
  <2>. QED  BY <1>3, <2>1, OneCoherent DEF Login, database
<1>4. ASSUME NEW r \in Requests, NEW u \in Users, Arrive(r, u)
      PROVE  Coherent'
  <2>1. cache[u] # None =>
          [pc |-> "in", user |-> u, profile |-> cache[u].profile, at |-> now,
           fetched |-> FALSE] \in Request
    BY DEF Request, TypeOK, Entry
  <2>2. [pc |-> "query", user |-> u] \in Request
    BY DEF Request
  <2>. QED  BY <1>4, <2>1, <2>2, OneCoherent DEF Arrive, database
<1>5. ASSUME NEW r \in Requests, NEW u \in Users, NEW patch \in Patches, Load(r, u, patch)
      PROVE  Coherent'
  <2>1. rows[u] # Gone =>
          [pc |-> "flush", target |-> u, patch |-> patch, loaded |-> Loaded(r, u)] \in Request
    BY <1>5, LoadedProfile DEF Load, RequireRole, Request
  <2>. QED  BY <1>5, <2>1, OneCoherent DEF Load, End, database
<1>6. ASSUME NEW r \in Requests, NEW u \in Users, NEW p \in Profile, Create(r, u, p)
      PROVE  Coherent'
  <2> DEFINE q == [pc |-> "commit", target |-> u, patch |-> None, new |-> p]
  <2>1. q \in Request /\ q.pc = "commit" /\ q.target = u
    BY DEF Request
  <2>2. ASSUME Unused(u), cache[u] # None
        PROVE  FALSE
    <3>1. PICK b \in Times : Held(u, cache[u].profile, b, held)
      BY <2>2 DEF Born, EntryBorn
    <3>2. cache[u].profile \in Profile
      BY <2>2 DEF TypeOK, Entry
    <3>. QED  BY <2>2, <3>1, <3>2 DEF Unused, Held
  <2>3. ((Continue(r, q) /\ Unused(u)) \/ Continue(r, None)) /\ UNCHANGED <<rows, cache>>
    BY <1>6 DEF Create, End, database
  <2> HIDE DEF q
  <2>. QED  BY <2>1, <2>2, <2>3, OneCoherent
<1>7. ASSUME NEW r \in Requests, IssueToken(r)
      PROVE  Coherent'
  BY <1>7, OneCoherent DEF IssueToken, End, database
<1>8. ASSUME NEW r \in Requests, Query(r)
      PROVE  Coherent'
  <2> DEFINE u == req[r].user
  <2> DEFINE q == [pc |-> "set", user |-> u, profile |-> rows[u], born |-> now, raced |-> FALSE]
  <2>1. u \in Users
    BY <1>8, RequestFields DEF Query, At, TypeOK
  <2>2. rows[u] # Gone => q \in Request
    BY <2>1 DEF Request, TypeOK, Tables
  <2>3. UpToDate(q.user, q) /\ q.pc = "set"
    BY DEF UpToDate
  <2>4. ((rows[u] # Gone /\ Continue(r, q)) \/ Continue(r, None)) /\ UNCHANGED <<rows, cache>>
    BY <1>8 DEF Query, End, database
  <2> HIDE DEF q
  <2>. QED  BY <2>2, <2>3, <2>4, OneCoherent
<1>9. ASSUME NEW r \in Requests, Set(r)
      PROVE  Coherent'
  <2> DEFINE q == req[r]
  <2> DEFINE c == [profile |-> q.profile, expireAt |-> Expiry(now),
                   raced |-> q.raced \/ Uncommitted(q.user)]
  <2> DEFINE d == [pc |-> "in", user |-> q.user, profile |-> q.profile, at |-> now,
            fetched |-> TRUE]
  <2>1. q \in Request /\ q.pc = "set" /\ q.user \in Users /\ q.profile \in Profile
    BY <1>9, RequestFields DEF Set, At, TypeOK
  <2>2. d \in Request /\ d.pc = "in"
    <3> HIDE DEF q
    <3>. QED  BY <2>1 DEF Request, TypeOK
  <2>3. /\ \A x \in Requests : req'[x] = IF x = r THEN d ELSE req[x]
        /\ UNCHANGED rows
        /\ \A u \in Users : cache'[u] = cache[u] \/ (u = q.user /\ cache'[u] = c)
    <3>1. Continue(r, d) /\ (cache' = [cache EXCEPT ![q.user] = c] \/ cache' = cache) /\ UNCHANGED rows
      BY <1>9 DEF Set, database
    <3> HIDE DEF q, c, d
    <3>. QED  BY <2>2, <3>1, Replaced DEF TypeOK
  <2>4. q.raced \/ q.profile = rows[q.user]
    BY <1>9 DEF Set, Coherent, UpToDate
  <2>5. c.profile = q.profile /\ (q.raced \/ Uncommitted(q.user) => c.raced)
    OBVIOUS
  <2>6. \A x \in Requests : At(x, "commit") /\ req[x].new # None =>
          req[x].target \in Users /\ (req[x].target = q.user => Uncommitted(q.user))
    <3> HIDE DEF q
    <3>. QED  BY RequestFields DEF At, TypeOK, Uncommitted, Locks
  <2>7. \A u \in Users : cache'[u] # None => cache'[u].raced \/ cache'[u].profile = rows'[u]
    <3> HIDE DEF q, c, d
    <3>. QED  BY <2>3, <2>4, <2>5 DEF Coherent, UpToDate
  <2>8. ASSUME NEW x \in Requests, req'[x] # None
        PROVE  /\ req'[x].pc = "set" => req'[x].raced \/ req'[x].profile = rows'[req'[x].user]
               /\ req'[x].pc = "commit" /\ req'[x].new # None =>
                    (cache'[req'[x].target] # None => cache'[req'[x].target].raced)
    <3>1. CASE x = r
      <4> HIDE DEF q, c, d
      <4>. QED  BY <2>2, <2>3, <3>1
    <3>2. CASE x # r
      <4>1. req'[x] = req[x]
        <5> HIDE DEF q, c, d
        <5>. QED  BY <2>3, <3>2
      <4> HIDE DEF q, c, d
      <4>. QED  BY <2>3, <2>5, <2>6, <2>8, <4>1 DEF Coherent, At, UpToDate
    <3>. QED  BY <3>1, <3>2
  <2>. QED  BY <2>7, <2>8 DEF Coherent, At, UpToDate
<1>10. ASSUME NEW r \in Requests, Leave(r)
       PROVE  Coherent'
  BY <1>10, OneCoherent DEF Leave, End, database
<1>11. ASSUME NEW r \in Requests, Flush(r)
       PROVE  Coherent'
  <2>1. \A x \in Requests : x # r => req'[x] = req[x]
    BY <1>11 DEF Flush, End, Continue, TypeOK
  <2>2. UNCHANGED <<rows, cache>> /\ (req'[r] = None \/ req'[r].pc = "del")
    BY <1>11 DEF Flush, End, Continue, TypeOK, database
  <2>. QED  BY <2>1, <2>2 DEF Coherent, At, UpToDate
<1>12. ASSUME NEW r \in Requests, DelProfile(r)
       PROVE  Coherent'
  <2>1. /\ req[r].target \in Users /\ req[r] # None
        /\ req[r] \in [pc : {"del", "commit"}, target : Users, patch : Patches \cup {None},
                    new : Profile \cup {None}]
    BY <1>12 DEF DelProfile, At, TypeOK, Request
  <2>2. /\ \A u \in Users : /\ u # req[r].target => cache'[u] = cache[u]
                            /\ cache'[u] # None => cache[u] # None
                                                /\ cache'[u].profile = cache[u].profile
        /\ cache'[req[r].target] # None => cache'[req[r].target].raced
        /\ UNCHANGED rows
    BY <1>12, <2>1, MarkedCache DEF DelProfile, TypeOK, database
  <2>3. /\ \A x \in Requests : x # r => req'[x] = req[x]
        /\ req'[r].pc = "commit" /\ req'[r].target = req[r].target
    BY <1>12, <2>1 DEF DelProfile, Continue, TypeOK
  <2>4. \A x \in Requests : At(x, "commit") => req[x].target \in Users
    BY RequestFields DEF At, TypeOK
  <2>. QED  BY <2>1, <2>2, <2>3, <2>4 DEF Coherent, At, UpToDate
<1>13. ASSUME NEW r \in Requests, Commit(r)
       PROVE  Coherent'
  <2>1. req[r].target \in Users /\ req[r].new \in Profile \cup {None}
    BY <1>13, RequestFields DEF Commit, At, TypeOK
  <2>2. CASE req[r].new = None
    BY <1>13, <2>2, OneCoherent DEF Commit, End, database
  <2>3. CASE req[r].new # None
    <3>1. cache[req[r].target] # None => cache[req[r].target].raced
      BY <1>13, <2>3 DEF Commit, Coherent
    <3>2. /\ \A u \in Users : u # req[r].target => rows'[u] = rows[u]
          /\ UNCHANGED cache
          /\ \A x \in Requests : req'[x] = None \/ req'[x] = MarkReader(req[r].target, req[x])
      BY <1>13, <2>1, <2>3 DEF Commit, Committed, TypeOK, Tables
    <3>. QED  BY <2>1, <3>1, <3>2, CommittedCoherent
  <2>. QED  BY <2>2, <2>3
<1>14. CASE UNCHANGED vars
  BY <1>14 DEF vars, Coherent, At, UpToDate
<1>. QED  BY <1>1, <1>2, <1>3, <1>4, <1>5, <1>6, <1>7, <1>8, <1>9, <1>10, <1>11, <1>12,
             <1>13, <1>14 DEF Next

-----------------------------------------------------------------------------
(* A row has one writer at a time *)

\* Nobody holds a lock.
LEMMA OneWriterInit == Init => OneWriter
BY DEF Init, OneWriter, Locks

\* A step after which nobody holds a new lock, and no locked row is new.
LEMMA FewerLocks ==
  ASSUME OneWriter,
         \A x \in Requests, u \in Users :
           Locks(x, u)' => /\ Locks(x, u)
                           /\ req'[x].new = req[x].new /\ req'[x].patch = req[x].patch,
         \A x \in Requests, u \in Users : Locks(x, u)' => rows'[u] \in {rows[u], Gone}
  PROVE  OneWriter'
BY DEF OneWriter

\* A request without a change takes the place of another.
LEMMA NoNewLock ==
  ASSUME TypeOK, OneWriter, NEW r \in Requests, UNCHANGED rows,
         \A x \in Requests : x # r => req'[x] = req[x],
         req'[r] = None \/ req'[r].pc \in {"verify", "query", "set", "in", "flush"}
           \/ req'[r].new = None
  PROVE  OneWriter'
<1>1. \A x \in Requests, u \in Users :
        Locks(x, u)' => Locks(x, u) /\ req'[x].new = req[x].new /\ req'[x].patch = req[x].patch
  BY DEF Locks
<1>. QED  BY <1>1, FewerLocks

\* A request takes the lock of a free row, with a change that was asked for.
LEMMA NewLock ==
  ASSUME TypeOK, OneWriter, NEW r \in Requests, NEW v \in Users, ~Locked(v), UNCHANGED rows,
         \A x \in Requests : x # r => req'[x] = req[x],
         req'[r] # None, req'[r].target = v,
         rows[v] # Gone => Asked(req'[r].patch, rows[v], req'[r].new)
  PROVE  OneWriter'
BY DEF OneWriter, Locks, Locked

\* Every step keeps the locks.
LEMMA OneWriterNext == TypeOK /\ Born /\ OneWriter /\ [Next]_vars => OneWriter'
<1> SUFFICES ASSUME TypeOK, TypeOK', Born, OneWriter, [Next]_vars PROVE OneWriter'
  BY TypeNext
<1>1. CASE Tick
  BY <1>1 DEF Tick, OneWriter, Locks
<1>2. ASSUME NEW u \in Users, Prune(u)
      PROVE  OneWriter'
  <2>1. \A x \in Requests : req'[x] = MarkReader(u, req[x])
    BY <1>2 DEF Prune
  <2>2. ASSUME NEW x \in Requests, NEW v \in Users, Locks(x, v)'
        PROVE  Locks(x, v) /\ req'[x].new = req[x].new /\ req'[x].patch = req[x].patch
    <3>1. req[x] \in Request \cup {None} /\ req'[x] # None /\ req'[x].pc \in {"del", "commit"}
      BY <2>2 DEF Locks, TypeOK
    <3>2. req'[x] = req[x]
      BY <2>1, <3>1, Marked
    <3>. QED  BY <2>2, <3>2 DEF Locks
  <2>3. \A v \in Users : rows'[v] \in {rows[v], Gone}
    BY <1>2 DEF Prune, Committed, TypeOK, Tables
  <2>. QED  BY <2>2, <2>3, FewerLocks
<1>3. ASSUME NEW r \in Requests,
             \/ \E u \in Users : Login(r, u) \/ Arrive(r, u) \/ \E patch \in Patches : Load(r, u, patch)
             \/ IssueToken(r) \/ Query(r) \/ Set(r) \/ Leave(r)
      PROVE  OneWriter'
  <2>1. /\ \A x \in Requests : x # r => req'[x] = req[x]
        /\ req'[r] = None \/ req'[r].pc \in {"verify", "query", "set", "in", "flush"}
        /\ UNCHANGED rows
    BY <1>3 DEF Login, Arrive, Load, IssueToken, Query, Set, Leave, End, Continue, TypeOK, database
  <2>. QED  BY <2>1, NoNewLock
<1>4. ASSUME NEW r \in Requests, NEW u \in Users, NEW p \in Profile, Create(r, u, p)
      PROVE  OneWriter'
  <2>1. /\ \A x \in Requests : x # r => req'[x] = req[x]
        /\ UNCHANGED rows /\ ~Locked(u)
        /\ req'[r] = None \/ (Unused(u) /\ req'[r] = [pc |-> "commit", target |-> u, patch |-> None, new |-> p])
    BY <1>4 DEF Create, End, Continue, TypeOK, database
  <2>2. CASE req'[r] = None
    BY <2>1, <2>2, NoNewLock
  <2>3. CASE Unused(u) /\ req'[r] = [pc |-> "commit", target |-> u, patch |-> None, new |-> p]
    <3>1. rows[u] = Gone
      BY <2>3 DEF Unused, Born, TypeOK
    <3>2. req'[r] # None
      <4>1. [pc |-> "commit", target |-> u, patch |-> None, new |-> p] \in Request
        BY DEF Request
      <4>. QED  BY <2>3, <4>1
    <3>. QED  BY <2>1, <2>3, <3>1, <3>2, NewLock
  <2>. QED  BY <2>1, <2>2, <2>3
<1>5. ASSUME NEW r \in Requests, Flush(r)
      PROVE  OneWriter'
  <2> DEFINE v == req[r].target
  <2> DEFINE b == req[r].patch
  <2> DEFINE p == Patched(rows[v], Differing(b, req[r].loaded))
  <2>1. v \in Users /\ b \in Patches /\ req[r].loaded \in Profile
    BY <1>5, RequestFields DEF Flush, At, TypeOK
  <2>2. rows[v] # Gone => p \in Profile /\ Asked(b, rows[v], p)
    BY <2>1, PatchedType DEF TypeOK, Tables
  <2>3. /\ \A x \in Requests : x # r => req'[x] = req[x]
        /\ UNCHANGED rows
        /\ \/ req'[r] = None
           \/ req'[r] = [pc |-> "del", target |-> v, patch |-> b, new |-> None]
           \/ ~Locked(v) /\ rows[v] # Gone /\ req'[r] = [pc |-> "del", target |-> v, patch |-> b, new |-> p]
    BY <1>5 DEF Flush, End, Continue, TypeOK, database
  <2>4. CASE req'[r] = None \/ req'[r] = [pc |-> "del", target |-> v, patch |-> b, new |-> None]
    BY <2>3, <2>4, NoNewLock
  <2>5. CASE ~Locked(v) /\ rows[v] # Gone /\ req'[r] = [pc |-> "del", target |-> v, patch |-> b, new |-> p]
    <3>1. req'[r] # None /\ req'[r].target = v /\ req'[r].new = p /\ req'[r].patch = b
      <4>1. [pc |-> "del", target |-> v, patch |-> b, new |-> p] \in Request
        <5> HIDE DEF v, b, p
        <5>. QED  BY <2>1, <2>2, <2>5 DEF Request
      <4> HIDE DEF v, b, p
      <4>. QED  BY <2>5, <4>1
    <3> HIDE DEF v, b, p
    <3>. QED  BY <2>1, <2>2, <2>3, <2>5, <3>1, NewLock
  <2>. QED  BY <2>3, <2>4, <2>5
<1>6. ASSUME NEW r \in Requests, DelProfile(r)
      PROVE  OneWriter'
  <2>1. req[r] \in [pc : {"del", "commit"}, target : Users, patch : Patches \cup {None},
                    new : Profile \cup {None}]
        /\ req[r] # None /\ req[r].pc = "del"
    BY <1>6 DEF DelProfile, At, TypeOK, Request
  <2>2. /\ \A x \in Requests : x # r => req'[x] = req[x]
        /\ req'[r] = [req[r] EXCEPT !.pc = "commit"] /\ UNCHANGED rows
    BY <1>6 DEF DelProfile, Continue, TypeOK, database
  <2>3. req'[r].target = req[r].target /\ req'[r].new = req[r].new /\ req'[r].patch = req[r].patch
    BY <2>1, <2>2
  <2>4. \A x \in Requests, u \in Users :
        Locks(x, u)' => Locks(x, u) /\ req'[x].new = req[x].new /\ req'[x].patch = req[x].patch
    BY <2>1, <2>2, <2>3 DEF Locks
  <2>. QED  BY <2>2, <2>4, FewerLocks
<1>7. ASSUME NEW r \in Requests, Commit(r)
      PROVE  OneWriter'
  <2>1. req[r].target \in Users /\ req[r].new \in Profile \cup {None} /\ req[r] # None
    BY <1>7, RequestFields DEF Commit, At, TypeOK
  <2>2. CASE req[r].new = None
    <3>1. (\A x \in Requests : x # r => req'[x] = req[x]) /\ req'[r] = None /\ UNCHANGED rows
      BY <1>7, <2>2 DEF Commit, End, Continue, TypeOK, database
    <3>. QED  BY <3>1, NoNewLock
  <2>3. CASE req[r].new # None
    <3>1. /\ \A x \in Requests : req'[x] = IF x = r THEN None ELSE MarkReader(req[r].target, req[x])
          /\ \A u \in Users : u # req[r].target => rows'[u] = rows[u]
      BY <1>7, <2>1, <2>3 DEF Commit, Committed, TypeOK, Tables
    <3>2. Locks(r, req[r].target)
      BY <1>7, <2>1, <2>3 DEF Commit, At, Locks
    <3>3. ASSUME NEW x \in Requests, NEW v \in Users, Locks(x, v)'
          PROVE  /\ Locks(x, v) /\ v # req[r].target
                 /\ req'[x].new = req[x].new /\ req'[x].patch = req[x].patch
      <4>1. x # r /\ req[x] \in Request \cup {None} /\ req'[x] # None /\ req'[x].pc \in {"del", "commit"}
        BY <3>1, <3>3 DEF Locks, TypeOK
      <4>2. req'[x] = req[x]
        BY <2>1, <3>1, <4>1, Marked
      <4>3. Locks(x, v)
        BY <3>3, <4>2 DEF Locks
      <4>. QED  BY <2>1, <3>2, <4>1, <4>2, <4>3 DEF OneWriter
    <3>. QED  BY <3>1, <3>3, FewerLocks
  <2>. QED  BY <2>2, <2>3
<1>8. CASE UNCHANGED vars
  BY <1>8 DEF vars, OneWriter, Locks
<1>. QED  BY <1>1, <1>2, <1>3, <1>4, <1>5, <1>6, <1>7, <1>8 DEF Next

-----------------------------------------------------------------------------
(* The theorems *)

\* The invariant holds in every reachable state.
LEMMA Invariance == Spec => []IInv
<1>1. Init => IInv
  BY TypeInit, BornInit, CoherentInit, OneWriterInit DEF IInv
<1>2. IInv /\ [Next]_vars => IInv'
  BY TypeNext, BornNext, CoherentNext, OneWriterNext DEF IInv
<1>. QED  BY <1>1, <1>2, PTL DEF Spec

\* Type correctness of the profile cache.
THEOREM TypeCorrect == Spec => []TypeOK
<1>1. IInv => TypeOK
  BY DEF IInv
<1>. QED  BY <1>1, Invariance, PTL

\* A request is judged by a profile of the last TTL + MaxAge.
LEMMA InvFresh == IInv => ProfileFresh
<1> SUFFICES ASSUME IInv, NEW r \in Requests, At(r, "in")
             PROVE  WasTrue(req[r].user, req[r].profile, req[r].at, TTL + MaxAge)
  BY DEF ProfileFresh
<1>1. RequestBorn(req[r], now, held) /\ req[r].pc = "in"
  BY DEF IInv, Born, At
<1>. QED  BY <1>1 DEF RequestBorn, Held, WasTrue

\* However logins, changes, prunings and failed DELs interleave, the profile a
\* request is judged by was in the users table within TTL + MaxAge.
THEOREM Fresh == Spec => []ProfileFresh
BY InvFresh, Invariance, PTL

\* A token ends Lifetime + MaxAge after its account was active, at the latest.
THEOREM Ends == Spec => []TokensEnd
<1>1. IInv => TokensEnd
  BY DEF IInv, Born, TokenBorn, ActiveIn, TokensEnd
<1>. QED  BY <1>1, Invariance, PTL

\* A cached profile is up to date, or it raced with a change or escaped a DEL.
THEOREM Coherence == Spec => []StaleOnlyByRace
<1>1. IInv => StaleOnlyByRace
  BY DEF IInv, Coherent, UpToDate, StaleOnlyByRace
<1>. QED  BY <1>1, Invariance, PTL

\* Whoever changes the users table had been an administrator within TTL + MaxAge
\* of the check.
THEOREM Privilege == Spec => OnlyAdminsChange
<1> DEFINE A == \A r \in Requests : Starts(r) =>
       \E b \in Times :
         /\ b <= req[r].at /\ req[r].at <= b + TTL + MaxAge
         /\ \E s \in held[b] : LET p == s[req[r].user] IN p # Gone /\ p.role = "admin"
<1>1. IInv /\ [Next]_vars => [A]_vars
  <2> SUFFICES ASSUME IInv, Next, NEW r \in Requests, Starts(r)
               PROVE  \E b \in Times :
                        /\ b <= req[r].at /\ req[r].at <= b + TTL + MaxAge
                        /\ \E s \in held[b] : LET p == s[req[r].user] IN p # Gone /\ p.role = "admin"
    OBVIOUS
  <2>1. At(r, "in") /\ req'[r] # None /\ req'[r].pc # "in" /\ TypeOK
    BY DEF Starts, IInv
  <2>2. req[r] \in Request /\ req[r].pc = "in" /\ req[r] # None /\ req[r].profile \in Profile
        /\ req[r].at \in Times
    BY <2>1, RequestFields DEF At, TypeOK
  <2>3. req[r].profile.role = "admin"
    <3>1. CASE Tick
      BY <2>1, <2>2, <3>1 DEF Tick
    <3>2. ASSUME NEW u \in Users, Prune(u)
          PROVE  FALSE
      <4>1. req'[r] = req[r]
        BY <2>2, <3>2, Marked DEF Prune
      <4>. QED  BY <2>1, <2>2, <4>1
    <3>3. ASSUME NEW x \in Requests, Commit(x)
          PROVE  FALSE
      <4>1. req[x] \in Request /\ req[x].pc = "commit" /\ req[x].target \in Users /\ x # r
        BY <2>1, <2>2, <3>3, RequestFields DEF Commit, At, TypeOK
      <4>2. req'[r] = req[r]
        BY <2>1, <2>2, <3>3, <4>1, Marked DEF Commit, End, Continue, TypeOK
      <4>. QED  BY <2>1, <2>2, <4>2
    <3>4. ASSUME NEW x \in Requests,
                 \/ \E u \in Users : Login(x, u) \/ Arrive(x, u)
                 \/ IssueToken(x) \/ Query(x) \/ Set(x) \/ Leave(x) \/ Flush(x) \/ DelProfile(x)
          PROVE  FALSE
      <4>1. (req[x] = None \/ req[x].pc # "in" \/ req'[x] = None)
            /\ \A y \in Requests : y # x => req'[y] = req[y]
        BY <2>1, <3>4 DEF Login, Arrive, IssueToken, Query, Set, Leave, Flush, DelProfile, End, Continue,
                    At, TypeOK
      <4>. QED  BY <2>1, <2>2, <4>1
    <3>5. ASSUME NEW x \in Requests, NEW u \in Users,
                 \/ \E patch \in Patches : Load(x, u, patch)
                 \/ \E p \in Profile : Create(x, u, p)
          PROVE  req[r].profile.role = "admin"
      <4>1. (\A y \in Requests : y # x => req'[y] = req[y]) /\ RequireRole(x, {"admin"})
        BY <2>1, <3>5 DEF Load, Create, End, Continue, TypeOK
      <4>. QED  BY <2>1, <2>2, <4>1 DEF RequireRole
    <3>. QED  BY <3>1, <3>2, <3>3, <3>4, <3>5 DEF Next
  <2>4. RequestBorn(req[r], now, held)
    BY <2>2 DEF IInv, Born
  <2>5. PICK b \in Times : /\ b <= req[r].at /\ req[r].at <= b + (TTL + MaxAge)
                           /\ \E s \in held[b] : s[req[r].user] = req[r].profile
    BY <2>2, <2>4 DEF RequestBorn, Held
  <2>6. req[r].at <= b + TTL + MaxAge
    BY <2>2, <2>5 DEF Times
  <2>. QED  BY <2>2, <2>3, <2>5, <2>6
<1>2. IInv /\ [Next]_vars => [A]_vars
  BY <1>1
<1>. QED  BY <1>2, Invariance, PTL DEF Spec, OnlyAdminsChange

\* A commit changes nothing but what the request was asked to change.
THEOREM FieldsKept == Spec => OtherFieldsKept
<1> DEFINE ByRequest(u) ==
             \E r \in Requests :
               /\ At(r, "commit") /\ req'[r] = None
               /\ req[r].target = u /\ req[r].patch # None
               /\ rows'[u].role \in {rows[u].role, req[r].patch.role}
               /\ rows'[u].active \in {rows[u].active, req[r].patch.active}
<1> DEFINE A == \A u \in Users : rows[u] # Gone /\ rows'[u] \notin {rows[u], Gone} => ByRequest(u)
<1>1. IInv /\ [Next]_vars => [A]_vars
  <2> SUFFICES ASSUME IInv, Next, NEW u \in Users, rows[u] # Gone, rows'[u] \notin {rows[u], Gone}
               PROVE  ByRequest(u)
    OBVIOUS
  <2>1. rows' # rows
    OBVIOUS
  <2>2. ASSUME NEW v \in Users, Prune(v)
        PROVE  FALSE
    BY <2>2 DEF Prune, Committed, IInv, TypeOK, Tables
  <2>3. ASSUME NEW r \in Requests, Commit(r)
        PROVE  ByRequest(u)
    <3>1. /\ req[r].target \in Users /\ req[r].new # None /\ req'[r] = None
          /\ rows' = [rows EXCEPT ![req[r].target] = req[r].new]
      BY <2>1, <2>3, RequestFields DEF Commit, Committed, At, IInv, TypeOK, database
    <3>2. At(r, "commit") /\ Locks(r, req[r].target)
      BY <2>3, <3>1 DEF Commit, At, Locks
    <3>3. req[r].target = u /\ rows'[u] = req[r].new
      BY <3>1 DEF IInv, TypeOK, Tables
    <3>4. Asked(req[r].patch, rows[u], rows'[u])
      BY <3>2, <3>3 DEF IInv, OneWriter
    <3>. QED  BY <3>1, <3>2, <3>3, <3>4 DEF Asked
  <2>4. rows' = rows \/ (\E v \in Users : Prune(v)) \/ (\E r \in Requests : Commit(r))
    BY DEF Next, Tick, Login, Arrive, Load, Create, IssueToken, Query, Set, Leave, Flush, DelProfile,
           database
  <2>. QED  BY <2>1, <2>2, <2>3, <2>4
<1>. QED  BY <1>1, Invariance, PTL DEF Spec, OtherFieldsKept
=============================================================================
