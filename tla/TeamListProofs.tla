--------------------------- MODULE TeamListProofs ---------------------------
(***************************************************************************)
(* Theorems about TeamList for every number of users, every page size and  *)
(* every set of selections, slots and first tables.                        *)
(***************************************************************************)
EXTENDS TeamList, FiniteSetTheorems, TLAPS

-----------------------------------------------------------------------------
(* The order of the rows *)

\* A row and those before it.
Upto(s, u) == {v \in Matching(s) : v = u \/ Before(v, u)}

\* Rows are finitely many, their places count them, no two share a place, and
\* who has a place up to another's is one of those before it.
PlacesOK ==
  \A s \in Selections :
    /\ Matching(s) \subseteq Users /\ IsFiniteSet(Matching(s))
    /\ Cardinality(Matching(s)) \in Nat
    /\ \A u \in Users : /\ IsFiniteSet(Upto(s, u)) /\ Place(s, u) = Cardinality(Upto(s, u))
                        /\ Place(s, u) \in Nat
    /\ \A u \in Matching(s) : Place(s, u) \in 1..Cardinality(Matching(s))
    /\ \A u, v \in Matching(s) : Place(s, u) <= Place(s, v) <=> u \in Upto(s, v)
    /\ \A u, v \in Matching(s) : Place(s, u) = Place(s, v) => u = v

\* Users are ordered by urgency and number.
LEMMA BeforeIsOrder ==
  ASSUME TypeOK
  PROVE  /\ \A u \in Users : ~Before(u, u)
         /\ \A u, v, w \in Users : Before(u, v) /\ Before(v, w) => Before(u, w)
         /\ \A u, v \in Users : u = v \/ Before(u, v) \/ Before(v, u)
<1>1. \A u \in Users : status[u] \in {"remark", "need_help", "unreported", "safe"} /\ u \in Int
  BY BoundsAssumption DEF TypeOK, Statuses, Urgency, Users
<1>2. /\ Urgency["remark"] = 0 /\ Urgency["need_help"] = 1
      /\ Urgency["unreported"] = 2 /\ Urgency["safe"] = 3
  BY DEF Urgency
<1>3. QED
  BY <1>1, <1>2 DEF Before

\* Places are what they should be.
LEMMA Places == TypeOK => PlacesOK
<1> SUFFICES ASSUME TypeOK, NEW s \in Selections
             PROVE  /\ Matching(s) \subseteq Users /\ IsFiniteSet(Matching(s))
                    /\ Cardinality(Matching(s)) \in Nat
                    /\ \A u \in Users : /\ IsFiniteSet(Upto(s, u))
                                        /\ Place(s, u) = Cardinality(Upto(s, u))
                                        /\ Place(s, u) \in Nat
                    /\ \A u \in Matching(s) : Place(s, u) \in 1..Cardinality(Matching(s))
                    /\ \A u, v \in Matching(s) : Place(s, u) <= Place(s, v) <=> u \in Upto(s, v)
                    /\ \A u, v \in Matching(s) : Place(s, u) = Place(s, v) => u = v
  BY DEF PlacesOK
<1> DEFINE M == Matching(s)
<1>1. M \subseteq Users
  BY SelectionsAssumption DEF Matching
<1>2. IsFiniteSet(M)
  <2>1. IsFiniteSet(Users)
    BY FS_Interval, BoundsAssumption DEF Users
  <2>2. QED
    BY <1>1, <2>1, FS_Subset
<1>3. Cardinality(M) \in Nat
  BY <1>2, FS_CardinalityType
<1>4. \A u \in Users : /\ Upto(s, u) \in SUBSET M /\ Place(s, u) = Cardinality(Upto(s, u))
  BY DEF Upto, Place
<1>5. \A u \in Users : /\ IsFiniteSet(Upto(s, u)) /\ Place(s, u) \in Nat
                       /\ Place(s, u) <= Cardinality(M)
  BY <1>2, <1>4, FS_Subset, FS_CardinalityType
<1>6. ASSUME NEW u \in M
      PROVE  Place(s, u) # 0
  <2>1. u \in Upto(s, u)
    BY DEF Upto
  <2>2. IsFiniteSet(Upto(s, u)) /\ Upto(s, u) # {}
    BY <1>1, <1>5, <2>1
  <2>3. QED
    BY <1>1, <1>4, <2>2, FS_EmptySet
<1>7. ASSUME NEW u \in M, NEW v \in M, Before(u, v)
      PROVE  Place(s, u) < Place(s, v)
  <2>1. u \in Users /\ v \in Users
    BY <1>1
  <2>2. Upto(s, u) \subseteq Upto(s, v)
    BY <1>1, <1>7, BeforeIsOrder DEF Upto
  <2>3. v \in Upto(s, v) /\ v \notin Upto(s, u)
    BY <1>1, <1>7, BeforeIsOrder DEF Upto
  <2>4. /\ Cardinality(Upto(s, u)) <= Cardinality(Upto(s, v))
        /\ Cardinality(Upto(s, v)) # Cardinality(Upto(s, u))
    BY <1>5, <2>1, <2>2, <2>3, FS_Subset
  <2>5. QED
    BY <1>4, <1>5, <2>1, <2>4
<1>8. \A u, v \in M : u = v \/ Before(u, v) \/ Before(v, u)
  BY <1>1, BeforeIsOrder
<1>9. ASSUME NEW u \in M, NEW v \in M
      PROVE  Place(s, u) <= Place(s, v) <=> u \in Upto(s, v)
  <2>1. u \in Upto(s, v) <=> u = v \/ Before(u, v)
    BY DEF Upto
  <2>2. Place(s, u) \in Nat /\ Place(s, v) \in Nat
    BY <1>1, <1>5
  <2>3. QED
    BY <1>7, <1>8, <2>1, <2>2
<1>10. ASSUME NEW u \in M, NEW v \in M, Place(s, u) = Place(s, v)
       PROVE  u = v
  <2>1. Place(s, u) \in Nat /\ Place(s, v) \in Nat
    BY <1>1, <1>5
  <2>2. QED
    BY <1>7, <1>8, <1>10, <2>1
<1>11. \A u \in M : Place(s, u) \in 1..Cardinality(M)
  BY <1>1, <1>3, <1>5, <1>6
<1>12. QED
  BY <1>1, <1>2, <1>3, <1>4, <1>5, <1>9, <1>10, <1>11

\* The same of the next state.
LEMMA PlacesNext == TypeOK' => PlacesOK'
  BY Places, PTL

-----------------------------------------------------------------------------
(* The inductive invariant *)

Elems(a) == {a[i] : i \in DOMAIN a}

\* The rows of a selection in the places lo+1 to hi.
Between(s, lo, hi) == {u \in Matching(s) : lo < Place(s, u) /\ Place(s, u) <= hi}

\* The users of a are those in the Len(a) places after lo, but for k of them.
Covers(s, lo, a, k) == Cardinality(Between(s, lo, lo + Len(a)) \cap Elems(a)) + k >= Len(a)

Later(k, m) == IF k >= m THEN k ELSE m

\* The page b continues the pages a.
Continues(s, a, k, b, m) == Covers(s, 0, a \o b, Later(k, m))

InFlight(r, kind) == req[r] # None /\ req[r].kind = kind
Answered(r, kind) == InFlight(r, kind) /\ req[r].step = "answer"

\* Offsets, and a single request for more.
Offsets(r) == /\ InFlight(r, "reload") => req[r].offset = 0
              /\ InFlight(r, "more") => req[r].offset > 0
Alone(r, q) == InFlight(r, "more") /\ InFlight(q, "more") => r = q

\* A selection outgrows a total by what has been reported since at most, and an
\* empty list likewise.
ListTotal ==
  coherent => /\ Cardinality(Matching(sel)) <= total + moves
              /\ list = <<>> => Cardinality(Matching(sel)) <= moves
RequestTotal(r) ==
  req[r] # None =>
    /\ req[r].step # "count" =>
         Cardinality(Matching(req[r].sel)) <= req[r].total + req[r].moves
    /\ req[r].step = "answer" /\ req[r].offset = 0 /\ req[r].items = <<>> =>
         Cardinality(Matching(req[r].sel)) <= req[r].moves

\* The list and every answer cover their places.
ListCovers == coherent => Covers(sel, 0, list, moves)
RequestCovers(r) ==
  req[r] # None /\ req[r].step = "answer" =>
    Covers(req[r].sel, req[r].offset, req[r].items, req[r].moves)

\* An answer that may be appended to the list, or to a page that will replace the
\* list before, covers the places together with it.
ListJoins(r) ==
  Answered(r, "more") /\ coherent /\ req[r].sel = sel /\ req[r].offset = Len(list) =>
    Continues(sel, list, moves, req[r].items, req[r].moves)
PagesJoin(r, q) ==
  /\ Answered(r, "reload") /\ Answered(q, "more")
  /\ req[r].sel = req[q].sel /\ req[q].offset = Len(req[r].items)
  => Continues(req[q].sel, req[r].items, req[r].moves, req[q].items, req[q].moves)

\* Without a report in between, lists and pages are what a query would return now.
ListStill ==
  coherent /\ moves = 0 =>
    Len(list) <= Len(Rows(sel)) /\ \A i \in 1..Len(list) : list[i] = Rows(sel)[i]
RequestStill(r) ==
  req[r] # None /\ req[r].step = "answer" /\ req[r].moves = 0 =>
    req[r].items = Page(req[r].sel, req[r].offset)

\* What is claimed of the list, with the requests that may extend it, ...
ListInv ==
  ListTotal /\ ListCovers /\ ListStill /\ \A r \in Slots : ListJoins(r)

\* ... and of the requests among themselves.
RequestsInv ==
  /\ \A r \in Slots : Offsets(r) /\ RequestTotal(r) /\ RequestCovers(r) /\ RequestStill(r)
  /\ \A r, q \in Slots : Alone(r, q) /\ PagesJoin(r, q)

\* The least and the greatest of two numbers.
LEMMA MinMax ==
  ASSUME NEW a \in Int, NEW b \in Int
  PROVE  /\ Min({a, b}) = IF a <= b THEN a ELSE b
         /\ Max({a, b}) = IF a >= b THEN a ELSE b
<1>1. \A x \in {a, b} : (\A y \in {a, b} : x <= y) => x = IF a <= b THEN a ELSE b
  OBVIOUS
<1>2. \A x \in {a, b} : (\A y \in {a, b} : x >= y) => x = IF a >= b THEN a ELSE b
  OBVIOUS
<1>3. /\ \E x \in {a, b} : \A y \in {a, b} : x <= y
      /\ \E x \in {a, b} : \A y \in {a, b} : x >= y
  OBVIOUS
<1>4. QED
  BY <1>1, <1>2, <1>3 DEF Min, Max

\* The rows of a selection, each in its place.
LEMMA RowsInPlace ==
  ASSUME TypeOK, NEW s \in Selections
  PROVE  /\ Rows(s) \in Seq(Users) /\ Len(Rows(s)) = Cardinality(Matching(s))
         /\ \A i \in 1..Cardinality(Matching(s)) :
              Rows(s)[i] \in Matching(s) /\ Place(s, Rows(s)[i]) = i
         /\ \A u \in Matching(s) : Rows(s)[Place(s, u)] = u
<1> DEFINE M == Matching(s)
           n == Cardinality(M)
           f == [u \in M |-> Place(s, u)]
<1>1. /\ M \subseteq Users /\ IsFiniteSet(M) /\ n \in Nat
      /\ \A u \in M : Place(s, u) \in 1..n
      /\ \A u, v \in M : Place(s, u) = Place(s, v) => u = v
  BY Places DEF PlacesOK
<1>2. f \in Injection(M, 1..n)
  BY <1>1 DEF Injection, IsInjective
<1>3. IsFiniteSet(1..n) /\ Cardinality(1..n) = n
  BY <1>1, FS_Interval
<1>4. f \in Surjection(M, 1..n)
  BY <1>2, <1>3, FS_Injection
<1>5. \A i \in 1..n : \E u \in M : Place(s, u) = i
  BY <1>4 DEF Surjection
<1>6. \A i \in 1..n : Rows(s)[i] \in M /\ Place(s, Rows(s)[i]) = i
  BY <1>5 DEF Rows
<1>7. Rows(s) \in [1..n -> Users]
  BY <1>1, <1>6 DEF Rows
<1>8. Rows(s) \in Seq(Users) /\ Len(Rows(s)) = n
  BY <1>1, <1>7
<1>9. QED
  BY <1>1, <1>6, <1>8

\* As many rows are between two places as there are places, unless rows end before.
LEMMA BetweenCounts ==
  ASSUME TypeOK, NEW s \in Selections, NEW lo \in Nat, NEW hi \in Nat, lo <= hi
  PROVE  /\ IsFiniteSet(Between(s, lo, hi))
         /\ Cardinality(Between(s, lo, hi)) \in Nat
         /\ Cardinality(Between(s, lo, hi)) <= hi - lo
         /\ hi <= Cardinality(Matching(s)) => Cardinality(Between(s, lo, hi)) = hi - lo
<1> DEFINE B == Between(s, lo, hi)
           f == [u \in B |-> Place(s, u)]
<1>1. /\ \A u \in B : u \in Matching(s) /\ Place(s, u) \in (lo + 1)..hi
      /\ \A u, v \in B : Place(s, u) = Place(s, v) => u = v
  BY Places DEF PlacesOK, Between
<1>2. f \in Injection(B, (lo + 1)..hi)
  BY <1>1 DEF Injection, IsInjective
<1>3. IsFiniteSet((lo + 1)..hi) /\ Cardinality((lo + 1)..hi) = hi - lo
  <2>1. /\ IsFiniteSet((lo + 1)..hi)
        /\ Cardinality((lo + 1)..hi) = IF lo + 1 > hi THEN 0 ELSE hi - (lo + 1) + 1
    BY FS_Interval
  <2>2. QED
    BY <2>1
<1>4. /\ IsFiniteSet(B) /\ Cardinality(B) <= hi - lo
      /\ Cardinality(B) = hi - lo <=> f \in Surjection(B, (lo + 1)..hi)
  BY <1>2, <1>3, FS_Injection
<1>5. Cardinality(B) \in Nat
  BY <1>4, FS_CardinalityType
<1>6. ASSUME hi <= Cardinality(Matching(s))
      PROVE  f \in Surjection(B, (lo + 1)..hi)
  <2>1. Cardinality(Matching(s)) \in Nat
    BY Places DEF PlacesOK
  <2>2. \A i \in (lo + 1)..hi : Rows(s)[i] \in B /\ Place(s, Rows(s)[i]) = i
    BY <1>6, <2>1, RowsInPlace DEF Between
  <2>3. QED
    BY <1>2, <2>2 DEF Surjection, Injection
<1>7. QED
  BY <1>4, <1>5, <1>6

\* A page is a run of rows, in their places.
LEMMA PageIsRows ==
  ASSUME TypeOK, NEW s \in Selections, NEW o \in Nat
  PROVE  /\ Page(s, o) \in Seq(Users)
         /\ Len(Page(s, o)) = IF o + PageSize <= Cardinality(Matching(s)) THEN PageSize
                              ELSE IF o <= Cardinality(Matching(s))
                                     THEN Cardinality(Matching(s)) - o ELSE 0
         /\ \A i \in 1..Len(Page(s, o)) : Page(s, o)[i] = Rows(s)[o + i]
<1> DEFINE n == Cardinality(Matching(s))
           last == IF o + PageSize <= n THEN o + PageSize ELSE n
<1>1. Rows(s) \in Seq(Users) /\ Len(Rows(s)) = n /\ n \in Nat
  BY RowsInPlace, Places DEF PlacesOK
<1>2. PageSize \in Nat \ {0}
  BY BoundsAssumption
<1>3. Min({o + PageSize, n}) = last
  BY <1>1, <1>2, MinMax
<1>4. Page(s, o) = SubSeq(Rows(s), o + 1, last)
  BY <1>1, <1>3 DEF Page, Cut
<1>5. last \in Nat /\ last <= n
  BY <1>1, <1>2
<1>6. QED
  BY <1>1, <1>2, <1>4, <1>5

\* The users of a page are the rows in its places.
LEMMA PageIsBetween ==
  ASSUME TypeOK, NEW s \in Selections, NEW o \in Nat
  PROVE  /\ Elems(Page(s, o)) = Between(s, o, o + Len(Page(s, o)))
         /\ Cardinality(Elems(Page(s, o))) = Len(Page(s, o))
<1> DEFINE b == Page(s, o)
           n == Cardinality(Matching(s))
<1>1. n \in Nat /\ PageSize \in Nat \ {0}
  BY Places, BoundsAssumption DEF PlacesOK
<1>2. /\ b \in Seq(Users) /\ Len(b) \in Nat /\ DOMAIN b = 1..Len(b)
      /\ \A i \in 1..Len(b) : b[i] = Rows(s)[o + i]
      /\ Len(b) = 0 \/ o + Len(b) <= n
  BY <1>1, PageIsRows
<1>3. Elems(b) \subseteq Between(s, o, o + Len(b))
  <2>1. ASSUME NEW i \in 1..Len(b)
        PROVE  b[i] \in Between(s, o, o + Len(b))
    <3>1. o + i \in 1..n
      BY <1>1, <1>2
    <3>2. b[i] \in Matching(s) /\ Place(s, b[i]) = o + i
      BY <1>2, <3>1, RowsInPlace
    <3>3. QED
      BY <1>2, <3>2 DEF Between
  <2>2. QED
    BY <1>2, <2>1 DEF Elems
<1>4. Between(s, o, o + Len(b)) \subseteq Elems(b)
  <2>1. ASSUME NEW u \in Between(s, o, o + Len(b))
        PROVE  u \in Elems(b)
    <3>1. u \in Matching(s) /\ Place(s, u) \in Nat /\ o < Place(s, u) /\ Place(s, u) <= o + Len(b)
      BY Places DEF PlacesOK, Between
    <3>2. Rows(s)[Place(s, u)] = u
      BY <3>1, RowsInPlace
    <3>3. Place(s, u) - o \in 1..Len(b) /\ o + (Place(s, u) - o) = Place(s, u)
      BY <1>2, <3>1
    <3>4. QED
      BY <1>2, <3>2, <3>3 DEF Elems
  <2>2. QED
    BY <2>1
<1>5. Cardinality(Between(s, o, o + Len(b))) = Len(b)
  <2>1. o <= o + Len(b) /\ o + Len(b) \in Nat
    BY <1>2
  <2>2. /\ Cardinality(Between(s, o, o + Len(b))) \in Nat
        /\ Cardinality(Between(s, o, o + Len(b))) <= (o + Len(b)) - o
        /\ o + Len(b) <= n => Cardinality(Between(s, o, o + Len(b))) = (o + Len(b)) - o
    BY <2>1, BetweenCounts
  <2>3. QED
    BY <1>2, <2>2
<1>6. Elems(b) = Between(s, o, o + Len(b))
  BY <1>3, <1>4
<1>7. QED
  BY <1>5, <1>6

-----------------------------------------------------------------------------
(* What one report does to the order *)

\* A row that has not changed is selected as before, after the same rows but for
\* the one that has; its place changes by one at most.
LEMMA OtherRows ==
  ASSUME TypeOK, TypeOK', NEW u \in Users, NEW x \in Statuses,
         status' = [status EXCEPT ![u] = x], NEW s \in Selections,
         NEW a \in Users, a # u
  PROVE  /\ a \in Matching(s) <=> a \in Matching(s)'
         /\ u \in Upto(s, a) => Place(s, a)' <= Place(s, a) /\ Place(s, a)' >= Place(s, a) - 1
         /\ u \notin Upto(s, a) => Place(s, a)' >= Place(s, a) /\ Place(s, a)' <= Place(s, a) + 1
<1> DEFINE before == Upto(s, a)
           after == Upto(s, a)'
<1>1. \A v \in Users : v # u => status'[v] = status[v]
  BY DEF TypeOK
<1>2. \A v \in Users : v # u => (v \in Matching(s) <=> v \in Matching(s)')
  BY <1>1 DEF Matching
<1>3. Matching(s) \subseteq Users /\ Matching(s)' \subseteq Users
  BY Places, PlacesNext DEF PlacesOK
<1>4. before \ {u} = after \ {u}
  BY <1>1, <1>2, <1>3 DEF Upto, Before
<1>5. /\ IsFiniteSet(before) /\ Place(s, a) = Cardinality(before) /\ Place(s, a) \in Nat
      /\ IsFiniteSet(after) /\ Place(s, a)' = Cardinality(after) /\ Place(s, a)' \in Nat
  BY Places, PlacesNext DEF PlacesOK
<1>6. /\ Cardinality(before \ {u}) = IF u \in before THEN Place(s, a) - 1 ELSE Place(s, a)
      /\ Cardinality(after \ {u}) = IF u \in after THEN Place(s, a)' - 1 ELSE Place(s, a)'
  BY <1>5, FS_RemoveElement
<1>7. Cardinality(before \ {u}) = Cardinality(after \ {u})
  BY <1>4
<1>8. QED
  BY <1>2, <1>5, <1>6, <1>7

\* Of the rows between two places a report pushes out one at most: the one that
\* has changed, or the last when it came in before, or the first when it left.
LEMMA OneLeaves ==
  ASSUME TypeOK, TypeOK', NEW u \in Users, NEW x \in Statuses,
         status' = [status EXCEPT ![u] = x], NEW s \in Selections,
         NEW lo \in Nat, NEW hi \in Nat,
         NEW a \in Between(s, lo, hi), NEW b \in Between(s, lo, hi),
         a \notin Between(s, lo, hi)', b \notin Between(s, lo, hi)'
  PROVE  a = b
<1> DEFINE LeavesLast(c) == Place(s, c) = hi /\ u \notin Upto(s, c)
           LeavesFirst(c) == Place(s, c) = lo + 1 /\ u \in Upto(s, c)
<1>1. \A c \in Between(s, lo, hi) :
        /\ c \in Matching(s) /\ c \in Users
        /\ Place(s, c) \in Nat /\ lo < Place(s, c) /\ Place(s, c) <= hi
  BY Places DEF PlacesOK, Between
<1>2. ASSUME NEW c \in Between(s, lo, hi), c \notin Between(s, lo, hi)', c # u
      PROVE  LeavesLast(c) \/ LeavesFirst(c)
  <2>1. Place(s, c)' \in Nat
    BY <1>1, PlacesNext DEF PlacesOK
  <2>2. /\ c \in Matching(s)'
        /\ u \in Upto(s, c) => Place(s, c)' <= Place(s, c) /\ Place(s, c)' >= Place(s, c) - 1
        /\ u \notin Upto(s, c) => Place(s, c)' >= Place(s, c) /\ Place(s, c)' <= Place(s, c) + 1
    BY <1>1, <1>2, OtherRows
  <2>3. ~(lo < Place(s, c)' /\ Place(s, c)' <= hi)
    BY <1>2, <2>2 DEF Between
  <2>4. QED
    BY <1>1, <2>1, <2>2, <2>3
<1>3. /\ \A c, d \in Matching(s) : Place(s, c) <= Place(s, d) <=> c \in Upto(s, d)
      /\ \A c, d \in Matching(s) : Place(s, c) = Place(s, d) => c = d
  BY Places DEF PlacesOK
<1>4. \A c, d \in Between(s, lo, hi) : c # u /\ LeavesFirst(c) /\ LeavesLast(d) => FALSE
  <2> SUFFICES ASSUME NEW c \in Between(s, lo, hi), NEW d \in Between(s, lo, hi),
                      c # u, LeavesFirst(c), LeavesLast(d)
               PROVE  FALSE
    OBVIOUS
  <2>1. u \in Matching(s)
    BY DEF Upto
  <2>2. Place(s, u) \in Nat /\ Place(s, u) <= Place(s, c)
    BY <1>1, <1>3, <2>1, Places DEF PlacesOK
  <2>3. Place(s, u) <= Place(s, d)
    BY <1>1, <2>2
  <2>4. QED
    BY <1>1, <1>3, <2>1, <2>3
<1>5. \A c \in Between(s, lo, hi) : u \in Between(s, lo, hi) /\ c # u => ~LeavesLast(c) /\ ~LeavesFirst(c)
  <2> SUFFICES ASSUME NEW c \in Between(s, lo, hi), u \in Between(s, lo, hi), c # u
               PROVE  ~LeavesLast(c) /\ ~LeavesFirst(c)
    OBVIOUS
  <2>1. Place(s, u) # Place(s, c)
    BY <1>1, <1>3
  <2>2. QED
    BY <1>1, <1>3, <2>1
<1>6. QED
  BY <1>1, <1>2, <1>3, <1>4, <1>5

\* A report adds one row to a selection at most.
LEMMA OneMore ==
  ASSUME TypeOK, TypeOK', NEW u \in Users, NEW x \in Statuses,
         status' = [status EXCEPT ![u] = x], NEW s \in Selections
  PROVE  Cardinality(Matching(s)') <= Cardinality(Matching(s)) + 1
<1>1. Matching(s)' \subseteq Matching(s) \cup {u}
  BY DEF TypeOK, Matching
<1>2. IsFiniteSet(Matching(s)) /\ Cardinality(Matching(s)) \in Nat
  BY Places DEF PlacesOK
<1>3. /\ IsFiniteSet(Matching(s) \cup {u})
      /\ Cardinality(Matching(s) \cup {u})
           = IF u \in Matching(s) THEN Cardinality(Matching(s)) ELSE Cardinality(Matching(s)) + 1
  BY <1>2, FS_AddElement
<1>4. /\ Cardinality(Matching(s)') <= Cardinality(Matching(s) \cup {u})
      /\ Cardinality(Matching(s)') \in Nat
  BY <1>1, <1>3, FS_Subset, FS_CardinalityType
<1>5. QED
  BY <1>2, <1>3, <1>4

\* A sequence that covers its places covers them up to one more after a report.
LEMMA ReportCovers ==
  ASSUME TypeOK, TypeOK', NEW u \in Users, NEW x \in Statuses,
         status' = [status EXCEPT ![u] = x], NEW s \in Selections,
         NEW lo \in Nat, NEW a \in Seq(Users), NEW k \in Nat, Covers(s, lo, a, k)
  PROVE  Covers(s, lo, a, k + 1)'
<1> DEFINE hi == lo + Len(a)
           X == Elems(a)
           before == Between(s, lo, hi)
           after == Between(s, lo, hi)'
<1>1. Len(a) \in Nat /\ hi \in Nat /\ lo <= hi
  OBVIOUS
<1>2. IsFiniteSet(before) /\ IsFiniteSet(after)
  <2>1. IsFiniteSet(Matching(s)) /\ IsFiniteSet(Matching(s)')
    BY Places, PlacesNext DEF PlacesOK
  <2>2. before \subseteq Matching(s) /\ after \subseteq Matching(s)'
    BY DEF Between
  <2>3. QED
    BY <2>1, <2>2, FS_Subset
<1>3. \E w : before \subseteq after \cup {w}
  <2>1. CASE before \subseteq after
    BY <2>1
  <2>2. CASE \E w \in before : w \notin after
    <3>1. PICK w \in before : w \notin after
      BY <2>2
    <3>2. \A v \in before : v \notin after => v = w
      BY <1>1, <3>1, OneLeaves
    <3>3. QED
      BY <3>2
  <2>3. QED
    BY <2>1, <2>2
<1>4. PICK w : before \subseteq after \cup {w}
  BY <1>3
<1>5. /\ IsFiniteSet(after \cap X) /\ Cardinality(after \cap X) \in Nat
      /\ IsFiniteSet((after \cap X) \cup {w}) /\ Cardinality((after \cap X) \cup {w}) \in Nat
      /\ Cardinality((after \cap X) \cup {w}) <= Cardinality(after \cap X) + 1
  <2>1. IsFiniteSet(after \cap X)
    BY <1>2, FS_Intersection
  <2>2. Cardinality(after \cap X) \in Nat
    BY <2>1, FS_CardinalityType
  <2>3. /\ IsFiniteSet((after \cap X) \cup {w})
        /\ Cardinality((after \cap X) \cup {w})
             = IF w \in after \cap X THEN Cardinality(after \cap X)
                                     ELSE Cardinality(after \cap X) + 1
    BY <2>1, FS_AddElement
  <2>4. QED
    BY <2>1, <2>2, <2>3
<1>6. /\ Cardinality(before \cap X) \in Nat
      /\ Cardinality(before \cap X) <= Cardinality((after \cap X) \cup {w})
  <2>1. before \cap X \subseteq (after \cap X) \cup {w}
    BY <1>4
  <2>2. /\ IsFiniteSet(before \cap X)
        /\ Cardinality(before \cap X) <= Cardinality((after \cap X) \cup {w})
    BY <1>5, <2>1, FS_Subset
  <2>3. QED
    BY <2>2, FS_CardinalityType
<1>7. Cardinality(before \cap X) + k >= Len(a)
  BY DEF Covers
<1>8. Cardinality(after \cap X) + (k + 1) >= Len(a)
  BY <1>1, <1>5, <1>6, <1>7
<1>9. QED
  BY <1>8 DEF Covers, Elems

-----------------------------------------------------------------------------
(* Covering places *)

\* The users of a sequence among the rows of some places can be counted.
LEMMA CoveredCount ==
  ASSUME TypeOK, NEW s \in Selections, NEW lo, NEW hi, NEW X
  PROVE  /\ IsFiniteSet(Between(s, lo, hi) \cap X)
         /\ Cardinality(Between(s, lo, hi) \cap X) \in Nat
<1>1. Between(s, lo, hi) \cap X \subseteq Matching(s)
  BY DEF Between
<1>2. IsFiniteSet(Matching(s))
  BY Places DEF PlacesOK
<1>3. IsFiniteSet(Between(s, lo, hi) \cap X)
  BY <1>1, <1>2, FS_Subset
<1>4. QED
  BY <1>3, FS_CardinalityType

\* A fresh page covers its places.
LEMMA PageCovers ==
  ASSUME TypeOK, NEW s \in Selections, NEW o \in Nat
  PROVE  Covers(s, o, Page(s, o), 0)
<1>1. /\ Between(s, o, o + Len(Page(s, o))) \cap Elems(Page(s, o)) = Elems(Page(s, o))
      /\ Cardinality(Elems(Page(s, o))) = Len(Page(s, o))
  BY PageIsBetween
<1>2. Len(Page(s, o)) \in Nat
  BY PageIsRows
<1>3. Cardinality(Between(s, o, o + Len(Page(s, o))) \cap Elems(Page(s, o))) = Len(Page(s, o))
  BY <1>1
<1>4. QED
  BY <1>2, <1>3 DEF Covers

\* More may be missing.
LEMMA CoversUpToMore ==
  ASSUME TypeOK, NEW s \in Selections, NEW lo \in Nat, NEW a \in Seq(Users),
         NEW k \in Nat, NEW m \in Nat, k <= m, Covers(s, lo, a, k)
  PROVE  Covers(s, lo, a, m)
<1> DEFINE hi == lo + Len(a)
           X == Elems(a)
<1>1. Cardinality(Between(s, lo, hi) \cap X) \in Nat
  <2> HIDE DEF hi, X
  <2> QED
    BY CoveredCount
<1>2. Len(a) \in Nat
  OBVIOUS
<1>3. QED
  BY <1>1, <1>2 DEF Covers

\* Two sequences that cover places one after the other cover them together.
LEMMA CoversTogether ==
  ASSUME TypeOK, NEW s \in Selections, NEW a \in Seq(Users), NEW b \in Seq(Users),
         NEW k \in Nat, NEW m \in Nat, Covers(s, 0, a, k), Covers(s, Len(a), b, m)
  PROVE  Covers(s, 0, a \o b, k + m)
<1> DEFINE A == Between(s, 0, Len(a)) \cap Elems(a)
           B == Between(s, Len(a), Len(a) + Len(b)) \cap Elems(b)
           AB == Between(s, 0, Len(a) + Len(b)) \cap Elems(a \o b)
<1>1. /\ a \o b \in Seq(Users) /\ Len(a \o b) = Len(a) + Len(b)
      /\ Len(a) \in Nat /\ Len(b) \in Nat
  OBVIOUS
<1>2. Elems(a) \subseteq Elems(a \o b) /\ Elems(b) \subseteq Elems(a \o b)
  <2>1. \A i \in DOMAIN a : i \in DOMAIN (a \o b) /\ (a \o b)[i] = a[i]
    OBVIOUS
  <2>2. \A i \in DOMAIN b : Len(a) + i \in DOMAIN (a \o b) /\ (a \o b)[Len(a) + i] = b[i]
    OBVIOUS
  <2>3. QED
    BY <2>1, <2>2 DEF Elems
<1>3. \A u \in Matching(s) : Place(s, u) \in Nat
  BY Places DEF PlacesOK
<1>4. A \cup B \subseteq AB
  BY <1>1, <1>2, <1>3 DEF Between
<1>5. A \cap B = {}
  BY <1>1, <1>3 DEF Between
<1>6. /\ IsFiniteSet(A) /\ Cardinality(A) \in Nat
      /\ IsFiniteSet(B) /\ Cardinality(B) \in Nat
      /\ IsFiniteSet(AB) /\ Cardinality(AB) \in Nat
  BY CoveredCount
<1>7. Cardinality(A \cup B) = Cardinality(A) + Cardinality(B)
  <2>1. Cardinality(A \cup B) = Cardinality(A) + Cardinality(B) - Cardinality(A \cap B)
    BY <1>6, FS_Union
  <2>2. Cardinality(A \cap B) = 0
    BY <1>5, FS_EmptySet
  <2>3. QED
    BY <1>6, <2>1, <2>2
<1>8. Cardinality(A \cup B) <= Cardinality(AB)
  BY <1>4, <1>6, FS_Subset
<1>9. /\ Cardinality(A) + k >= Len(a)
      /\ Cardinality(B) + m >= Len(b)
  BY <1>1 DEF Covers
<1>10. Cardinality(AB) + (k + m) >= Len(a) + Len(b)
  BY <1>1, <1>6, <1>7, <1>8, <1>9
<1>11. QED
  BY <1>1, <1>10 DEF Covers

\* A fresh page continues pages that cover theirs, and pages that cover theirs
\* continue a fresh page.
LEMMA FreshContinues ==
  ASSUME TypeOK, NEW s \in Selections, NEW a \in Seq(Users), NEW b \in Seq(Users),
         NEW k \in Nat, NEW m \in Nat,
         \/ Covers(s, 0, a, k) /\ b = Page(s, Len(a))
         \/ a = Page(s, 0) /\ Covers(s, Len(a), b, m)
  PROVE  Continues(s, a, k, b, m)
<1>1. Len(a) \in Nat /\ a \o b \in Seq(Users) /\ Later(k, m) \in Nat
      /\ k + 0 = k /\ 0 + m = m /\ k <= Later(k, m) /\ m <= Later(k, m)
  BY DEF Later
<1>2. CASE Covers(s, 0, a, k) /\ b = Page(s, Len(a))
  <2>1. Covers(s, Len(a), b, 0)
    BY <1>1, <1>2, PageCovers
  <2>2. Covers(s, 0, a \o b, k)
    BY <1>1, <1>2, <2>1, CoversTogether
  <2>3. QED
    BY <1>1, <2>2, CoversUpToMore DEF Continues
<1>3. CASE a = Page(s, 0) /\ Covers(s, Len(a), b, m)
  <2>1. Covers(s, 0, a, 0)
    BY <1>3, PageCovers
  <2>2. Covers(s, 0, a \o b, m)
    BY <1>1, <1>3, <2>1, CoversTogether
  <2>3. QED
    BY <1>1, <2>2, CoversUpToMore DEF Continues
<1>4. QED
  BY <1>2, <1>3

-----------------------------------------------------------------------------
(* Type correctness *)

\* A new request is one, and is the only thing that changes.
LEMMA TypeAsk ==
  ASSUME TypeOK, NEW kind \in {"reload", "more"}, NEW s \in Selections, NEW o \in Nat,
         Ask(Asked(kind, s, o))
  PROVE  req' \in [Slots -> Request \cup {None}]
<1>1. Asked(kind, s, o) \in Request
  BY DEF Asked, Request
<1>2. QED
  BY <1>1 DEF TypeOK, Ask

\* Initially the first page is being asked for.
LEMMA TypeInit == Init => TypeOK
<1> SUFFICES ASSUME Init PROVE TypeOK
  OBVIOUS
<1>1. Asked("reload", Initial, 0) \in Request /\ Initial \in Selections
  BY SelectionsAssumption DEF Asked, Request
<1>2. req \in [Slots -> Request \cup {None}]
  BY <1>1 DEF Init
<1>3. list \in Seq(Users) /\ changes \in 0..MaxChanges /\ total \in Nat /\ moves \in Nat
  BY BoundsAssumption DEF Init
<1>4. QED
  BY <1>1, <1>2, <1>3, TablesAssumption DEF Init, TypeOK

\* Every step keeps the types.
LEMMA TypeStep ==
  ASSUME TypeOK, [Next]_vars
  PROVE  TypeOK'
<1>1. ASSUME NEW u \in Users, NEW x \in Statuses, Report(u, x)
      PROVE  TypeOK'
  <2>1. \A r \in Slots : req'[r] \in Request \cup {None}
    <3>1. \A r \in Slots : req'[r] = IF req[r] = None \/ req[r].step = "count" THEN req[r]
                                     ELSE [req[r] EXCEPT !.moves = @ + 1]
      BY <1>1 DEF Report
    <3>2. \A q \in Request : [q EXCEPT !.moves = @ + 1] \in Request
      BY DEF Request
    <3>3. QED
      BY <3>1, <3>2 DEF TypeOK
  <2>2. req' \in [Slots -> Request \cup {None}]
    BY <1>1, <2>1 DEF Report
  <2>3. QED
    BY <1>1, <2>2, BoundsAssumption DEF TypeOK, Report
<1>2. ASSUME NEW s \in Selections, Choose(s)
      PROVE  TypeOK'
  BY <1>2, TypeAsk DEF TypeOK, Choose, table
<1>3. CASE Refresh
  BY <1>3, TypeAsk DEF TypeOK, Refresh, table, page
<1>4. CASE LoadMore
  <2>1. Len(list) \in Nat
    BY DEF TypeOK
  <2>2. QED
    BY <1>4, <2>1, TypeAsk DEF TypeOK, LoadMore, table, page
<1>5. ASSUME NEW r \in Slots, Count(r)
      PROVE  TypeOK'
  <2>1. Total(req[r].sel, req[r].offset) \in Nat
    BY <1>5, Places DEF TypeOK, Count, Request, Total, PlacesOK
  <2>2. QED
    BY <1>5, <2>1 DEF TypeOK, Count, Request, table, page
<1>6. ASSUME NEW r \in Slots, Select(r)
      PROVE  TypeOK'
  <2>1. Page(req[r].sel, req[r].offset) \in Seq(Users)
    BY <1>6, PageIsRows DEF TypeOK, Select, Request
  <2>2. QED
    BY <1>6, <2>1 DEF TypeOK, Select, Request, table, page
<1>7. ASSUME NEW r \in Slots, Arrive(r)
      PROVE  TypeOK'
  <2>1. req[r] \in Request
    BY <1>7 DEF TypeOK, Arrive
  <2>2. /\ req[r].items \in Seq(Users) /\ req[r].total \in Nat /\ req[r].moves \in Nat
        /\ list \o req[r].items \in Seq(Users)
    BY <2>1 DEF TypeOK, Request
  <2>3. Max({moves, req[r].moves}) \in Nat
    <3>1. moves \in Nat /\ moves \in Int /\ req[r].moves \in Int
      BY <2>2 DEF TypeOK
    <3>2. Max({moves, req[r].moves}) = IF moves >= req[r].moves THEN moves ELSE req[r].moves
      BY <3>1, MinMax
    <3>3. QED
      BY <2>2, <3>1, <3>2
  <2>4. req' \in [Slots -> Request \cup {None}]
    BY <1>7 DEF TypeOK, Arrive
  <2>5. list' \in Seq(Users) /\ total' \in Nat /\ moves' \in Nat /\ coherent' \in BOOLEAN
    BY <1>7, <2>2, <2>3 DEF TypeOK, Arrive
  <2>6. QED
    BY <1>7, <2>4, <2>5 DEF TypeOK, Arrive, table
<1>8. ASSUME NEW r \in Slots, Fail(r)
      PROVE  TypeOK'
  BY <1>8 DEF TypeOK, Fail, table, page
<1>9. CASE UNCHANGED vars
  BY <1>9 DEF TypeOK, vars
<1>10. QED
  BY <1>1, <1>2, <1>3, <1>4, <1>5, <1>6, <1>7, <1>8, <1>9 DEF Next

\* Every variable keeps its type.
THEOREM TypeCorrect == Spec => []TypeOK
<1>1. TypeOK /\ [Next]_vars => TypeOK'
  BY TypeStep
<1>2. QED
  BY <1>1, TypeInit, PTL DEF Spec

-----------------------------------------------------------------------------
(* Steps that leave the table alone *)

\* What the invariants say of a table holds in the next state when it is kept.
LEMMA SameTable ==
  ASSUME status' = status
  PROVE  /\ \A s : Matching(s)' = Matching(s) /\ Rows(s)' = Rows(s)
         /\ \A s, o : Page(s, o)' = Page(s, o)
         /\ \A s, lo, a, k : Covers(s, lo, a, k)' <=> Covers(s, lo, a, k)
         /\ \A s, a, k, b, m : Continues(s, a, k, b, m)' <=> Continues(s, a, k, b, m)
<1>1. \A s : Matching(s)' = Matching(s)
  BY DEF Matching
<1>2. \A u, v : Before(u, v)' <=> Before(u, v)
  BY DEF Before
<1>3. \A s, u : Place(s, u)' = Place(s, u)
  BY <1>1, <1>2 DEF Place
<1>4. \A s : Rows(s)' = Rows(s)
  BY <1>1, <1>3 DEF Rows
<1>5. \A s, o : Page(s, o)' = Page(s, o)
  BY <1>4 DEF Page, Cut
<1>6. \A s, lo, hi : Between(s, lo, hi)' = Between(s, lo, hi)
  BY <1>1, <1>3 DEF Between
<1>7. \A s, lo, a, k : Covers(s, lo, a, k)' <=> Covers(s, lo, a, k)
  BY <1>6 DEF Covers, Elems
<1>8. \A s, a, k, b, m : Continues(s, a, k, b, m)' <=> Continues(s, a, k, b, m)
  BY <1>7 DEF Continues, Later
<1>9. QED
  BY <1>1, <1>4, <1>5, <1>7, <1>8

\* Requests stay as they are, are dropped, or have no answer yet.
Quiet ==
  /\ status' = status
  /\ \A r \in Slots :
       \/ req'[r] = req[r]
       \/ req'[r] = None
       \/ req'[r] # None /\ req'[r].step # "answer" /\ RequestTotal(r)'

\* What is claimed of answers survives.
LEMMA QuietRequests ==
  ASSUME Quiet, RequestsInv
  PROVE  /\ \A r \in Slots : RequestTotal(r)' /\ RequestCovers(r)' /\ RequestStill(r)'
         /\ \A r, q \in Slots : PagesJoin(r, q)'
<1>1. \A r \in Slots : RequestTotal(r)'
  BY SameTable DEF Quiet, RequestsInv, RequestTotal
<1>2. \A r \in Slots : RequestCovers(r)'
  BY SameTable DEF Quiet, RequestsInv, RequestCovers
<1>3. \A r \in Slots : RequestStill(r)'
  BY SameTable DEF Quiet, RequestsInv, RequestStill
<1>4. \A r, q \in Slots : PagesJoin(r, q)'
  BY SameTable DEF Quiet, RequestsInv, PagesJoin, Answered, InFlight
<1>5. QED
  BY <1>1, <1>2, <1>3, <1>4

\* So does what is claimed of a list that is kept, or given up as incoherent.
LEMMA QuietList ==
  ASSUME Quiet, ListInv, UNCHANGED <<list, total, moves>>,
         (sel' = sel /\ coherent' = coherent) \/ coherent' = FALSE
  PROVE  ListInv'
<1>1. ListTotal'
  BY SameTable DEF Quiet, ListInv, ListTotal
<1>2. ListCovers'
  BY SameTable DEF Quiet, ListInv, ListCovers
<1>3. ListStill'
  BY SameTable DEF Quiet, ListInv, ListStill
<1>4. \A r \in Slots : ListJoins(r)'
  BY SameTable DEF Quiet, ListInv, ListJoins, Answered, InFlight
<1>5. QED
  BY <1>1, <1>2, <1>3, <1>4 DEF ListInv

-----------------------------------------------------------------------------
(* The steps *)

\* A new request claims nothing.
LEMMA Asks ==
  ASSUME TypeOK, RequestsInv, status' = status,
         NEW kind \in {"reload", "more"}, NEW s \in Selections, NEW o \in Nat,
         Ask(Asked(kind, s, o)),
         kind = "reload" => o = 0,
         kind = "more" => o > 0 /\ \A r \in Slots : req[r] # None => req[r].kind # "more"
  PROVE  Quiet /\ RequestsInv'
<1>1. Asked(kind, s, o) # None
  <2>1. Asked(kind, s, o) \in Request
    BY DEF Asked, Request
  <2>2. QED
    BY <2>1, NoneAssumption
<1>2. PICK r \in Slots : req[r] = None /\ req' = [req EXCEPT ![r] = Asked(kind, s, o)]
  BY DEF Ask
<1>3. /\ req'[r] # None /\ req'[r].step = "count" /\ req'[r].kind = kind /\ req'[r].offset = o
      /\ \A q \in Slots : q # r => req'[q] = req[q]
  BY <1>1, <1>2 DEF TypeOK, Asked
<1>4. Quiet
  BY <1>3 DEF Quiet, RequestTotal
<1>5. \A q \in Slots : Offsets(q)'
  BY <1>3 DEF RequestsInv, Offsets, InFlight
<1>6. \A p, q \in Slots : Alone(p, q)'
  BY <1>3 DEF RequestsInv, Alone, InFlight
<1>7. QED
  BY <1>4, <1>5, <1>6, QuietRequests DEF RequestsInv

\* A request that ends claims nothing any more.
LEMMA Ends ==
  ASSUME TypeOK, RequestsInv, status' = status, NEW r \in Slots,
         req' = [req EXCEPT ![r] = None]
  PROVE  Quiet /\ RequestsInv'
<1>1. req'[r] = None /\ \A q \in Slots : q # r => req'[q] = req[q]
  BY DEF TypeOK
<1>2. Quiet
  BY <1>1 DEF Quiet
<1>3. \A q \in Slots : Offsets(q)'
  BY <1>1 DEF RequestsInv, Offsets, InFlight
<1>4. \A p, q \in Slots : Alone(p, q)'
  BY <1>1 DEF RequestsInv, Alone, InFlight
<1>5. QED
  BY <1>2, <1>3, <1>4, QuietRequests DEF RequestsInv

\* The COUNT is exact when it is taken.
LEMMA Counts ==
  ASSUME TypeOK, RequestsInv, ListInv, NEW r \in Slots, Count(r)
  PROVE  RequestsInv' /\ ListInv'
<1>1. /\ status' = status /\ UNCHANGED <<sel, list, total, moves, coherent>>
      /\ req[r] # None /\ req[r] \in Request
  BY DEF TypeOK, Count, table, page
<1>2. /\ req'[r] = [req[r] EXCEPT !.step = "list", !.total = Total(req[r].sel, req[r].offset)]
      /\ \A q \in Slots : q # r => req'[q] = req[q]
  BY DEF TypeOK, Count
<1>3. /\ req'[r] # None /\ req'[r].step = "list" /\ req'[r].kind = req[r].kind
      /\ req'[r].offset = req[r].offset /\ req'[r].sel = req[r].sel
      /\ req'[r].moves = req[r].moves /\ req[r].moves \in Nat /\ req[r].sel \in Selections
      /\ req'[r].total = Cardinality(Matching(req[r].sel))
      /\ \A q \in Slots : q # r => req'[q] = req[q]
  <2>1. Total(req[r].sel, req[r].offset) \in Nat
    BY <1>1, Places DEF Request, Total, PlacesOK
  <2>2. req'[r] \in Request
    BY <1>1, <1>2, <2>1 DEF Request
  <2>3. QED
    BY <1>1, <1>2, <2>2, NoneAssumption DEF Request, Total
<1>4. RequestTotal(r)'
  <2>1. Cardinality(Matching(req[r].sel)) \in Nat
    BY <1>3, Places DEF PlacesOK
  <2>2. Matching(req[r].sel)' = Matching(req[r].sel)
    BY <1>1, <1>3 DEF Matching
  <2>3. QED
    BY <1>3, <2>1, <2>2 DEF RequestTotal
<1>5. Quiet
  BY <1>1, <1>3, <1>4 DEF Quiet
<1>6. \A q \in Slots : Offsets(q)'
  BY <1>1, <1>3 DEF RequestsInv, Offsets, InFlight
<1>7. \A p, q \in Slots : Alone(p, q)'
  BY <1>1, <1>3 DEF RequestsInv, Alone, InFlight
<1>8. QED
  BY <1>1, <1>5, <1>6, <1>7, QuietRequests, QuietList DEF RequestsInv

\* The SELECT returns the rows in the places of the page.
LEMMA Selects ==
  ASSUME TypeOK, RequestsInv, ListInv, NEW r \in Slots, Select(r)
  PROVE  RequestsInv' /\ ListInv'
<1> DEFINE s == req[r].sel
           o == req[r].offset
           k == req[r].moves
           b == Page(s, o)
<1>1. /\ status' = status /\ UNCHANGED <<sel, list, total, moves, coherent>>
      /\ req[r] # None /\ req[r].step = "list"
      /\ req[r] \in Request /\ s \in Selections /\ o \in Nat /\ k \in Nat /\ req[r].total \in Nat
  BY DEF TypeOK, Select, Request, table, page
<1>2. b \in Seq(Users)
  BY <1>1, PageIsRows
<1>3. /\ req'[r] # None /\ req'[r].step = "answer" /\ req'[r].kind = req[r].kind
      /\ req'[r].offset = o /\ req'[r].sel = s /\ req'[r].moves = k /\ req'[r].items = b
      /\ req'[r].total = req[r].total
      /\ \A q \in Slots : q # r => req'[q] = req[q]
  <2>1. /\ req'[r] = [req[r] EXCEPT !.step = "answer", !.items = b]
        /\ \A q \in Slots : q # r => req'[q] = req[q]
    BY DEF TypeOK, Select
  <2>2. req'[r] \in Request
    BY <1>1, <1>2, <2>1 DEF Request
  <2>3. QED
    BY <1>1, <2>1, <2>2, NoneAssumption DEF Request
<1>4. \A q \in Slots : Offsets(q)'
  BY <1>1, <1>3 DEF RequestsInv, Offsets, InFlight
<1>5. \A p, q \in Slots : Alone(p, q)'
  BY <1>1, <1>3 DEF RequestsInv, Alone, InFlight
<1>6. Covers(s, o, b, k)
  BY <1>1, <1>2, PageCovers, CoversUpToMore
<1>7. b = <<>> /\ o = 0 => Cardinality(Matching(s)) <= k
  <2>1. /\ Len(b) = IF o + PageSize <= Cardinality(Matching(s)) THEN PageSize
                    ELSE IF o <= Cardinality(Matching(s)) THEN Cardinality(Matching(s)) - o ELSE 0
        /\ Cardinality(Matching(s)) \in Nat /\ PageSize \in Nat \ {0}
    BY <1>1, PageIsRows, Places, BoundsAssumption DEF PlacesOK
  <2>2. b = <<>> => Len(b) = 0
    OBVIOUS
  <2>3. QED
    BY <1>1, <2>1, <2>2
<1>8. \A q \in Slots : RequestTotal(q)'
  <2>1. RequestTotal(r)
    BY DEF RequestsInv
  <2>2. RequestTotal(r)'
    BY <1>1, <1>3, <1>7, <2>1, SameTable DEF RequestTotal
  <2>3. \A q \in Slots : q # r => RequestTotal(q)'
    BY <1>1, <1>3, SameTable DEF RequestsInv, RequestTotal
  <2>4. QED
    BY <2>2, <2>3
<1>9. \A q \in Slots : RequestCovers(q)'
  <2>1. RequestCovers(r)'
    BY <1>1, <1>3, <1>6, SameTable DEF RequestCovers
  <2>2. \A q \in Slots : q # r => RequestCovers(q)'
    BY <1>1, <1>3, SameTable DEF RequestsInv, RequestCovers
  <2>3. QED
    BY <2>1, <2>2
<1>10. \A q \in Slots : RequestStill(q)'
  <2>1. RequestStill(r)'
    BY <1>1, <1>3, SameTable DEF RequestStill
  <2>2. \A q \in Slots : q # r => RequestStill(q)'
    BY <1>1, <1>3, SameTable DEF RequestsInv, RequestStill
  <2>3. QED
    BY <2>1, <2>2
<1>11. ASSUME NEW p \in Slots, NEW q \in Slots
       PROVE  PagesJoin(p, q)'
  <2>1. CASE p # r /\ q # r
    BY <1>1, <1>3, <2>1, SameTable DEF RequestsInv, PagesJoin, Answered, InFlight
  <2>2. CASE p = r /\ q = r
    BY <1>3, <2>2 DEF PagesJoin, Answered, InFlight
  <2>3. CASE p = r /\ q # r
    <3> SUFFICES ASSUME Answered(q, "more"), Answered(p, "reload")', req[q].sel = s,
                        req[q].offset = Len(b)
                 PROVE  Continues(s, b, k, req[q].items, req[q].moves)
      BY <1>1, <1>3, <2>3, SameTable DEF PagesJoin, Answered, InFlight
    <3>1. o = 0
      BY <1>1, <1>3, <2>3 DEF RequestsInv, Offsets, Answered, InFlight
    <3>2. req[q].items \in Seq(Users) /\ req[q].moves \in Nat
      BY DEF TypeOK, Request, Answered, InFlight
    <3>3. Covers(s, Len(b), req[q].items, req[q].moves)
      BY DEF RequestsInv, RequestCovers, Answered, InFlight
    <3>4. QED
      BY <1>1, <1>2, <3>1, <3>2, <3>3, FreshContinues
  <2>4. CASE p # r /\ q = r
    <3> SUFFICES ASSUME Answered(p, "reload"), req[p].sel = s, o = Len(req[p].items)
                 PROVE  Continues(s, req[p].items, req[p].moves, b, k)
      BY <1>1, <1>3, <2>4, SameTable DEF PagesJoin, Answered, InFlight
    <3>1. req[p].items \in Seq(Users) /\ req[p].moves \in Nat
      BY DEF TypeOK, Request, Answered, InFlight
    <3>2. Covers(s, 0, req[p].items, req[p].moves)
      BY DEF RequestsInv, RequestCovers, Offsets, Answered, InFlight
    <3>3. QED
      BY <1>1, <1>2, <3>1, <3>2, FreshContinues
  <2>5. QED
    BY <2>1, <2>2, <2>3, <2>4
<1>12. ASSUME NEW q \in Slots
       PROVE  ListJoins(q)'
  <2>1. CASE q # r
    BY <1>1, <1>3, <2>1, SameTable DEF ListInv, ListJoins, Answered, InFlight
  <2>2. CASE q = r
    <3> SUFFICES ASSUME coherent, s = sel, o = Len(list)
                 PROVE  Continues(sel, list, moves, b, k)
      BY <1>1, <1>3, <2>2, SameTable DEF ListJoins, Answered, InFlight
    <3>1. list \in Seq(Users) /\ moves \in Nat
      BY DEF TypeOK
    <3>2. Covers(s, 0, list, moves)
      BY DEF ListInv, ListCovers
    <3>3. QED
      BY <1>1, <1>2, <3>1, <3>2, FreshContinues
  <2>3. QED
    BY <2>1, <2>2
<1>13. ListTotal' /\ ListCovers' /\ ListStill'
  BY <1>1, SameTable DEF ListInv, ListTotal, ListCovers, ListStill
<1>14. QED
  BY <1>4, <1>5, <1>8, <1>9, <1>10, <1>11, <1>12, <1>13 DEF RequestsInv, ListInv

\* A page that replaces the list brings its claims with it.
LEMMA Replaces ==
  ASSUME TypeOK, RequestsInv, NEW r \in Slots, req[r] # None, req[r].step = "answer",
         req[r].kind = "reload", status' = status, sel' = sel,
         list' = req[r].items, total' = req[r].total, moves' = req[r].moves,
         coherent' = (req[r].sel = sel), req' = [req EXCEPT ![r] = None]
  PROVE  ListInv'
<1> DEFINE s == req[r].sel
           b == req[r].items
           k == req[r].moves
<1>1. /\ s \in Selections /\ b \in Seq(Users) /\ k \in Nat /\ req[r].total \in Nat
      /\ req[r].offset = 0
  BY DEF TypeOK, Request, RequestsInv, Offsets, InFlight
<1>2. req'[r] = None /\ \A q \in Slots : q # r => req'[q] = req[q]
  BY DEF TypeOK
<1>3. ListTotal'
  <2>1. /\ Cardinality(Matching(s)) <= req[r].total + k
        /\ b = <<>> => Cardinality(Matching(s)) <= k
    BY <1>1 DEF RequestsInv, RequestTotal
  <2>2. coherent' => Matching(sel)' = Matching(s)
    BY DEF Matching
  <2>3. QED
    BY <2>1, <2>2 DEF ListTotal
<1>4. ListCovers'
  <2>1. Covers(s, 0, b, k)
    BY <1>1 DEF RequestsInv, RequestCovers
  <2>2. QED
    BY <2>1, SameTable DEF ListCovers
<1>5. ListStill'
  <2>1. k = 0 => b = Page(s, 0)
    BY <1>1 DEF RequestsInv, RequestStill
  <2>2. /\ Len(Page(s, 0)) <= Len(Rows(s))
        /\ \A i \in 1..Len(Page(s, 0)) : Page(s, 0)[i] = Rows(s)[i]
    <3>1. Cardinality(Matching(s)) \in Nat /\ PageSize \in Nat \ {0}
      BY <1>1, Places, BoundsAssumption DEF PlacesOK
    <3>2. Len(Rows(s)) = Cardinality(Matching(s))
      BY <1>1, RowsInPlace
    <3>3. /\ Len(Page(s, 0)) <= Cardinality(Matching(s)) /\ Len(Page(s, 0)) \in Nat
          /\ \A i \in 1..Len(Page(s, 0)) : Page(s, 0)[i] = Rows(s)[0 + i]
      BY <1>1, <3>1, PageIsRows
    <3>4. QED
      BY <3>2, <3>3
  <2>3. QED
    BY <2>1, <2>2, SameTable DEF ListStill
<1>6. ASSUME NEW q \in Slots
      PROVE  ListJoins(q)'
  <2>1. PagesJoin(r, q)
    BY DEF RequestsInv
  <2>2. QED
    BY <1>2, <2>1, SameTable DEF ListJoins, PagesJoin, Answered, InFlight
<1>7. QED
  BY <1>3, <1>4, <1>5, <1>6 DEF ListInv

\* So does one that is appended, when it was asked for where the list ends.
LEMMA Appends ==
  ASSUME TypeOK, RequestsInv, ListInv,
         NEW r \in Slots, req[r] # None, req[r].step = "answer",
         req[r].kind = "more", status' = status, sel' = sel,
         list' = list \o req[r].items, total' = req[r].total,
         moves' = Max({moves, req[r].moves}),
         coherent' = (coherent /\ req[r].sel = sel /\ req[r].offset = Len(list)),
         req' = [req EXCEPT ![r] = None]
  PROVE  ListInv'
<1> DEFINE b == req[r].items
           k == req[r].moves
<1>1. /\ sel \in Selections /\ b \in Seq(Users) /\ k \in Nat /\ req[r].total \in Nat
      /\ list \in Seq(Users) /\ moves \in Nat /\ req[r].offset > 0
  BY DEF TypeOK, Request, RequestsInv, Offsets, InFlight
<1>2. moves' = Later(moves, k) /\ Later(moves, k) \in Nat
  <2>1. moves \in Int /\ k \in Int
    BY <1>1
  <2>2. Max({moves, k}) = IF moves >= k THEN moves ELSE k
    BY <2>1, MinMax
  <2>3. QED
    BY <1>1, <2>2 DEF Later
<1>3. ASSUME NEW q \in Slots
      PROVE  ListJoins(q)'
  BY DEF TypeOK, RequestsInv, Alone, ListJoins, Answered, InFlight
<1>4. CASE coherent /\ req[r].sel = sel /\ req[r].offset = Len(list)
  <2>1. Cardinality(Matching(sel)) \in Nat /\ Matching(sel)' = Matching(sel)
    BY <1>1, Places DEF PlacesOK, Matching
  <2>2. Cardinality(Matching(sel)) <= req[r].total + k
    BY <1>4 DEF RequestsInv, RequestTotal
  <2>3. list \o b # <<>>
    BY <1>1, <1>4
  <2>4. ListTotal'
    <3>1. Cardinality(Matching(sel)) <= req[r].total + Later(moves, k)
      BY <1>1, <2>1, <2>2 DEF Later
    <3>2. QED
      BY <1>2, <2>1, <2>3, <3>1 DEF ListTotal
  <2>5. Continues(sel, list, moves, b, k)
    BY <1>4 DEF ListInv, ListJoins, Answered, InFlight
  <2>6. Covers(sel, 0, list \o b, Later(moves, k))
    BY <2>5 DEF Continues
  <2>7. ListCovers'
    BY <1>2, <2>6, SameTable DEF ListCovers
  <2>8. ASSUME moves' = 0
        PROVE  /\ Len(list \o b) <= Len(Rows(sel))
               /\ \A i \in 1..Len(list \o b) : (list \o b)[i] = Rows(sel)[i]
    <3>1. moves = 0 /\ k = 0
      <4>1. Later(moves, k) = 0
        BY <1>2, <2>8
      <4>2. QED
        BY <1>1, <4>1 DEF Later
    <3>2. Len(list) <= Len(Rows(sel)) /\ \A i \in 1..Len(list) : list[i] = Rows(sel)[i]
      BY <1>4, <3>1 DEF ListInv, ListStill
    <3>3. b = Page(sel, Len(list))
      BY <1>4, <3>1 DEF RequestsInv, RequestStill
    <3>4. Len(Rows(sel)) = Cardinality(Matching(sel)) /\ PageSize \in Nat \ {0}
      BY <1>1, RowsInPlace, BoundsAssumption
    <3>5. Len(list) \in Nat
      BY <1>1
    <3>6. /\ Len(b) <= Cardinality(Matching(sel)) - Len(list) /\ Len(b) \in Nat
          /\ \A i \in 1..Len(b) : b[i] = Rows(sel)[Len(list) + i]
      <4>1. /\ Len(b) = IF Len(list) + PageSize <= Cardinality(Matching(sel)) THEN PageSize
                        ELSE IF Len(list) <= Cardinality(Matching(sel))
                               THEN Cardinality(Matching(sel)) - Len(list) ELSE 0
            /\ \A i \in 1..Len(b) : b[i] = Rows(sel)[Len(list) + i]
        BY <1>1, <3>3, <3>5, PageIsRows
      <4>2. QED
        BY <2>1, <3>2, <3>4, <3>5, <4>1
    <3>7. Len(list \o b) = Len(list) + Len(b)
      BY <1>1
    <3>8. ASSUME NEW i \in 1..Len(list \o b)
          PROVE  (list \o b)[i] = Rows(sel)[i]
      <4>1. CASE i <= Len(list)
        BY <1>1, <3>2, <4>1
      <4>2. CASE i > Len(list)
        <5>1. i - Len(list) \in 1..Len(b) /\ Len(list) + (i - Len(list)) = i
          BY <3>5, <3>6, <3>7, <4>2
        <5>2. (list \o b)[i] = b[i - Len(list)]
          BY <1>1, <3>5, <3>6, <3>7, <4>2
        <5>3. b[i - Len(list)] = Rows(sel)[Len(list) + (i - Len(list))]
          BY <3>6, <5>1
        <5>4. QED
          BY <5>1, <5>2, <5>3
      <4>3. QED
        BY <3>5, <3>6, <3>7, <4>1, <4>2
    <3>9. QED
      BY <2>1, <3>4, <3>5, <3>6, <3>7, <3>8
  <2>9. Rows(sel)' = Rows(sel)
    BY SameTable DEF Rows, Matching, Place, Before
  <2>10. ListStill'
    BY <2>8, <2>9 DEF ListStill
  <2>11. QED
    BY <1>3, <2>4, <2>7, <2>10 DEF ListInv
<1>5. CASE ~coherent'
  BY <1>3, <1>5 DEF ListInv, ListTotal, ListCovers, ListStill
<1>6. QED
  BY <1>4, <1>5

\* An answer is applied.
LEMMA Arrives ==
  ASSUME TypeOK, RequestsInv, ListInv, NEW r \in Slots, Arrive(r)
  PROVE  RequestsInv' /\ ListInv'
<1>1. RequestsInv'
  BY Ends DEF Arrive, table
<1>2. CASE req[r].kind = "reload"
  BY <1>1, <1>2, Replaces DEF Arrive, table
<1>3. CASE req[r].kind = "more"
  BY <1>1, <1>3, Appends DEF Arrive, table
<1>4. QED
  BY <1>1, <1>2, <1>3 DEF Arrive

\* A report costs every list and every answer one row more.
LEMMA Reports ==
  ASSUME TypeOK, TypeOK', RequestsInv, ListInv,
         NEW u \in Users, NEW x \in Statuses, Report(u, x)
  PROVE  RequestsInv' /\ ListInv'
<1>1. /\ status' = [status EXCEPT ![u] = x]
      /\ sel' = sel /\ list' = list /\ total' = total /\ coherent' = coherent
      /\ moves' = moves + 1 /\ moves \in Nat /\ total \in Nat
      /\ sel \in Selections /\ list \in Seq(Users)
  BY DEF TypeOK, Report
<1>2. ASSUME NEW r \in Slots
      PROVE  /\ req'[r] # None <=> req[r] # None
             /\ req[r] # None =>
                  /\ req'[r].kind = req[r].kind /\ req'[r].step = req[r].step
                  /\ req'[r].sel = req[r].sel /\ req'[r].offset = req[r].offset
                  /\ req'[r].total = req[r].total /\ req'[r].items = req[r].items
                  /\ req[r].step # "count" => req'[r].moves = req[r].moves + 1
                  /\ req[r].sel \in Selections /\ req[r].offset \in Nat
                  /\ req[r].items \in Seq(Users) /\ req[r].total \in Nat
                  /\ req[r].moves \in Nat
  <2>1. req'[r] = IF req[r] = None \/ req[r].step = "count" THEN req[r]
                  ELSE [req[r] EXCEPT !.moves = @ + 1]
    BY DEF Report
  <2>2. \A q \in Request : /\ [q EXCEPT !.moves = @ + 1] \in Request
                           /\ q.moves \in Nat /\ q.sel \in Selections /\ q.offset \in Nat
                           /\ q.items \in Seq(Users) /\ q.total \in Nat
    BY DEF Request
  <2>3. \A q \in Request : LET p == [q EXCEPT !.moves = @ + 1] IN
          /\ p.kind = q.kind /\ p.step = q.step /\ p.sel = q.sel /\ p.offset = q.offset
          /\ p.total = q.total /\ p.items = q.items /\ p.moves = q.moves + 1
    BY DEF Request
  <2>4. req[r] # None => req[r] \in Request
    BY DEF TypeOK
  <2>5. QED
    BY <2>1, <2>2, <2>3, <2>4, NoneAssumption
<1>3. \A s \in Selections : /\ Cardinality(Matching(s)') <= Cardinality(Matching(s)) + 1
                            /\ Cardinality(Matching(s)) \in Nat
                            /\ Cardinality(Matching(s)') \in Nat
  BY <1>1, OneMore, Places, PlacesNext DEF PlacesOK
<1>4. \A s \in Selections, lo \in Nat, a \in Seq(Users), k \in Nat :
        Covers(s, lo, a, k) => Covers(s, lo, a, k + 1)'
  BY <1>1, ReportCovers
<1>5. \A s \in Selections, a, b \in Seq(Users), k, m \in Nat :
        Continues(s, a, k, b, m) => Continues(s, a, k + 1, b, m + 1)'
  <2> SUFFICES ASSUME NEW s \in Selections, NEW a \in Seq(Users), NEW b \in Seq(Users),
                      NEW k \in Nat, NEW m \in Nat, Continues(s, a, k, b, m)
               PROVE  Continues(s, a, k + 1, b, m + 1)'
    OBVIOUS
  <2>1. /\ Later(k, m) \in Nat /\ Later(k + 1, m + 1) = Later(k, m) + 1
        /\ a \o b \in Seq(Users)
    BY DEF Later
  <2>2. Covers(s, 0, a \o b, Later(k, m) + 1)'
    BY <1>4, <2>1 DEF Continues
  <2>3. QED
    BY <2>1, <2>2 DEF Continues, Later
<1>6. ListTotal'
  BY <1>1, <1>3 DEF ListInv, ListTotal
<1>7. ListCovers'
  BY <1>1, <1>4 DEF ListInv, ListCovers
<1>8. ListStill'
  BY <1>1 DEF ListStill
<1>9. ASSUME NEW r \in Slots
      PROVE  ListJoins(r)'
  BY <1>1, <1>2, <1>5 DEF ListInv, ListJoins, Answered, InFlight
<1>10. \A r \in Slots : Offsets(r)'
  BY <1>2 DEF RequestsInv, Offsets, InFlight
<1>11. \A r, q \in Slots : Alone(r, q)'
  BY <1>2 DEF RequestsInv, Alone, InFlight
<1>12. ASSUME NEW r \in Slots
       PROVE  RequestTotal(r)'
  BY <1>2, <1>3 DEF RequestsInv, RequestTotal
<1>13. ASSUME NEW r \in Slots
       PROVE  RequestCovers(r)'
  BY <1>2, <1>4 DEF RequestsInv, RequestCovers
<1>14. ASSUME NEW r \in Slots
       PROVE  RequestStill(r)'
  BY <1>2 DEF RequestStill
<1>15. ASSUME NEW r \in Slots, NEW q \in Slots
       PROVE  PagesJoin(r, q)'
  BY <1>2, <1>5 DEF RequestsInv, PagesJoin, Answered, InFlight
<1>16. QED
  BY <1>6, <1>7, <1>8, <1>9, <1>10, <1>11, <1>12, <1>13, <1>14, <1>15 DEF RequestsInv, ListInv

\* Nothing is claimed at first.
LEMMA InitInv == Init => RequestsInv /\ ListInv
<1> SUFFICES ASSUME Init PROVE RequestsInv /\ ListInv
  OBVIOUS
<1>1. PICK first \in Slots :
        req = [r \in Slots |-> IF r = first THEN Asked("reload", Initial, 0) ELSE None]
  BY DEF Init
<1>2. \A r \in Slots : req[r] # None =>
        r = first /\ req[r].kind = "reload" /\ req[r].step = "count" /\ req[r].offset = 0
  BY <1>1 DEF Asked
<1>3. RequestsInv
  BY <1>2 DEF RequestsInv, Offsets, RequestTotal, RequestCovers, RequestStill, Alone,
              PagesJoin, Answered, InFlight
<1>4. ListInv
  BY <1>2 DEF Init, ListInv, ListTotal, ListCovers, ListStill, ListJoins, Answered, InFlight
<1>5. QED
  BY <1>3, <1>4

\* Every step keeps what is claimed.
LEMMA InvStep ==
  ASSUME TypeOK, TypeOK', RequestsInv, ListInv, [Next]_vars
  PROVE  RequestsInv' /\ ListInv'
<1>1. ASSUME NEW u \in Users, NEW x \in Statuses, Report(u, x)
      PROVE  RequestsInv' /\ ListInv'
  BY <1>1, Reports
<1>2. ASSUME NEW s \in Selections, Choose(s)
      PROVE  RequestsInv' /\ ListInv'
  <2>1. Quiet /\ RequestsInv'
    BY <1>2, Asks DEF Choose, table
  <2>2. QED
    BY <1>2, <2>1, QuietList DEF Choose
<1>3. CASE Refresh
  <2>1. Quiet /\ RequestsInv'
    BY <1>3, Asks DEF Refresh, TypeOK, table
  <2>2. QED
    BY <1>3, <2>1, QuietList DEF Refresh, page
<1>4. CASE LoadMore
  <2>1. Len(list) \in Nat /\ Len(list) > 0 /\ sel \in Selections
    BY <1>4 DEF LoadMore, TypeOK
  <2>2. Quiet /\ RequestsInv'
    BY <1>4, <2>1, Asks DEF LoadMore, table
  <2>3. QED
    BY <1>4, <2>2, QuietList DEF LoadMore, page
<1>5. ASSUME NEW r \in Slots, Count(r)
      PROVE  RequestsInv' /\ ListInv'
  BY <1>5, Counts
<1>6. ASSUME NEW r \in Slots, Select(r)
      PROVE  RequestsInv' /\ ListInv'
  BY <1>6, Selects
<1>7. ASSUME NEW r \in Slots, Arrive(r)
      PROVE  RequestsInv' /\ ListInv'
  BY <1>7, Arrives
<1>8. ASSUME NEW r \in Slots, Fail(r)
      PROVE  RequestsInv' /\ ListInv'
  <2>1. Quiet /\ RequestsInv'
    BY <1>8, Ends DEF Fail, table
  <2>2. QED
    BY <1>8, <2>1, QuietList DEF Fail, page
<1>9. CASE UNCHANGED vars
  <2>1. Quiet
    BY <1>9 DEF vars, Quiet
  <2>2. \A r, q \in Slots : Offsets(r)' /\ Alone(r, q)'
    BY <1>9 DEF vars, RequestsInv, Offsets, Alone, InFlight
  <2>3. RequestsInv'
    BY <2>1, <2>2, QuietRequests DEF RequestsInv
  <2>4. QED
    BY <1>9, <2>1, <2>3, QuietList DEF vars
<1>10. QED
  BY <1>1, <1>2, <1>3, <1>4, <1>5, <1>6, <1>7, <1>8, <1>9 DEF Next

-----------------------------------------------------------------------------
(* What the manager sees *)

\* The claims hold in every state.
LEMMA Invariants == Spec => [](TypeOK /\ RequestsInv /\ ListInv)
<1>1. Init => TypeOK /\ RequestsInv /\ ListInv
  BY TypeInit, InitInv
<1>2. /\ TypeOK /\ RequestsInv /\ ListInv
      /\ [Next]_vars
      => (TypeOK /\ RequestsInv /\ ListInv)'
  BY TypeStep, InvStep
<1>3. QED
  BY <1>1, <1>2, PTL DEF Spec

\* A finite set loses the rows of another that are not in it.
LEMMA Misses ==
  ASSUME NEW A, NEW B, IsFiniteSet(A)
  PROVE  /\ Cardinality(A) \in Nat /\ Cardinality(A \cap B) \in Nat
         /\ Cardinality(A \ B) = Cardinality(A) - Cardinality(A \cap B)
<1>1. QED
  BY FS_Difference, FS_Intersection, FS_CardinalityType

\* A list that covers its places misses and repeats what has been reported at most.
LEMMA CoversMisses ==
  ASSUME TypeOK, NEW k \in Nat, Covers(sel, 0, list, k),
         Cardinality(Matching(sel)) <= total + k,
         list = <<>> => Cardinality(Matching(sel)) <= k
  PROVE  /\ Cardinality({u \in Matching(sel) : Place(sel, u) <= Len(list)} \ Listed) <= k
         /\ Len(list) <= Cardinality(Listed) + k
         /\ Exhausted => Cardinality(Matching(sel) \ Listed) <= 2 * k
<1> DEFINE M == Matching(sel)
           L == Len(list)
           B == Between(sel, 0, L)
<1>1. /\ L \in Nat /\ sel \in Selections /\ total \in Nat
      /\ IsFiniteSet(M) /\ Cardinality(M) \in Nat
      /\ \A u \in M : Place(sel, u) \in Nat /\ 0 < Place(sel, u)
  BY Places DEF TypeOK, PlacesOK
<1>2. {u \in M : Place(sel, u) <= L} = B
  BY <1>1 DEF Between
<1>3. Elems(list) = Listed
  BY DEF Elems, Listed
<1>4. IsFiniteSet(B) /\ Cardinality(B) \in Nat /\ Cardinality(B) <= L
  BY <1>1, BetweenCounts
<1>5. Cardinality(B \cap Listed) + k >= L
  BY <1>1, <1>3 DEF Covers
<1>6. /\ Cardinality(B \cap Listed) \in Nat
      /\ Cardinality(B \ Listed) = Cardinality(B) - Cardinality(B \cap Listed)
  BY <1>4, Misses
<1>7. Cardinality(B \ Listed) <= k
  BY <1>1, <1>4, <1>5, <1>6
<1>8. IsFiniteSet(Listed) /\ Cardinality(Listed) \in Nat
  <2>1. IsFiniteSet(Users)
    BY FS_Interval, BoundsAssumption DEF Users
  <2>2. Listed \subseteq Users
    BY DEF TypeOK, Listed
  <2>3. QED
    BY <2>1, <2>2, FS_Subset, FS_CardinalityType
<1>9. L <= Cardinality(Listed) + k
  <2>1. Cardinality(B \cap Listed) <= Cardinality(Listed)
    BY <1>8, FS_Subset
  <2>2. QED
    BY <1>1, <1>5, <1>6, <1>8, <2>1
<1>10. /\ Cardinality(M \cap Listed) \in Nat
       /\ Cardinality(M \ Listed) = Cardinality(M) - Cardinality(M \cap Listed)
       /\ IsFiniteSet(M \cap Listed)
  BY <1>1, Misses, FS_Intersection
<1>11. Cardinality(B \cap Listed) <= Cardinality(M \cap Listed)
  <2>1. B \cap Listed \subseteq M \cap Listed
    BY DEF Between
  <2>2. QED
    BY <1>10, <2>1, FS_Subset
<1>12. Exhausted => Cardinality(M) <= L + k
  BY <1>1 DEF Exhausted
<1>13. Exhausted => Cardinality(M \ Listed) <= 2 * k
  BY <1>1, <1>5, <1>6, <1>10, <1>11, <1>12
<1>14. QED
  BY <1>2, <1>7, <1>9, <1>13

\* Each report costs the list one row at most, and two at its end: the places
\* that pages cover lose one of their users when a row moves, and the last
\* COUNT is behind by what has been reported since.
THEOREM ReportsCostRows == Spec => []MissesAtMostMoves
<1>1. TypeOK /\ ListInv => MissesAtMostMoves
  BY CoversMisses DEF TypeOK, ListInv, ListCovers, ListTotal, MissesAtMostMoves
<1>2. QED
  BY <1>1, Invariants, PTL

\* Without a report pages fit together, whatever was asked for in between.
THEOREM StillIsPrefix == Spec => []PrefixWhileStill
<1>1. TypeOK /\ ListInv => PrefixWhileStill
  <2> SUFFICES ASSUME TypeOK, ListInv, coherent, moves = 0
               PROVE  IsPrefix(list, Rows(sel))
    BY DEF PrefixWhileStill
  <2>1. /\ list \in Seq(Users) /\ Rows(sel) \in Seq(Users)
        /\ Len(list) <= Len(Rows(sel)) /\ \A i \in 1..Len(list) : list[i] = Rows(sel)[i]
    BY RowsInPlace DEF TypeOK, ListInv, ListStill
  <2>2. list = SubSeq(Rows(sel), 1, Len(list))
    BY <2>1
  <2>3. QED
    BY <2>1, <2>2 DEF IsPrefix
<1>2. QED
  BY <1>1, Invariants, PTL
=============================================================================
