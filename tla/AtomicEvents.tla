---------------------------- MODULE AtomicEvents ----------------------------
(***************************************************************************)
(* What the handlers for events, their placeholder rows and their          *)
(* reminders promise, however many of them overlap and fail: each has its  *)
(* whole effect at once, on the tables as they are then, or none.          *)
(***************************************************************************)
EXTENDS Naturals

CONSTANTS
  Events, Users,
  Orgs,     \* what a snapshot may say,
  Unknown,  \* or not say
  None      \* no row

Pairs == Events \X Users

VARIABLES
  event,    \* "absent", "active", "closed" or "gone"
  user,     \* "absent", "present" or "gone"
  placed,   \* the snapshot of each pair's row, or None
  written,  \* the pairs whose row has a status
  count,    \* the reminders of each pair
  told      \* how often a sender was told that the pair has been counted

vars == <<event, user, placed, written, count, told>>

There(p) == event[p[1]] \in {"active", "closed"} /\ user[p[2]] = "present"

Init ==
  /\ event = [e \in Events |-> "absent"]
  /\ user \in [Users -> {"absent", "present"}]
  /\ placed = [p \in Pairs |-> None]
  /\ written = {}
  /\ count = [p \in Pairs |-> 0]
  /\ told = [p \in Pairs |-> 0]

\* New rows, for pairs that had none.
Place(new) ==
  /\ placed' \in [Pairs -> Orgs \cup {None}]
  /\ \A p \in Pairs : IF p \in new THEN placed[p] = None /\ placed'[p] # None
                                   ELSE placed'[p] = placed[p]

\* An event begins, with rows for some of the users who are there.
Create(e, us) ==
  /\ event[e] = "absent" /\ \A u \in us : user[u] = "present"
  /\ event' = [event EXCEPT ![e] = "active"]
  /\ Place({e} \X us)
  /\ UNCHANGED <<user, written, count, told>>

\* Rows are added for users and events that are there.
TopUp(new) ==
  /\ \A p \in new : There(p)
  /\ Place(new)
  /\ UNCHANGED <<event, user, written, count, told>>

\* An event is closed or reopened.
Change(e, s) ==
  /\ event[e] \in {"active", "closed"}
  /\ event' = [event EXCEPT ![e] = s]
  /\ UNCHANGED <<user, placed, written, count, told>>

\* Events and users go, with every row and every reminder of theirs and no other.
Remove(es, us) ==
  LET doomed == {p \in Pairs : p[1] \in es \/ p[2] \in us} IN
  /\ \A e \in es : event[e] # "absent"
  /\ \A u \in us : user[u] # "absent"
  /\ event' = [e \in Events |-> IF e \in es THEN "gone" ELSE event[e]]
  /\ user' = [u \in Users |-> IF u \in us THEN "gone" ELSE user[u]]
  /\ placed' = [p \in Pairs |-> IF p \in doomed THEN None ELSE placed[p]]
  /\ written' = written \ doomed
  /\ count' = [p \in Pairs |-> IF p \in doomed THEN 0 ELSE count[p]]
  /\ UNCHANGED told

\* Users are reminded of an event: the sender is told of all of them, and each
\* who is still there is reminded once.
Remind(e, us) ==
  /\ told' = [p \in Pairs |-> IF p \in {e} \X us THEN told[p] + 1 ELSE told[p]]
  /\ count' = [p \in Pairs |-> IF p \in {e} \X us /\ There(p) THEN count[p] + 1 ELSE count[p]]
  /\ UNCHANGED <<event, user, placed, written>>

\* A row gets a status.
Write(p) ==
  /\ placed[p] # None
  /\ written' = written \cup {p}
  /\ UNCHANGED <<event, user, placed, count, told>>

Join(u) ==
  /\ user[u] = "absent"
  /\ user' = [user EXCEPT ![u] = "present"]
  /\ UNCHANGED <<event, placed, written, count, told>>

\* Snapshots that do not say anything are filled in.
Complete ==
  /\ placed' \in [Pairs -> Orgs \cup {None}]
  /\ \A p \in Pairs : /\ placed'[p] = None <=> placed[p] = None
                      /\ placed[p] # Unknown => placed'[p] = placed[p]
  /\ UNCHANGED <<event, user, written, count, told>>

Next ==
  \/ \E e \in Events, us \in SUBSET Users : Create(e, us) \/ Remind(e, us)
  \/ \E new \in SUBSET Pairs : TopUp(new)
  \/ \E e \in Events, s \in {"active", "closed"} : Change(e, s)
  \/ \E e \in Events : Remove({e}, {})
  \/ \E us \in SUBSET Users : Remove({}, us)
  \/ \E p \in Pairs : Write(p)
  \/ \E u \in Users : Join(u)
  \/ Complete

Spec == Init /\ [][Next]_vars
=============================================================================
