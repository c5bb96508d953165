------------------------------ MODULE EventLife ------------------------------
(***************************************************************************)
(* Events, the placeholder rows they give to the employees concerned, and  *)
(* the reminders sent for them: create_event, update_event, delete_event   *)
(* and trigger_reminders, with the jobs that run beside live pods (the     *)
(* top-up of seed.py, the backfill of init_db.py, prune_users.py).  Each   *)
(* handler is one transaction of PostgreSQL under READ COMMITTED, which    *)
(* get_db commits when the handler has returned; one action is one         *)
(* statement.  A statement sees what is committed, waits for the row locks *)
(* of other transactions, and its writes appear at the commit.             *)
(***************************************************************************)
EXTENDS Naturals

CONSTANTS
  Events, Users,
  Orgs,       \* manager, department and facility of a user, taken together
  Unknown,    \* the member of Orgs that stands for NULL in all three
  Targets,    \* facility lists of events, each as the set of orgs it covers
  Scopes,     \* whom the sender may remind: all orgs, or those of a department
  Surplus,    \* users with employee ids beyond LOAD_TEST_MAX_EMPLOYEES
  Ops,        \* the handlers and jobs that run
  Slots,      \* transactions in flight, on any pod
  MaxReminders, \* bound: reminders of a user for an event
  None, Idle, Absent, Gone

Pairs == Events \X Users
Statuses == {"active", "closed"}
AllOps == {"create", "update", "delete", "topup", "prune", "backfill", "trigger",
           "report", "user"}

ASSUME OrgsAssumption == Unknown \in Orgs /\ None \notin Orgs
ASSUME TargetsAssumption == Targets \subseteq SUBSET Orgs /\ Scopes \subseteq SUBSET Orgs
ASSUME SurplusAssumption == Surplus \subseteq Users
ASSUME OpsAssumption == Ops \subseteq AllOps
ASSUME BoundAssumption == MaxReminders \in Nat

Event == [status : Statuses, stamped : BOOLEAN, orgs : SUBSET Orgs]
User == [org : Orgs, active : BOOLEAN]
\* Placeholders by pair of event and user, with their snapshot.
Rows == UNION {[D -> Orgs] : D \in SUBSET Pairs}

CreateTx == [op : {"create"}, pc : {"insert", "commit"}, ev : Events, orgs : SUBSET Orgs,
             placing : Rows]
TopUpTx == [op : {"topup"}, pc : {"next", "insert"},
            todo : UNION {[D -> SUBSET Orgs] : D \in SUBSET Events},
            missing : Rows, placing : Rows]
UpdateTx == [op : {"update"}, pc : {"flush", "commit"}, ev : Events,
             patch : Statuses \cup {None}, old : Statuses]
DropTx == [op : {"delete", "prune"}, pc : {"reminders", "reports", "commit"},
           events : SUBSET Events, users : SUBSET Users,
           rems : SUBSET Pairs, reps : SUBSET Pairs]
TriggerTx == [op : {"trigger"}, pc : {"existing", "update", "insert", "commit"},
              ev : Events, targets : SUBSET Users, existing : SUBSET Users,
              updated : SUBSET Users]
Tx == CreateTx \cup TopUpTx \cup UpdateTx \cup DropTx \cup TriggerTx

ASSUME ValuesAssumption ==
  /\ Idle \notin Tx
  /\ Absent \notin Event \cup User /\ Gone \notin Event \cup User /\ Absent # Gone
  /\ None \notin Statuses

VARIABLES
  event,     \* the events table; Gone after a delete, so that no id comes back
  user,      \* the users table
  placed,    \* the snapshot of each row of safety_reports, None where there is no row
  written,   \* the pairs whose row has a status
  buffered,  \* the pairs whose acknowledged report is still in Redis
  count,     \* reminder_count of each row of reminders, 0 where there is no row
  tx,        \* the transactions in flight
  told       \* history: how often a committed trigger has counted the user

tables == <<event, user, placed, written, count>>
vars == <<event, user, placed, written, buffered, count, tx, told>>

Exists(x) == x \notin {Absent, Gone}

Init ==
  /\ event = [e \in Events |-> Absent]
  /\ user \in [Users -> [org : Orgs, active : {TRUE}] \cup {Absent}]
  /\ placed = [p \in Pairs |-> None]
  /\ written = {}
  /\ buffered = {}
  /\ count = [p \in Pairs |-> 0]
  /\ tx = [s \in Slots |-> Idle]
  /\ told = [p \in Pairs |-> 0]

-----------------------------------------------------------------------------
(* Locks of the other transactions: what a statement of s waits for *)

Open(s) == {q \in Slots \ {s} : tx[q] # Idle}
Running(s, op, pc) == tx[s] # Idle /\ tx[s].op = op /\ tx[s].pc = pc
Become(s, t) == tx' = [tx EXCEPT ![s] = t]

\* Reminder rows a trigger has inserted, or has updated.
Inserted(t) == IF t.op = "trigger" /\ t.pc = "commit"
                 THEN {t.ev} \X (t.targets \ t.existing) ELSE {}
Updated(t) == IF t.op = "trigger" THEN {t.ev} \X t.updated ELSE {}

\* Placeholders a transaction has inserted.
Placing(t) == CASE t.op = "topup" -> DOMAIN t.placing
                [] t.op = "create" /\ t.pc = "commit" -> DOMAIN t.placing
                [] OTHER -> {}

Dropping(t) == IF t.op \in {"delete", "prune"} THEN t.rems ELSE {}
DroppingReports(t) == IF t.op \in {"delete", "prune"} THEN t.reps ELSE {}

LockedReminders(s) == UNION {Updated(tx[q]) \cup Dropping(tx[q]) : q \in Open(s)}
LockedReports(s) == UNION {DroppingReports(tx[q]) : q \in Open(s)}

\* An inserted row holds FOR KEY SHARE on its event and on its user.
Referencing(s) == UNION {Inserted(tx[q]) \cup Placing(tx[q]) : q \in Open(s)}

EventLocked(s, e) == \E q \in Open(s) : Running(q, "update", "commit") /\ tx[q].ev = e

-----------------------------------------------------------------------------
(* Transactions that end without an effect *)

\* Mutant: every statement commits by itself.
RollbackAutocommitted(s) ==
  /\ tx[s] # Idle
  /\ placed' = [p \in Pairs |-> IF p \in DroppingReports(tx[s]) THEN None ELSE placed[p]]
  /\ count' = [p \in Pairs |-> IF p \in Dropping(tx[s]) THEN 0 ELSE count[p]]
  /\ Become(s, Idle)
  /\ UNCHANGED <<event, user, written, buffered, told>>

\* A violated constraint, a deadlock, a lost connection: get_db rolls back.
Rollback(s) ==
  /\ tx[s] # Idle
  /\ Become(s, Idle)
  /\ UNCHANGED <<tables, buffered, told>>

-----------------------------------------------------------------------------
(* create_event and the top-up of seed.py *)

Concerned(u, orgs) == Exists(user[u]) /\ user[u].active /\ user[u].org \in orgs

\* The placeholders of e for the users us, with the snapshots of this moment.
Snapshots(e, us) == [p \in {e} \X us |-> user[p[2]].org]

\* INSERT of the event, under an id nobody else knows, and SELECT of the users.
CreateEvent(s, e, orgs) ==
  /\ "create" \in Ops /\ tx[s] = Idle
  /\ event[e] = Absent
  /\ \A q \in Open(s) : tx[q].op = "create" => tx[q].ev # e
  /\ Become(s, [op |-> "create", pc |-> "insert", ev |-> e, orgs |-> orgs,
                placing |-> Snapshots(e, {u \in Users : Concerned(u, orgs)})])
  /\ UNCHANGED <<tables, buffered, told>>

\* The bulk INSERT: the foreign keys want every user to exist still.
InsertPlaceholders(s) ==
  /\ Running(s, "create", "insert")
  /\ \A p \in DOMAIN tx[s].placing : Exists(user[p[2]])
  /\ Become(s, [tx[s] EXCEPT !.pc = "commit"])
  /\ UNCHANGED <<tables, buffered, told>>

Placed(rows) == [p \in Pairs |-> IF p \in DOMAIN rows THEN rows[p] ELSE placed[p]]

CommitCreate(s) ==
  /\ Running(s, "create", "commit")
  /\ event' = [event EXCEPT ![tx[s].ev] =
                 [status |-> "active", stamped |-> FALSE, orgs |-> tx[s].orgs]]
  /\ placed' = Placed(tx[s].placing)
  /\ Become(s, Idle)
  /\ UNCHANGED <<user, written, buffered, count, told>>

NoRows == [p \in {} |-> Unknown]
Both(f, g) == [p \in DOMAIN f \cup DOMAIN g |-> IF p \in DOMAIN g THEN g[p] ELSE f[p]]

\* The job finds events: it tops up the active ones, in one transaction.
StartTopUp(s) ==
  /\ "topup" \in Ops /\ tx[s] = Idle
  /\ \E e \in Events : Exists(event[e])
  /\ Become(s, [op |-> "topup", pc |-> "next",
                todo |-> [e \in {f \in Events : Exists(event[f]) /\ event[f].status = "active"}
                            |-> event[e].orgs],
                missing |-> NoRows, placing |-> NoRows])
  /\ UNCHANGED <<tables, buffered, told>>

\* The users covered already and the users concerned, for the next event.
ReadMissing(s, e) ==
  /\ Running(s, "topup", "next")
  /\ e \in DOMAIN tx[s].todo
  /\ LET uncovered == {u \in Users : Concerned(u, tx[s].todo[e]) /\ placed[<<e, u>>] = None}
     IN  Become(s, [tx[s] EXCEPT !.todo = [f \in DOMAIN @ \ {e} |-> @[f]],
                                 !.missing = Snapshots(e, uncovered),
                                 !.pc = IF uncovered = {} THEN "next" ELSE "insert"])
  /\ UNCHANGED <<tables, buffered, told>>

\* The foreign keys and uq_event_user allow the bulk INSERT; the rows of another
\* top-up are waited for.
InsertMissing(s) ==
  /\ Running(s, "topup", "insert")
  /\ \A p \in DOMAIN tx[s].missing :
       Exists(event[p[1]]) /\ Exists(user[p[2]]) /\ placed[p] = None
  /\ DOMAIN tx[s].missing \cap UNION {Placing(tx[q]) : q \in Open(s)} = {}
  /\ Become(s, [tx[s] EXCEPT !.pc = "next",
                              !.missing = NoRows,
                              !.placing = Both(@, tx[s].missing)])
  /\ UNCHANGED <<tables, buffered, told>>

CommitTopUp(s) ==
  /\ Running(s, "topup", "next") /\ DOMAIN tx[s].todo = {}
  /\ placed' = Placed(tx[s].placing)
  /\ Become(s, Idle)
  /\ UNCHANGED <<event, user, written, buffered, count, told>>

\* Mutant: fields that the request leaves out are set to NULL.
PatchedUnset(row, t) == [row EXCEPT !.status = t.patch]
\* Mutant: was_active is read after the fields have been set.
PatchedUnstamped(row, t) == [row EXCEPT !.status = IF t.patch = None THEN @ ELSE t.patch]
\* Mutant: the status that was loaded is written together with the other columns.
PatchedWhole(row, t) ==
  [row EXCEPT !.status = IF t.patch = None THEN t.old ELSE t.patch,
              !.stamped = @ \/ (t.patch = "closed" /\ t.old = "active")]

\* The columns that differ from what was loaded, and closed_at on a close.
Patched(row, t) ==
  [row EXCEPT !.status = IF t.patch = None THEN @ ELSE t.patch,
              !.stamped = @ \/ (t.patch = "closed" /\ t.old = "active")]

-----------------------------------------------------------------------------
(* update_event *)

\* A PATCH of the status, or (None) of other fields.  One that repeats the
\* status it finds writes nothing and is left out.
UpdateEvent(s, e, patch) ==
  /\ "update" \in Ops /\ tx[s] = Idle
  /\ Exists(event[e])
  /\ patch # event[e].status
  /\ Become(s, [op |-> "update", pc |-> "flush", ev |-> e,
                patch |-> patch, old |-> event[e].status])
  /\ UNCHANGED <<tables, buffered, told>>

\* flush: the UPDATE locks the row, which must be there still.
FlushUpdate(s) ==
  /\ Running(s, "update", "flush")
  /\ Exists(event[tx[s].ev]) /\ ~EventLocked(s, tx[s].ev)
  /\ Become(s, [tx[s] EXCEPT !.pc = "commit"])
  /\ UNCHANGED <<tables, buffered, told>>

CommitUpdate(s) ==
  /\ Running(s, "update", "commit")
  /\ event' = [event EXCEPT ![tx[s].ev] = Patched(@, tx[s])]
  /\ Become(s, Idle)
  /\ UNCHANGED <<user, placed, written, buffered, count, told>>

-----------------------------------------------------------------------------
(* delete_event and prune_users: children first *)

Drop(op, events, users) ==
  [op |-> op, pc |-> "reminders", events |-> events, users |-> users, rems |-> {}, reps |-> {}]

DeleteEvent(s, e) ==
  /\ "delete" \in Ops /\ tx[s] = Idle
  /\ Exists(event[e])
  /\ Become(s, Drop("delete", {e}, Users))
  /\ UNCHANGED <<tables, buffered, told>>

Prune(s) ==
  /\ "prune" \in Ops /\ tx[s] = Idle
  /\ \E u \in Surplus : Exists(user[u])
  /\ Become(s, Drop("prune", Events, {u \in Surplus : Exists(user[u])}))
  /\ UNCHANGED <<tables, buffered, told>>

Doomed(t) == t.events \X t.users

\* DELETE FROM reminders: the rows there are, once nobody else holds one of them.
DropReminders(s) ==
  /\ tx[s] # Idle /\ tx[s].op \in {"delete", "prune"} /\ tx[s].pc = "reminders"
  /\ LET rems == {p \in Doomed(tx[s]) : count[p] > 0} IN
       /\ rems \cap LockedReminders(s) = {}
       /\ Become(s, [tx[s] EXCEPT !.pc = "reports", !.rems = rems])
  /\ UNCHANGED <<tables, buffered, told>>

DropReports(s) ==
  /\ tx[s] # Idle /\ tx[s].op \in {"delete", "prune"} /\ tx[s].pc = "reports"
  /\ LET reps == {p \in Doomed(tx[s]) : placed[p] # None} IN
       /\ reps \cap LockedReports(s) = {}
       /\ Become(s, [tx[s] EXCEPT !.pc = "commit", !.reps = reps])
  /\ UNCHANGED <<tables, buffered, told>>

\* Mutant: the columns event_id and user_id have no foreign key.
Unchecked(s) == tx[s] # Idle

\* No row is left that refers to what is deleted, and none is being inserted.
Unreferenced(s) ==
  /\ \A p \in Doomed(tx[s]) :
       /\ placed[p] # None => p \in tx[s].reps
       /\ count[p] > 0 => p \in tx[s].rems
  /\ Doomed(tx[s]) \cap Referencing(s) = {}

ChildrenDropped(t) ==
  /\ placed' = [p \in Pairs |-> IF p \in t.reps THEN None ELSE placed[p]]
  /\ written' = written \ t.reps
  /\ count' = [p \in Pairs |-> IF p \in t.rems THEN 0 ELSE count[p]]

\* The DELETE of the event itself runs in the flush of the commit.
CommitDelete(s) ==
  /\ Running(s, "delete", "commit")
  /\ Unreferenced(s)
  /\ \A e \in tx[s].events : ~EventLocked(s, e)
  /\ event' = [e \in Events |-> IF e \in tx[s].events THEN Gone ELSE event[e]]
  /\ ChildrenDropped(tx[s])
  /\ Become(s, Idle)
  /\ UNCHANGED <<user, buffered, told>>

\* DELETE FROM users, and the commit.
CommitPrune(s) ==
  /\ Running(s, "prune", "commit")
  /\ Unreferenced(s)
  /\ user' = [u \in Users |-> IF u \in tx[s].users THEN Gone ELSE user[u]]
  /\ ChildrenDropped(tx[s])
  /\ Become(s, Idle)
  /\ UNCHANGED <<event, buffered, told>>

-----------------------------------------------------------------------------
(* trigger_reminders *)

\* SELECT of the unreported, active users in the sender's scope; nothing asks
\* whether the event is active.  With nobody to remind the handler returns.
TriggerReminders(s, e, scope) ==
  /\ "trigger" \in Ops /\ tx[s] = Idle
  /\ LET targets == {u \in Users : placed[<<e, u>>] \in scope
                                   /\ <<e, u>> \notin written /\ user[u].active}
     IN  /\ targets # {}
         /\ \A u \in targets : told[<<e, u>>] < MaxReminders
         /\ Become(s, [op |-> "trigger", pc |-> "existing", ev |-> e, targets |-> targets,
                       existing |-> {}, updated |-> {}])
  /\ UNCHANGED <<tables, buffered, told>>

\* SELECT of their reminder rows: those that are committed.
SelectExisting(s) ==
  /\ Running(s, "trigger", "existing")
  /\ Become(s, [tx[s] EXCEPT !.pc = "update",
                              !.existing = {u \in tx[s].targets : count[<<tx[s].ev, u>>] > 0}])
  /\ UNCHANGED <<tables, buffered, told>>

\* Bulk UPDATE by row id: waits for the rows others hold, skips deleted ones.
UpdateReminders(s) ==
  /\ Running(s, "trigger", "update")
  /\ ({tx[s].ev} \X tx[s].existing) \cap LockedReminders(s) = {}
  /\ Become(s, [tx[s] EXCEPT !.pc = "insert",
                              !.updated = {u \in tx[s].existing : count[<<tx[s].ev, u>>] > 0}])
  /\ UNCHANGED <<tables, buffered, told>>

\* Bulk INSERT for the others: waits for rows another trigger is inserting or a
\* delete is dropping; uq_reminder_event_user and the foreign keys must hold.
InsertReminders(s) ==
  /\ Running(s, "trigger", "insert")
  /\ LET e == tx[s].ev
         new == tx[s].targets \ tx[s].existing
     IN  /\ \A q \in Open(s) : ({e} \X new) \cap (Inserted(tx[q]) \cup Dropping(tx[q])) = {}
         /\ \A u \in new : Exists(event[e]) /\ Exists(user[u]) /\ count[<<e, u>>] = 0
  /\ Become(s, [tx[s] EXCEPT !.pc = "commit"])
  /\ UNCHANGED <<tables, buffered, told>>

\* Mutant: an upsert that sets reminder_count to the inserted 1.
Upserted(t, c) ==
  [p \in Pairs |-> IF p \in {t.ev} \X t.targets THEN 1 ELSE c[p]]

\* reminder_count + 1, evaluated by the UPDATE on the row it has locked.
Reminded(t, c) ==
  [p \in Pairs |-> CASE p \in {t.ev} \X t.updated -> c[p] + 1
                     [] p \in {t.ev} \X (t.targets \ t.existing) -> 1
                     [] OTHER -> c[p]]

\* The answer counts all targets.
CommitTrigger(s) ==
  /\ Running(s, "trigger", "commit")
  /\ count' = Reminded(tx[s], count)
  /\ told' = [p \in Pairs |-> IF p \in {tx[s].ev} \X tx[s].targets THEN told[p] + 1 ELSE told[p]]
  /\ Become(s, Idle)
  /\ UNCHANGED <<event, user, placed, written, buffered>>

\* Mutant: the row's status is not looked at.
BannerOfReminded(p) ==
  count[p] > 0 /\ placed[p] # None /\ Exists(event[p[1]]) /\ event[p[1]].status = "active"

\* get_my_reminders, one SELECT: whether the user sees a banner for the event.
Banner(p) ==
  /\ count[p] > 0 /\ placed[p] # None /\ p \notin written
  /\ Exists(event[p[1]]) /\ event[p[1]].status = "active"

-----------------------------------------------------------------------------
(* What else changes the tables *)

\* A report is acknowledged from the buffer; ReportBuffer has the details.
Report(p) ==
  /\ "report" \in Ops
  /\ placed[p] # None /\ p \notin written \cup buffered
  /\ buffered' = buffered \cup {p}
  /\ UNCHANGED <<tables, tx, told>>

\* A drain that finds the report: its UPDATE meets the row, or none after a delete.
Drain(p) ==
  /\ p \in buffered
  /\ \A s \in Slots : tx[s] # Idle => p \notin DroppingReports(tx[s])
  /\ buffered' = buffered \ {p}
  /\ written' = IF placed[p] = None THEN written ELSE written \cup {p}
  /\ UNCHANGED <<event, user, placed, count, tx, told>>

\* No drain writes it: the directory no longer lists the user, or the UPDATE
\* fails, and the hash expires.
Lose(p) ==
  /\ p \in buffered
  /\ buffered' = buffered \ {p}
  /\ UNCHANGED <<tables, tx, told>>

CreateUser(u, org) ==
  /\ "user" \in Ops /\ user[u] = Absent
  /\ user' = [user EXCEPT ![u] = [org |-> org, active |-> TRUE]]
  /\ UNCHANGED <<event, placed, written, count, buffered, tx, told>>

\* update_user transfers, deactivates or activates; delete_user deactivates.
UpdateUser(u, org, active) ==
  /\ "user" \in Ops /\ Exists(user[u])
  /\ user' = [user EXCEPT ![u] = [org |-> org, active |-> active]]
  /\ UNCHANGED <<event, placed, written, count, buffered, tx, told>>

\* Mutant: the three IS NULL conditions are missing.
BackfilledAll ==
  [p \in Pairs |-> IF placed[p] # None /\ Exists(user[p[2]]) THEN user[p[2]].org ELSE placed[p]]

\* UPDATE safety_reports ... FROM users, where all three snapshots are NULL.
Backfilled ==
  [p \in Pairs |-> IF placed[p] = Unknown /\ Exists(user[p[2]]) THEN user[p[2]].org ELSE placed[p]]

\* Whether a transaction holds a lock on safety_reports, by reading or writing it.
TouchesReports(t) ==
  \/ t.op \in {"trigger", "topup"}
  \/ t.op \in {"create", "delete", "prune"} /\ t.pc = "commit"

\* The ALTER TABLE of the same transaction locks out all that touch the table,
\* so the backfill is one step.
Backfill ==
  /\ "backfill" \in Ops
  /\ \A s \in Slots : tx[s] # Idle => ~TouchesReports(tx[s])
  /\ placed' = Backfilled
  /\ UNCHANGED <<event, user, written, count, buffered, tx, told>>

-----------------------------------------------------------------------------
Next ==
  \/ \E s \in Slots :
       \/ \E e \in Events :
            \/ \E orgs \in Targets : CreateEvent(s, e, orgs)
            \/ \E patch \in Statuses \cup {None} : UpdateEvent(s, e, patch)
            \/ \E scope \in Scopes : TriggerReminders(s, e, scope)
            \/ DeleteEvent(s, e)
            \/ ReadMissing(s, e)
       \/ InsertPlaceholders(s) \/ CommitCreate(s)
       \/ StartTopUp(s) \/ InsertMissing(s) \/ CommitTopUp(s)
       \/ FlushUpdate(s) \/ CommitUpdate(s)
       \/ Prune(s) \/ DropReminders(s) \/ DropReports(s) \/ CommitDelete(s) \/ CommitPrune(s)
       \/ SelectExisting(s) \/ UpdateReminders(s) \/ InsertReminders(s) \/ CommitTrigger(s)
       \/ Rollback(s)
  \/ \E p \in Pairs : Report(p) \/ Drain(p) \/ Lose(p)
  \/ \E u \in Users, org \in Orgs :
       \/ CreateUser(u, org)
       \/ \E active \in BOOLEAN : UpdateUser(u, org, active)
  \/ Backfill

Spec == Init /\ [][Next]_vars

\* Every transaction ends: the pod commits it, or PostgreSQL rolls it back.  A
\* buffered report is drained or expires; nothing says that it is drained.
LiveSpec == Spec /\ (\A s \in Slots : WF_vars(Rollback(s)))
                 /\ (\A p \in Pairs : WF_vars(Drain(p) \/ Lose(p)))

-----------------------------------------------------------------------------
(* Properties *)

\* Every variable has its type.
TypeOK ==
  /\ event \in [Events -> Event \cup {Absent, Gone}]
  /\ user \in [Users -> User \cup {Absent, Gone}]
  /\ placed \in [Pairs -> Orgs \cup {None}]
  /\ written \in SUBSET Pairs
  /\ buffered \in SUBSET Pairs
  /\ count \in [Pairs -> Nat]
  /\ tx \in [Slots -> Tx \cup {Idle}]
  /\ told \in [Pairs -> Nat]

\* However deletes, prunings, top-ups, creations and triggers overlap, no report
\* and no reminder is left that belongs to an event or a user that is gone, and
\* only rows that exist have a status.
NoOrphans ==
  /\ \A p \in Pairs : placed[p] # None \/ count[p] > 0 =>
       Exists(event[p[1]]) /\ Exists(user[p[2]])
  /\ \A p \in written : placed[p] # None

\* An event never loses the row of one of its users, a row never its status and
\* a user never a reminder, except when the event or the user goes with it:
\* nobody sees a half-done delete_event or prune_users, even one that failed.
NothingLost ==
  [][\A p \in Pairs :
       Exists(event'[p[1]]) /\ Exists(user'[p[2]]) =>
         /\ placed[p] # None => placed'[p] # None
         /\ p \in written => p \in written'
         /\ count[p] <= count'[p]]_vars

\* A snapshot that says where a user belonged is never changed by a transfer, a
\* top-up or the backfill (docs/er-diagram.md:85).
KnownSnapshotsFrozen ==
  [][\A p \in Pairs :
       placed[p] \notin {None, Unknown} /\ placed'[p] # None => placed'[p] = placed[p]]_vars

\* An event that was closed becomes active again only by a PATCH that asks for
\* it and had found the event closed: a form saved at the same time does not
\* undo the close.  And a closed event has a closed_at.
CloseStays ==
  [][\A e \in Events :
       Exists(event[e]) /\ Exists(event'[e])
         /\ event[e].status = "closed" /\ event'[e].status = "active" =>
         \E s \in Slots : Running(s, "update", "commit") /\ tx[s].ev = e
                            /\ tx[s].patch = "active" /\ tx[s].old = "closed"]_vars
ClosedAtKnown ==
  \A e \in Events : Exists(event[e]) /\ event[e].status = "closed" => event[e].stamped

\* reminder_count is the number of triggers answered with success that counted
\* the user, for as long as event and user exist: no increment is lost to a
\* concurrent trigger, none is left by one that failed.
CountsAreTriggers ==
  \A p \in Pairs : Exists(event[p[1]]) /\ Exists(user[p[2]]) => count[p] = told[p]

\* A reminded user who has reported still sees the banner, as get_my_reminders
\* looks at the row and not at the buffer.  It ends, and never comes back however
\* often the user is reminded again, unless the report is lost with its hash.
BannerEnds ==
  \A p \in Pairs : p \in buffered ~> ([]~Banner(p) \/ p \notin buffered \cup written)

\* For whoever looks at the tables every handler and job is one step of
\* AtomicEvents, taken when its transaction commits: the statements of others in
\* between, deletes that find half of an event and failures leave no trace.
Presence(x, there) == IF x = Absent THEN "absent" ELSE IF x = Gone THEN "gone" ELSE there

Atomic == INSTANCE AtomicEvents WITH
  event <- [e \in Events |-> Presence(event[e], event[e].status)],
  user <- [u \in Users |-> Presence(user[u], "present")]

HandlersAtomic == Atomic!Spec
=============================================================================
