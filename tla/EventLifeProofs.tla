--------------------------- MODULE EventLifeProofs ---------------------------
(***************************************************************************)
(* EventLife keeps its promises for every number of events, users and      *)
(* transactions.  The invariant says, for each transaction in flight, what *)
(* its locks and constraints keep true of the tables until it commits      *)
(* (Held), and what keeps two of them out of each other's way (Apart).     *)
(***************************************************************************)
EXTENDS EventLife, TLAPS

\* The event is nobody's business before the commit; its users stay once the
\* placeholders are inserted.
CreateHeld(t) ==
  t.op = "create" =>
    /\ event[t.ev] = Absent
    /\ DOMAIN t.placing \subseteq {t.ev} \X Users
    /\ t.pc = "commit" => \A p \in DOMAIN t.placing : Exists(user[p[2]])

\* Inserted placeholders are new, and what they refer to stays.
TopUpHeld(t) ==
  t.op = "topup" =>
    \A p \in DOMAIN t.placing : placed[p] = None /\ Exists(event[p[1]]) /\ Exists(user[p[2]])

UpdateHeld(t) ==
  t.op = "update" =>
    /\ t.patch # t.old
    /\ t.pc = "commit" => Exists(event[t.ev])

DropHeld(t) ==
  t.op \in {"delete", "prune"} =>
    /\ t.rems \subseteq Doomed(t) /\ t.reps \subseteq Doomed(t)
    /\ t.op = "delete" => /\ t.users = Users
                          /\ \E e \in Events : t.events = {e} /\ event[e] # Absent
    /\ t.op = "prune" => t.events = Events /\ \A u \in t.users : user[u] # Absent

\* The row of a user was deleted, and so was the user or the event.
Left(e, u) == event[e] = Gone \/ user[u] = Gone

TriggerHeld(t) ==
  t.op = "trigger" =>
    /\ t.updated \subseteq t.existing /\ t.existing \subseteq t.targets
    /\ event[t.ev] # Absent /\ \A u \in t.targets : user[u] # Absent
    /\ \A u \in t.updated : count[<<t.ev, u>>] > 0
    /\ \A u \in t.existing : count[<<t.ev, u>>] > 0 \/ Left(t.ev, u)
    /\ t.pc = "existing" => t.existing = {}
    /\ t.pc \in {"existing", "update"} => t.updated = {}
    /\ t.pc \in {"insert", "commit"} => \A u \in t.existing \ t.updated : Left(t.ev, u)
    /\ t.pc = "commit" => \A u \in t.targets \ t.existing :
                            count[<<t.ev, u>>] = 0 /\ Exists(event[t.ev]) /\ Exists(user[u])

Held(t) == CreateHeld(t) /\ TopUpHeld(t) /\ UpdateHeld(t) /\ DropHeld(t) /\ TriggerHeld(t)

Apart(t1, t2) ==
  /\ t1.op = "create" /\ t2.op = "create" => t1.ev # t2.ev
  /\ t1.op = "topup" /\ t2.op = "topup" => DOMAIN t1.placing \cap DOMAIN t2.placing = {}
  /\ Updated(t1) \cap Dropping(t2) = {}
  /\ Inserted(t1) \cap Inserted(t2) = {}

InFlight(s) == tx[s] # Idle
AllHeld == \A s \in Slots : InFlight(s) => Held(tx[s])
AllApart == \A q, r \in Slots : q # r /\ InFlight(q) /\ InFlight(r) => Apart(tx[q], tx[r])

\* Nobody has been reminded of an event, or as a user, that is yet to come.
Fresh == \A p \in Pairs : event[p[1]] = Absent \/ user[p[2]] = Absent => told[p] = 0

IInv ==
  /\ TypeOK
  /\ NoOrphans
  /\ ClosedAtKnown
  /\ CountsAreTriggers
  /\ Fresh
  /\ AllHeld
  /\ AllApart

USE OrgsAssumption, TargetsAssumption, SurplusAssumption, ValuesAssumption, BoundAssumption

-----------------------------------------------------------------------------
(* Lemmas about the records and the placeholders *)

\* The op of a transaction tells which record it is.
LEMMA Kinds ==
  ASSUME NEW t \in Tx
  PROVE  /\ t.op = "create" => t \in CreateTx
         /\ t.op = "topup" => t \in TopUpTx
         /\ t.op = "update" => t \in UpdateTx
         /\ t.op \in {"delete", "prune"} => t \in DropTx
         /\ t.op = "trigger" => t \in TriggerTx
         /\ t.op \in {"create", "topup", "update", "delete", "prune", "trigger"}
BY DEF Tx, CreateTx, TopUpTx, UpdateTx, DropTx, TriggerTx

\* A set of placeholders is a function from pairs to the orgs of their users.
LEMMA RowsAre ==
  /\ \A f \in Rows : DOMAIN f \subseteq Pairs /\ \A p \in DOMAIN f : f[p] \in Orgs
  /\ \A D \in SUBSET Pairs : \A f \in [D -> Orgs] : f \in Rows
BY DEF Rows

\* No placeholders are placeholders.
LEMMA NoRowsType == NoRows \in Rows /\ DOMAIN NoRows = {}
<1>1. NoRows \in [{} -> Orgs]
  BY DEF NoRows
<1>. QED  BY <1>1, RowsAre DEF NoRows

\* Two sets of placeholders put together.
LEMMA BothType ==
  ASSUME NEW f \in Rows, NEW g \in Rows
  PROVE  Both(f, g) \in Rows /\ DOMAIN Both(f, g) = DOMAIN f \cup DOMAIN g
<1>1. Both(f, g) \in [DOMAIN f \cup DOMAIN g -> Orgs]
  BY RowsAre DEF Both
<1>. QED  BY <1>1, RowsAre DEF Both

\* The snapshots of users who exist are placeholders.
LEMMA SnapshotsType ==
  ASSUME TypeOK, NEW e \in Events, NEW us \in SUBSET Users,
         \A u \in us : Exists(user[u])
  PROVE  /\ Snapshots(e, us) \in Rows
         /\ DOMAIN Snapshots(e, us) = {e} \X us
<1>1. \A u \in us : user[u].org \in Orgs
  BY DEF TypeOK, User, Exists
<1>2. {e} \X us \subseteq Pairs
  BY DEF Pairs
<1>3. Snapshots(e, us) \in [{e} \X us -> Orgs]
  BY <1>1 DEF Snapshots
<1>. QED  BY <1>2, <1>3, RowsAre DEF Snapshots

\* A transaction in flight is a record, with what Held says of it.
LEMMA Flying ==
  ASSUME IInv, NEW s \in Slots, InFlight(s)
  PROVE  tx[s] \in Tx /\ Held(tx[s])
BY DEF IInv, TypeOK, InFlight, AllHeld
\* A statement that only changes its own transaction keeps the invariant when
\* what the new record claims is so.
LEMMA OnlyTx ==
  ASSUME IInv, NEW s \in Slots, NEW t \in Tx, Become(s, t), UNCHANGED <<tables, buffered, told>>,
         Held(t), \A q \in Open(s) : Apart(t, tx[q]) /\ Apart(tx[q], t)
  PROVE  IInv'
<1>1. tx \in [Slots -> Tx \cup {Idle}] /\ tx' = [tx EXCEPT ![s] = t]
  BY DEF IInv, TypeOK, Become
<1>2. tx'[s] = t /\ \A q \in Slots \ {s} : tx'[q] = tx[q]
  BY <1>1
<1>3. TypeOK'
  BY <1>1 DEF IInv, TypeOK, tables
<1>4. NoOrphans' /\ ClosedAtKnown' /\ CountsAreTriggers' /\ Fresh'
  BY DEF IInv, NoOrphans, ClosedAtKnown, CountsAreTriggers, Fresh, tables, Exists
<1>5. \A r \in Tx : Held(r) => Held(r)'
  BY DEF tables, Held, CreateHeld, TopUpHeld, UpdateHeld, DropHeld, TriggerHeld, Left, Exists,
         Doomed
<1>6. AllHeld'
  <2> SUFFICES ASSUME NEW q \in Slots, InFlight(q)'
               PROVE  Held(tx[q])'
    BY DEF AllHeld
  <2>1. CASE q = s
    BY <2>1, <1>2, <1>5
  <2>2. CASE q # s
    <3>1. InFlight(q)
      BY <2>2, <1>2 DEF InFlight
    <3>. QED  BY <3>1, <2>2, <1>2, <1>5, Flying
  <2>. QED  BY <2>1, <2>2
<1>7. AllApart'
  BY <1>2 DEF IInv, AllApart, Open, InFlight
<1>. QED  BY <1>3, <1>4, <1>6, <1>7 DEF IInv

\* A commit or a rollback keeps the invariant of the others when their claims
\* about the tables stay true.
LEMMA Finished ==
  ASSUME IInv, NEW s \in Slots, Become(s, Idle),
         \A q \in Slots \ {s} : \A t \in Tx : tx[q] = t /\ Held(t) => Held(t)'
  PROVE  AllHeld' /\ AllApart' /\ tx' \in [Slots -> Tx \cup {Idle}]
<1>1. tx \in [Slots -> Tx \cup {Idle}] /\ tx' = [tx EXCEPT ![s] = Idle]
  BY DEF IInv, TypeOK, Become
<1>2. tx'[s] = Idle /\ \A q \in Slots \ {s} : tx'[q] = tx[q]
  BY <1>1
<1>3. AllHeld'
  <2> SUFFICES ASSUME NEW q \in Slots, InFlight(q)'
               PROVE  Held(tx[q])'
    BY DEF AllHeld
  <2>1. q # s /\ tx'[q] = tx[q] /\ InFlight(q)
    BY <1>2 DEF InFlight
  <2>2. PICK t \in Tx : t = tx[q] /\ Held(t)
    BY <2>1, Flying
  <2>. QED  BY <2>1, <2>2
<1>4. AllApart'
  BY <1>2 DEF IInv, AllApart, InFlight
<1>. QED  BY <1>1, <1>3, <1>4

\* A step of no transaction keeps the claims of all that stay true.
LEMMA Outside ==
  ASSUME IInv, UNCHANGED tx, \A t \in Tx : Held(t) => Held(t)'
  PROVE  AllHeld' /\ AllApart'
<1>1. AllHeld'
  <2> SUFFICES ASSUME NEW q \in Slots, InFlight(q)'
               PROVE  Held(tx[q])'
    BY DEF AllHeld
  <2>1. PICK t \in Tx : t = tx[q] /\ Held(t)
    BY Flying DEF InFlight
  <2>. QED  BY <2>1
<1>. QED  BY <1>1 DEF IInv, AllApart, InFlight
-----------------------------------------------------------------------------
(* The statements of create_event and of the top-up *)

\* The tables start empty but for some users, and nothing is in flight.
LEMMA InitInv == Init => IInv
<1> SUFFICES ASSUME Init
             PROVE  IInv
  OBVIOUS
<1>1. TypeOK
  BY DEF Init, TypeOK, User
<1>2. NoOrphans /\ CountsAreTriggers /\ Fresh
  BY DEF Init, NoOrphans, CountsAreTriggers, Fresh
<1>3. ClosedAtKnown
  BY DEF Init, ClosedAtKnown, Exists
<1>4. AllHeld /\ AllApart
  BY DEF Init, AllHeld, AllApart, InFlight
<1>. QED  BY <1>1, <1>2, <1>3, <1>4 DEF IInv

\* INSERT of the event: its id is in no other creation.
LEMMA CreateEventKeeps ==
  ASSUME IInv, NEW s \in Slots, NEW e \in Events, NEW orgs \in Targets, CreateEvent(s, e, orgs)
  PROVE  IInv'
<1> DEFINE us == {u \in Users : Concerned(u, orgs)}
           t == [op |-> "create", pc |-> "insert", ev |-> e, orgs |-> orgs,
                 placing |-> Snapshots(e, us)]
<1>1. \A u \in us : Exists(user[u])
  BY DEF Concerned
<1>2. Snapshots(e, us) \in Rows /\ DOMAIN Snapshots(e, us) = {e} \X us
  <2> us \in SUBSET Users
    OBVIOUS
  <2> HIDE DEF us
  <2>. QED  BY <1>1, SnapshotsType DEF IInv
<1> HIDE DEF us
<1>3. t \in Tx
  BY <1>2 DEF Tx, CreateTx
<1>4. us \subseteq Users
  BY DEF us
<1>5. Held(t)
  BY <1>2, <1>4 DEF CreateEvent, Held, CreateHeld, TopUpHeld, UpdateHeld, DropHeld, TriggerHeld
<1>6. \A q \in Open(s) : Apart(t, tx[q]) /\ Apart(tx[q], t)
  BY DEF CreateEvent, Apart, Updated, Dropping, Inserted
<1>7. Become(s, t) /\ UNCHANGED <<tables, buffered, told>>
  BY DEF CreateEvent, us
<1> HIDE DEF t
<1>. QED  BY <1>3, <1>5, <1>6, <1>7, OnlyTx

\* The foreign keys have seen every user, and hold them from now on.
LEMMA InsertPlaceholdersKeeps ==
  ASSUME IInv, NEW s \in Slots, InsertPlaceholders(s)
  PROVE  IInv'
<1> DEFINE t == [tx[s] EXCEPT !.pc = "commit"]
<1>1. tx[s] \in CreateTx /\ Held(tx[s]) /\ tx[s].op = "create"
  BY Flying, Kinds DEF InsertPlaceholders, Running, InFlight
<1>2. t \in Tx /\ t.op = "create" /\ t.ev = tx[s].ev /\ t.placing = tx[s].placing
  BY <1>1 DEF CreateTx, Tx
<1>3. Held(t)
  BY <1>1, <1>2 DEF InsertPlaceholders, Held, CreateHeld, TopUpHeld, UpdateHeld, DropHeld, TriggerHeld
<1>4. ASSUME NEW q \in Open(s)
      PROVE  Apart(t, tx[q]) /\ Apart(tx[q], t)
  <2>1. Apart(tx[s], tx[q]) /\ Apart(tx[q], tx[s])
    BY DEF IInv, AllApart, Open, InFlight, InsertPlaceholders, Running
  <2>. QED  BY <2>1, <1>1, <1>2 DEF Apart, Updated, Dropping, Inserted
<1>5. Become(s, t) /\ UNCHANGED <<tables, buffered, told>>
  BY DEF InsertPlaceholders
<1> HIDE DEF t
<1>. QED  BY <1>2, <1>3, <1>4, <1>5, OnlyTx
\* What is known of another transaction in flight.
LEMMA Neighbours ==
  ASSUME IInv, NEW s \in Slots, NEW q \in Open(s)
  PROVE  /\ tx[q] \in Tx /\ Held(tx[q])
         /\ InFlight(s) => Apart(tx[s], tx[q]) /\ Apart(tx[q], tx[s])
BY Flying DEF IInv, AllApart, Open, InFlight

\* A top-up starts without any placeholder of its own.
LEMMA StartTopUpKeeps ==
  ASSUME IInv, NEW s \in Slots, StartTopUp(s)
  PROVE  IInv'
<1> DEFINE D == {f \in Events : Exists(event[f]) /\ event[f].status = "active"}
           todo == [e \in D |-> event[e].orgs]
           t == [op |-> "topup", pc |-> "next", todo |-> todo,
                 missing |-> NoRows, placing |-> NoRows]
<1>1. todo \in [D -> SUBSET Orgs]
  BY DEF IInv, TypeOK, Event, Exists
<1>2. D \in SUBSET Events
  OBVIOUS
<1>3. Become(s, t) /\ UNCHANGED <<tables, buffered, told>>
  BY DEF StartTopUp
<1> HIDE DEF D, todo
<1>4. t \in Tx
  BY <1>1, <1>2, NoRowsType DEF Tx, TopUpTx
<1>5. Held(t)
  BY NoRowsType DEF Held, CreateHeld, TopUpHeld, UpdateHeld, DropHeld, TriggerHeld
<1>6. \A q \in Open(s) : Apart(t, tx[q]) /\ Apart(tx[q], t)
  BY NoRowsType DEF Apart, Updated, Dropping, Inserted
<1> HIDE DEF t
<1>. QED  BY <1>3, <1>4, <1>5, <1>6, OnlyTx

\* Reading who is missing claims nothing about the tables.
LEMMA ReadMissingKeeps ==
  ASSUME IInv, NEW s \in Slots, NEW e \in Events, ReadMissing(s, e)
  PROVE  IInv'
<1> DEFINE us == {u \in Users : Concerned(u, tx[s].todo[e]) /\ placed[<<e, u>>] = None}
           todo == [f \in DOMAIN tx[s].todo \ {e} |-> tx[s].todo[f]]
           t == [tx[s] EXCEPT !.todo = todo, !.missing = Snapshots(e, us),
                              !.pc = IF us = {} THEN "next" ELSE "insert"]
<1>1. tx[s] \in TopUpTx /\ Held(tx[s]) /\ tx[s].op = "topup" /\ InFlight(s)
  BY Flying, Kinds DEF ReadMissing, Running, InFlight
<1>2. Snapshots(e, us) \in Rows
  <2>1. us \in SUBSET Users /\ \A u \in us : Exists(user[u])
    BY DEF Concerned
  <2> HIDE DEF us
  <2>. QED  BY <2>1, SnapshotsType DEF IInv
<1>3. PICK D \in SUBSET Events : tx[s].todo \in [D -> SUBSET Orgs]
  BY <1>1 DEF TopUpTx
<1>4. todo \in [D \ {e} -> SUBSET Orgs] /\ D \ {e} \in SUBSET Events
  BY <1>3
<1>5. Become(s, t) /\ UNCHANGED <<tables, buffered, told>>
  BY DEF ReadMissing
<1> HIDE DEF us, todo
<1>6. t \in Tx /\ t.op = "topup" /\ t.placing = tx[s].placing
  <2>1. todo \in UNION {[C -> SUBSET Orgs] : C \in SUBSET Events}
    BY <1>4
  <2>2. t \in TopUpTx
    BY <1>1, <1>2, <2>1 DEF TopUpTx
  <2>. QED  BY <1>1, <2>2 DEF Tx, TopUpTx
<1>7. Held(t)
  BY <1>1, <1>6 DEF Held, CreateHeld, TopUpHeld, UpdateHeld, DropHeld, TriggerHeld
<1>8. ASSUME NEW q \in Open(s)
      PROVE  Apart(t, tx[q]) /\ Apart(tx[q], t)
  <2> HIDE DEF t
  <2>. QED  BY <1>1, <1>6, Neighbours DEF Apart, Updated, Dropping, Inserted
<1> HIDE DEF t
<1>. QED  BY <1>5, <1>6, <1>7, <1>8, OnlyTx

\* Rows that are inserted are new, and in no other top-up.
LEMMA InsertMissingKeeps ==
  ASSUME IInv, NEW s \in Slots, InsertMissing(s)
  PROVE  IInv'
<1> DEFINE both == Both(tx[s].placing, tx[s].missing)
           t == [tx[s] EXCEPT !.pc = "next", !.missing = NoRows, !.placing = both]
<1>1. tx[s] \in TopUpTx /\ Held(tx[s]) /\ tx[s].op = "topup" /\ InFlight(s)
  BY Flying, Kinds DEF InsertMissing, Running, InFlight
<1>2. tx[s].placing \in Rows /\ tx[s].missing \in Rows
  BY <1>1 DEF TopUpTx
<1>3. both \in Rows /\ DOMAIN both = DOMAIN tx[s].placing \cup DOMAIN tx[s].missing
  BY <1>2, BothType
<1>4. Become(s, t) /\ UNCHANGED <<tables, buffered, told>>
  BY DEF InsertMissing
<1> HIDE DEF both
<1>5. t \in Tx /\ t.op = "topup" /\ t.placing = both
  BY <1>1, <1>3, NoRowsType DEF Tx, TopUpTx
<1> HIDE DEF t
<1>6. Held(t)
  BY <1>1, <1>3, <1>5
     DEF InsertMissing, Held, CreateHeld, TopUpHeld, UpdateHeld, DropHeld, TriggerHeld
<1>7. ASSUME NEW q \in Open(s)
      PROVE  Apart(t, tx[q]) /\ Apart(tx[q], t)
  <2>1. Apart(tx[s], tx[q]) /\ Apart(tx[q], tx[s])
    BY <1>1, Neighbours
  <2>2. tx[q].op = "topup" => DOMAIN both \cap DOMAIN tx[q].placing = {}
    BY <1>1, <1>3, <2>1 DEF Apart, InsertMissing, Placing
  <2>. QED  BY <2>1, <2>2, <1>1, <1>5 DEF Apart, Updated, Dropping, Inserted
<1>. QED  BY <1>4, <1>5, <1>6, <1>7, OnlyTx
-----------------------------------------------------------------------------
(* The statements of update_event, delete_event and prune_users *)

\* Loading the event: a PATCH asks for another status than it finds.
LEMMA UpdateEventKeeps ==
  ASSUME IInv, NEW s \in Slots, NEW e \in Events, NEW patch \in Statuses \cup {None},
         UpdateEvent(s, e, patch)
  PROVE  IInv'
<1> DEFINE t == [op |-> "update", pc |-> "flush", ev |-> e,
                 patch |-> patch, old |-> event[e].status]
<1>1. event[e].status \in Statuses
  BY DEF IInv, TypeOK, UpdateEvent, Event, Exists
<1>2. t \in Tx
  BY <1>1 DEF Tx, UpdateTx
<1>3. Held(t)
  BY DEF UpdateEvent, Held, CreateHeld, TopUpHeld, UpdateHeld, DropHeld, TriggerHeld
<1>4. \A q \in Open(s) : Apart(t, tx[q]) /\ Apart(tx[q], t)
  BY DEF Apart, Updated, Dropping, Inserted
<1>5. Become(s, t) /\ UNCHANGED <<tables, buffered, told>>
  BY DEF UpdateEvent
<1> HIDE DEF t
<1>. QED  BY <1>2, <1>3, <1>4, <1>5, OnlyTx

\* The UPDATE finds the event, which stays while it holds the row.
LEMMA FlushUpdateKeeps ==
  ASSUME IInv, NEW s \in Slots, FlushUpdate(s)
  PROVE  IInv'
<1> DEFINE t == [tx[s] EXCEPT !.pc = "commit"]
<1>1. tx[s] \in UpdateTx /\ Held(tx[s]) /\ tx[s].op = "update" /\ InFlight(s)
  BY Flying, Kinds DEF FlushUpdate, Running, InFlight
<1>2. t \in Tx /\ t.op = "update" /\ t.ev = tx[s].ev /\ t.patch = tx[s].patch /\ t.old = tx[s].old
  BY <1>1 DEF UpdateTx, Tx
<1>3. Become(s, t) /\ UNCHANGED <<tables, buffered, told>>
  BY DEF FlushUpdate
<1> HIDE DEF t
<1>4. Held(t)
  BY <1>1, <1>2 DEF FlushUpdate, Held, CreateHeld, TopUpHeld, UpdateHeld, DropHeld, TriggerHeld
<1>5. \A q \in Open(s) : Apart(t, tx[q]) /\ Apart(tx[q], t)
  BY <1>2 DEF Apart, Updated, Dropping, Inserted
<1>. QED  BY <1>2, <1>3, <1>4, <1>5, OnlyTx

\* A delete starts from an event that is there.
LEMMA DeleteEventKeeps ==
  ASSUME IInv, NEW s \in Slots, NEW e \in Events, DeleteEvent(s, e)
  PROVE  IInv'
<1> DEFINE t == Drop("delete", {e}, Users)
<1>1. t \in Tx
  BY DEF Drop, Tx, DropTx
<1>2. Held(t)
  BY DEF DeleteEvent, Drop, Exists, Held, CreateHeld, TopUpHeld, UpdateHeld, DropHeld, TriggerHeld
<1>3. \A q \in Open(s) : Apart(t, tx[q]) /\ Apart(tx[q], t)
  BY DEF Drop, Apart, Updated, Dropping, Inserted
<1>4. Become(s, t) /\ UNCHANGED <<tables, buffered, told>>
  BY DEF DeleteEvent
<1> HIDE DEF t
<1>. QED  BY <1>1, <1>2, <1>3, <1>4, OnlyTx

\* A pruning starts from the users it has selected.
LEMMA PruneKeeps ==
  ASSUME IInv, NEW s \in Slots, Prune(s)
  PROVE  IInv'
<1> DEFINE us == {u \in Surplus : Exists(user[u])}
           t == Drop("prune", Events, us)
<1>1. us \in SUBSET Users /\ \A u \in us : user[u] # Absent
  BY DEF Exists
<1>2. Become(s, t) /\ UNCHANGED <<tables, buffered, told>>
  BY DEF Prune
<1> HIDE DEF us
<1>3. t \in Tx
  BY <1>1 DEF Drop, Tx, DropTx
<1>4. Held(t)
  BY <1>1 DEF Drop, Held, CreateHeld, TopUpHeld, UpdateHeld, DropHeld, TriggerHeld
<1>5. \A q \in Open(s) : Apart(t, tx[q]) /\ Apart(tx[q], t)
  BY DEF Drop, Apart, Updated, Dropping, Inserted
<1> HIDE DEF t
<1>. QED  BY <1>2, <1>3, <1>4, <1>5, OnlyTx

\* A row that is dropped is locked by no trigger.
LEMMA DropRemindersKeeps ==
  ASSUME IInv, NEW s \in Slots, DropReminders(s)
  PROVE  IInv'
<1> DEFINE rems == {p \in Doomed(tx[s]) : count[p] > 0}
           t == [tx[s] EXCEPT !.pc = "reports", !.rems = rems]
<1>1. tx[s] \in DropTx /\ Held(tx[s]) /\ InFlight(s)
  BY Flying, Kinds DEF DropReminders, InFlight
<1>2. rems \in SUBSET Pairs
  BY <1>1 DEF DropTx, Doomed, Pairs
<1>3. Become(s, t) /\ UNCHANGED <<tables, buffered, told>>
  BY DEF DropReminders
<1>4. rems \cap LockedReminders(s) = {} /\ rems \subseteq Doomed(tx[s])
  BY DEF DropReminders
<1> HIDE DEF rems
<1>5. t \in Tx /\ t = [tx[s] EXCEPT !.pc = "reports", !.rems = rems]
  BY <1>1, <1>2 DEF DropTx, Tx
<1>6. /\ t.op = tx[s].op /\ t.events = tx[s].events /\ t.users = tx[s].users
      /\ t.rems = rems /\ t.reps = tx[s].reps /\ t.op \in {"delete", "prune"}
  BY <1>1 DEF DropTx
<1> HIDE DEF t
<1>7. Held(t)
  BY <1>1, <1>4, <1>6 DEF Held, CreateHeld, TopUpHeld, UpdateHeld, DropHeld, TriggerHeld, Doomed
<1>8. ASSUME NEW q \in Open(s)
      PROVE  Apart(t, tx[q]) /\ Apart(tx[q], t)
  <2>1. Updated(tx[q]) \cap rems = {}
    BY <1>4 DEF LockedReminders
  <2>. QED  BY <2>1, <1>6 DEF Apart, Updated, Dropping, Inserted
<1>. QED  BY <1>3, <1>5, <1>7, <1>8, OnlyTx

\* The reports that are dropped are of the doomed pairs.
LEMMA DropReportsKeeps ==
  ASSUME IInv, NEW s \in Slots, DropReports(s)
  PROVE  IInv'
<1> DEFINE reps == {p \in Doomed(tx[s]) : placed[p] # None}
           t == [tx[s] EXCEPT !.pc = "commit", !.reps = reps]
<1>1. tx[s] \in DropTx /\ Held(tx[s]) /\ InFlight(s)
  BY Flying, Kinds DEF DropReports, InFlight
<1>2. reps \in SUBSET Pairs /\ reps \subseteq Doomed(tx[s])
  BY <1>1 DEF DropTx, Doomed, Pairs
<1>3. Become(s, t) /\ UNCHANGED <<tables, buffered, told>>
  BY DEF DropReports
<1> HIDE DEF reps
<1>4. t \in Tx
  BY <1>1, <1>2 DEF DropTx, Tx
<1>5. /\ t.op = tx[s].op /\ t.events = tx[s].events /\ t.users = tx[s].users
      /\ t.rems = tx[s].rems /\ t.reps = reps /\ t.op \in {"delete", "prune"}
  BY <1>1 DEF DropTx
<1> HIDE DEF t
<1>6. Held(t)
  BY <1>1, <1>2, <1>5 DEF Held, CreateHeld, TopUpHeld, UpdateHeld, DropHeld, TriggerHeld, Doomed
<1>7. ASSUME NEW q \in Open(s)
      PROVE  Apart(t, tx[q]) /\ Apart(tx[q], t)
  <2>1. Apart(tx[s], tx[q]) /\ Apart(tx[q], tx[s])
    BY <1>1, Neighbours
  <2>. QED  BY <2>1, <1>5 DEF Apart, Updated, Dropping, Inserted
<1>. QED  BY <1>3, <1>4, <1>6, <1>7, OnlyTx
-----------------------------------------------------------------------------
(* The statements of trigger_reminders, and rollbacks *)

\* Whoever has a row belongs to an event and is a user, neither yet to come.
LEMMA TriggerRemindersKeeps ==
  ASSUME IInv, NEW s \in Slots, NEW e \in Events, NEW scope \in Scopes,
         TriggerReminders(s, e, scope)
  PROVE  IInv'
<1> DEFINE targets == {u \in Users : placed[<<e, u>>] \in scope
                                       /\ <<e, u>> \notin written /\ user[u].active}
           t == [op |-> "trigger", pc |-> "existing", ev |-> e, targets |-> targets,
                 existing |-> {}, updated |-> {}]
<1>1. event[e] # Absent /\ \A u \in targets : user[u] # Absent
  <2>1. PICK u \in targets : TRUE
    BY DEF TriggerReminders
  <2>2. \A v \in targets : placed[<<e, v>>] # None
    OBVIOUS
  <2>3. \A v \in targets : <<e, v>> \in Pairs
    BY DEF Pairs
  <2> HIDE DEF targets
  <2>4. ASSUME NEW v \in targets
        PROVE  event[e] # Absent /\ user[v] # Absent
    <3>1. \A p \in Pairs : placed[p] # None => Exists(event[p[1]]) /\ Exists(user[p[2]])
      BY DEF IInv, NoOrphans
    <3>2. Exists(event[e]) /\ Exists(user[v])
      BY <2>2, <2>3, <3>1
    <3>. QED  BY <3>2 DEF Exists
  <2>. QED  BY <2>1, <2>4
<1>2. targets \in SUBSET Users
  OBVIOUS
<1>3. Become(s, t) /\ UNCHANGED <<tables, buffered, told>>
  BY DEF TriggerReminders
<1> HIDE DEF targets
<1>4. t \in Tx
  BY <1>2 DEF Tx, TriggerTx
<1>5. Held(t)
  BY <1>1 DEF Held, CreateHeld, TopUpHeld, UpdateHeld, DropHeld, TriggerHeld
<1>6. \A q \in Open(s) : Apart(t, tx[q]) /\ Apart(tx[q], t)
  BY DEF Apart, Updated, Dropping, Inserted
<1> HIDE DEF t
<1>. QED  BY <1>3, <1>4, <1>5, <1>6, OnlyTx

\* The existing rows are those with a count.
LEMMA SelectExistingKeeps ==
  ASSUME IInv, NEW s \in Slots, SelectExisting(s)
  PROVE  IInv'
<1> DEFINE existing == {u \in tx[s].targets : count[<<tx[s].ev, u>>] > 0}
           t == [tx[s] EXCEPT !.pc = "update", !.existing = existing]
<1>1. tx[s] \in TriggerTx /\ Held(tx[s]) /\ tx[s].op = "trigger" /\ tx[s].pc = "existing"
  BY Flying, Kinds DEF SelectExisting, Running, InFlight
<1>2. /\ existing \in SUBSET Users /\ existing \subseteq tx[s].targets
      /\ \A u \in existing : count[<<tx[s].ev, u>>] > 0
  BY <1>1 DEF TriggerTx
<1>3. Become(s, t) /\ UNCHANGED <<tables, buffered, told>>
  BY DEF SelectExisting
<1> HIDE DEF existing
<1>4. t \in Tx
  BY <1>1, <1>2 DEF TriggerTx, Tx
<1>5. /\ t.op = "trigger" /\ t.pc = "update" /\ t.ev = tx[s].ev /\ t.targets = tx[s].targets
      /\ t.existing = existing /\ t.updated = tx[s].updated
  BY <1>1 DEF TriggerTx
<1> HIDE DEF t
<1>6. Held(t)
  BY <1>1, <1>2, <1>5 DEF Held, CreateHeld, TopUpHeld, UpdateHeld, DropHeld, TriggerHeld
<1>7. \A q \in Open(s) : Apart(t, tx[q]) /\ Apart(tx[q], t)
  <2>1. t.updated = {}
    BY <1>1, <1>5 DEF Held, TriggerHeld
  <2>. QED  BY <2>1, <1>5 DEF Apart, Updated, Dropping, Inserted
<1>. QED  BY <1>3, <1>4, <1>6, <1>7, OnlyTx

\* A row that is skipped was deleted with its event or its user.
LEMMA UpdateRemindersKeeps ==
  ASSUME IInv, NEW s \in Slots, UpdateReminders(s)
  PROVE  IInv'
<1> DEFINE updated == {u \in tx[s].existing : count[<<tx[s].ev, u>>] > 0}
           t == [tx[s] EXCEPT !.pc = "insert", !.updated = updated]
<1>1. tx[s] \in TriggerTx /\ Held(tx[s]) /\ tx[s].op = "trigger" /\ tx[s].pc = "update"
  BY Flying, Kinds DEF UpdateReminders, Running, InFlight
<1>2. /\ updated \in SUBSET Users /\ updated \subseteq tx[s].existing
      /\ \A u \in tx[s].existing : u \in updated <=> count[<<tx[s].ev, u>>] > 0
  BY <1>1 DEF TriggerTx
<1>3. Become(s, t) /\ UNCHANGED <<tables, buffered, told>>
  BY DEF UpdateReminders
<1> HIDE DEF updated
<1>4. t \in Tx
  BY <1>1, <1>2 DEF TriggerTx, Tx
<1>5. /\ t.op = "trigger" /\ t.pc = "insert" /\ t.ev = tx[s].ev /\ t.targets = tx[s].targets
      /\ t.existing = tx[s].existing /\ t.updated = updated
  BY <1>1 DEF TriggerTx
<1> HIDE DEF t
<1>6. Held(t)
  BY <1>1, <1>2, <1>5 DEF Held, CreateHeld, TopUpHeld, UpdateHeld, DropHeld, TriggerHeld
<1>7. ASSUME NEW q \in Open(s)
      PROVE  Apart(t, tx[q]) /\ Apart(tx[q], t)
  <2>1. ({tx[s].ev} \X tx[s].existing) \cap Dropping(tx[q]) = {}
    BY DEF UpdateReminders, LockedReminders
  <2>2. Updated(t) \subseteq {tx[s].ev} \X tx[s].existing
    BY <1>2, <1>5 DEF Updated
  <2>. QED  BY <2>1, <2>2, <1>5 DEF Apart, Dropping, Inserted
<1>. QED  BY <1>3, <1>4, <1>6, <1>7, OnlyTx

\* What is inserted has no row, in no transaction.
LEMMA InsertRemindersKeeps ==
  ASSUME IInv, NEW s \in Slots, InsertReminders(s)
  PROVE  IInv'
<1> DEFINE new == tx[s].targets \ tx[s].existing
           t == [tx[s] EXCEPT !.pc = "commit"]
<1>1. tx[s] \in TriggerTx /\ Held(tx[s]) /\ Running(s, "trigger", "insert") /\ InFlight(s)
  BY Flying, Kinds DEF InsertReminders, Running, InFlight
<1>2. /\ \A q \in Open(s) : ({tx[s].ev} \X new) \cap Inserted(tx[q]) = {}
      /\ \A u \in new : Exists(event[tx[s].ev]) /\ Exists(user[u]) /\ count[<<tx[s].ev, u>>] = 0
  BY DEF InsertReminders
<1>3. Become(s, t) /\ UNCHANGED <<tables, buffered, told>>
  BY DEF InsertReminders
<1>4. t \in Tx
  BY <1>1 DEF TriggerTx, Tx
<1>5. /\ t.op = "trigger" /\ t.pc = "commit" /\ t.ev = tx[s].ev /\ t.targets = tx[s].targets
      /\ t.existing = tx[s].existing /\ t.updated = tx[s].updated
  BY <1>1 DEF TriggerTx, Running
<1> HIDE DEF t
<1>6. Held(t)
  BY <1>1, <1>2, <1>5
     DEF Running, Held, CreateHeld, TopUpHeld, UpdateHeld, DropHeld, TriggerHeld
<1>7. ASSUME NEW q \in Open(s)
      PROVE  Apart(t, tx[q]) /\ Apart(tx[q], t)
  <2>1. Apart(tx[s], tx[q]) /\ Apart(tx[q], tx[s])
    BY <1>1, Neighbours
  <2>2. Inserted(t) = {tx[s].ev} \X new
    BY <1>5 DEF Inserted
  <2>3. Updated(t) = Updated(tx[s])
    BY <1>1, <1>5 DEF Updated, Running
  <2>. QED  BY <1>2, <2>1, <2>2, <2>3, <1>5 DEF Apart, Dropping
<1>. QED  BY <1>3, <1>4, <1>6, <1>7, OnlyTx

\* A rollback leaves the tables and the others alone.
LEMMA RollbackKeeps ==
  ASSUME IInv, NEW s \in Slots, Rollback(s)
  PROVE  IInv'
<1>1. UNCHANGED <<tables, buffered, told>> /\ Become(s, Idle)
  BY DEF Rollback
<1>2. AllHeld' /\ AllApart' /\ tx' \in [Slots -> Tx \cup {Idle}]
  <2>1. \A t \in Tx : Held(t) => Held(t)'
    BY <1>1 DEF tables, Held, CreateHeld, TopUpHeld, UpdateHeld, DropHeld, TriggerHeld, Left,
                Exists, Doomed
  <2>. QED  BY <1>1, <2>1, Finished
<1>3. TypeOK'
  BY <1>1, <1>2 DEF IInv, TypeOK, tables
<1>4. NoOrphans' /\ ClosedAtKnown' /\ CountsAreTriggers' /\ Fresh'
  BY <1>1 DEF IInv, NoOrphans, ClosedAtKnown, CountsAreTriggers, Fresh, tables, Exists
<1>. QED  BY <1>2, <1>3, <1>4 DEF IInv
-----------------------------------------------------------------------------
(* The commits *)

\* Placing rows changes those pairs and no others.
LEMMA PlacedType ==
  ASSUME TypeOK, NEW rows \in Rows
  PROVE  /\ Placed(rows) \in [Pairs -> Orgs \cup {None}]
         /\ \A p \in Pairs : IF p \in DOMAIN rows THEN Placed(rows)[p] \in Orgs
                                                  ELSE Placed(rows)[p] = placed[p]
BY RowsAre DEF Placed, TypeOK

\* The new event takes the place of none, and of no row.
LEMMA CommitCreateSteps ==
  ASSUME IInv, NEW s \in Slots, CommitCreate(s)
  PROVE  /\ tx[s].ev \in Events /\ tx[s].placing \in Rows
         /\ DOMAIN tx[s].placing \subseteq {tx[s].ev} \X Users
         /\ \A p \in DOMAIN tx[s].placing : placed[p] = None /\ Exists(user[p[2]])
         /\ event[tx[s].ev] = Absent /\ event'[tx[s].ev] \in Event
         /\ \A e \in Events \ {tx[s].ev} : event'[e] = event[e]
         /\ event' \in [Events -> Event \cup {Absent, Gone}]
         /\ \A p \in Pairs : p[1] = tx[s].ev => placed[p] = None /\ count[p] = 0 /\ told[p] = 0
<1>1. tx[s] \in CreateTx /\ Held(tx[s]) /\ tx[s].op = "create" /\ tx[s].pc = "commit"
  BY Flying, Kinds DEF CommitCreate, Running, InFlight
<1>2. tx[s].ev \in Events /\ tx[s].placing \in Rows /\ tx[s].orgs \in SUBSET Orgs
  BY <1>1 DEF CreateTx
<1>3. /\ event[tx[s].ev] = Absent /\ DOMAIN tx[s].placing \subseteq {tx[s].ev} \X Users
      /\ \A p \in DOMAIN tx[s].placing : Exists(user[p[2]])
  BY <1>1 DEF Held, CreateHeld
<1>4. [status |-> "active", stamped |-> FALSE, orgs |-> tx[s].orgs] \in Event
  BY <1>2 DEF Event, Statuses
<1>5. /\ event'[tx[s].ev] \in Event
      /\ \A e \in Events \ {tx[s].ev} : event'[e] = event[e]
      /\ event' \in [Events -> Event \cup {Absent, Gone}]
  BY <1>2, <1>4 DEF CommitCreate, IInv, TypeOK
<1>6. \A p \in Pairs : p[1] = tx[s].ev => placed[p] = None /\ count[p] = 0 /\ told[p] = 0
  BY <1>3 DEF IInv, TypeOK, NoOrphans, Fresh, Exists
<1>7. \A p \in DOMAIN tx[s].placing : placed[p] = None
  BY <1>2, <1>3, <1>6, RowsAre
<1>. QED  BY <1>2, <1>3, <1>5, <1>6, <1>7

\* A new event brings rows where there were none, and no reminder.
LEMMA CommitCreateKeeps ==
  ASSUME IInv, NEW s \in Slots, CommitCreate(s)
  PROVE  IInv'
<1> DEFINE ev == tx[s].ev
           rows == tx[s].placing
<1>1. /\ ev \in Events /\ rows \in Rows /\ DOMAIN rows \subseteq {ev} \X Users
      /\ \A p \in DOMAIN rows : placed[p] = None /\ Exists(user[p[2]])
      /\ event[ev] = Absent /\ event'[ev] \in Event
      /\ \A e \in Events \ {ev} : event'[e] = event[e]
      /\ event' \in [Events -> Event \cup {Absent, Gone}]
      /\ \A p \in Pairs : p[1] = ev => placed[p] = None /\ count[p] = 0 /\ told[p] = 0
  BY CommitCreateSteps
<1>2. UNCHANGED <<user, written, buffered, count, told>> /\ Become(s, Idle)
  BY DEF CommitCreate
<1>3. /\ placed' \in [Pairs -> Orgs \cup {None}]
      /\ \A p \in Pairs : IF p \in DOMAIN rows THEN placed'[p] \in Orgs
                                               ELSE placed'[p] = placed[p]
  BY <1>1, PlacedType DEF CommitCreate, IInv
<1>4. Exists(event'[ev]) /\ ev \in Events
  BY <1>1 DEF Exists
<1>5. event'[ev].status = "active"
  BY <1>1 DEF CommitCreate, IInv, TypeOK
<1>6. InFlight(s) /\ tx[s].op = "create"
  BY DEF CommitCreate, Running, InFlight
<1> HIDE DEF ev, rows
<1>7. AllHeld' /\ AllApart' /\ tx' \in [Slots -> Tx \cup {Idle}]
  <2>1. ASSUME NEW q \in Slots \ {s}, NEW t \in Tx, tx[q] = t, Held(t)
        PROVE  Held(t)'
    <3>1. CreateHeld(t)'
      <4>1. t.op = "create" => t.ev # ev /\ t.ev \in Events
        <5>1. Apart(tx[s], t)
          BY <2>1, <1>6 DEF IInv, AllApart, InFlight
        <5>. QED  BY <5>1, <1>6, Kinds DEF Apart, CreateTx, ev
      <4>. QED  BY <4>1, <1>1, <1>2, <2>1 DEF Held, CreateHeld
    <3>2. TopUpHeld(t)'
      <4>1. SUFFICES ASSUME t.op = "topup", NEW p \in DOMAIN t.placing
                     PROVE  placed'[p] = None /\ Exists(event'[p[1]]) /\ Exists(user'[p[2]])
        BY DEF TopUpHeld
      <4>2. p \in Pairs /\ p[1] \in Events
        BY <4>1, Kinds, RowsAre DEF TopUpTx, Pairs
      <4>3. placed[p] = None /\ Exists(event[p[1]]) /\ Exists(user[p[2]])
        BY <2>1, <4>1 DEF Held, TopUpHeld
      <4>4. p[1] # ev
        BY <4>3, <1>1 DEF Exists
      <4>. QED  BY <4>2, <4>3, <4>4, <1>1, <1>2, <1>3
    <3>3. UpdateHeld(t)'
      BY <2>1, <1>1, Kinds DEF Held, UpdateHeld, UpdateTx, Exists
    <3>4. DropHeld(t)'
      BY <2>1, <1>1, <1>2, <1>4, Kinds DEF Held, DropHeld, DropTx, Exists, Doomed
    <3>5. TriggerHeld(t)'
      BY <2>1, <1>1, <1>2, <1>4, Kinds DEF Held, TriggerHeld, TriggerTx, Left, Exists
    <3>. QED  BY <3>1, <3>2, <3>3, <3>4, <3>5 DEF Held
  <2>. QED  BY <2>1, <1>2, Finished
<1>8. TypeOK'
  BY <1>1, <1>2, <1>3, <1>7 DEF IInv, TypeOK
<1>9. NoOrphans'
  <2>1. ASSUME NEW p \in Pairs, placed'[p] # None \/ count'[p] > 0
        PROVE  Exists(event'[p[1]]) /\ Exists(user'[p[2]])
    <3>1. CASE p \in DOMAIN rows
      BY <3>1, <1>1, <1>2, <1>4
    <3>2. CASE p \notin DOMAIN rows
      <4>1. Exists(event[p[1]]) /\ Exists(user[p[2]])
        BY <3>2, <2>1, <1>2, <1>3 DEF IInv, NoOrphans
      <4>2. p[1] # ev /\ p[1] \in Events
        BY <4>1, <1>1 DEF Exists, Pairs
      <4>. QED  BY <4>1, <4>2, <1>1, <1>2
    <3>. QED  BY <3>1, <3>2
  <2>2. \A p \in written' : placed'[p] # None
    BY <1>2, <1>3 DEF IInv, NoOrphans, TypeOK
  <2>. QED  BY <2>1, <2>2 DEF NoOrphans
<1>10. ClosedAtKnown'
  BY <1>1, <1>5 DEF IInv, ClosedAtKnown
<1>11. CountsAreTriggers' /\ Fresh'
  BY <1>1, <1>2, <1>4 DEF IInv, CountsAreTriggers, Fresh, Pairs, Exists
<1>. QED  BY <1>7, <1>8, <1>9, <1>10, <1>11 DEF IInv
\* What the lookups and the foreign keys of a top-up have seen is still so.
LEMMA CommitTopUpSteps ==
  ASSUME IInv, NEW s \in Slots, CommitTopUp(s)
  PROVE  /\ tx[s].placing \in Rows
         /\ \A p \in DOMAIN tx[s].placing :
              placed[p] = None /\ Exists(event[p[1]]) /\ Exists(user[p[2]])
BY Flying, Kinds DEF CommitTopUp, Running, InFlight, TopUpTx, Held, TopUpHeld

\* A top-up fills places that are free, of events and users that are there.
LEMMA CommitTopUpKeeps ==
  ASSUME IInv, NEW s \in Slots, CommitTopUp(s)
  PROVE  IInv'
<1> DEFINE rows == tx[s].placing
<1>1. /\ rows \in Rows
      /\ \A p \in DOMAIN rows : placed[p] = None /\ Exists(event[p[1]]) /\ Exists(user[p[2]])
  BY CommitTopUpSteps
<1>2. UNCHANGED <<event, user, written, buffered, count, told>> /\ Become(s, Idle)
  BY DEF CommitTopUp
<1>3. /\ placed' \in [Pairs -> Orgs \cup {None}]
      /\ \A p \in Pairs : IF p \in DOMAIN rows THEN placed'[p] \in Orgs
                                               ELSE placed'[p] = placed[p]
  BY <1>1, PlacedType DEF CommitTopUp, IInv
<1>4. InFlight(s) /\ tx[s].op = "topup"
  BY DEF CommitTopUp, Running, InFlight
<1>5. AllHeld' /\ AllApart' /\ tx' \in [Slots -> Tx \cup {Idle}]
  <2>1. ASSUME NEW q \in Slots \ {s}, NEW t \in Tx, tx[q] = t, Held(t)
        PROVE  Held(t)'
    <3>1. CreateHeld(t)' /\ UpdateHeld(t)' /\ DropHeld(t)' /\ TriggerHeld(t)'
      BY <2>1, <1>2 DEF Held, CreateHeld, UpdateHeld, DropHeld, TriggerHeld, Left, Exists, Doomed
    <3>2. TopUpHeld(t)'
      <4>1. SUFFICES ASSUME t.op = "topup", NEW p \in DOMAIN t.placing
                     PROVE  placed'[p] = None /\ Exists(event'[p[1]]) /\ Exists(user'[p[2]])
        BY DEF TopUpHeld
      <4>2. p \in Pairs
        BY <4>1, Kinds, RowsAre DEF TopUpTx
      <4>3. placed[p] = None /\ Exists(event[p[1]]) /\ Exists(user[p[2]])
        BY <2>1, <4>1 DEF Held, TopUpHeld
      <4>4. p \notin DOMAIN rows
        <5>1. Apart(tx[s], t)
          BY <2>1, <1>4 DEF IInv, AllApart, InFlight
        <5>. QED  BY <5>1, <4>1, <1>4 DEF Apart
      <4>. QED  BY <4>2, <4>3, <4>4, <1>2, <1>3
    <3>. QED  BY <3>1, <3>2 DEF Held
  <2>. QED  BY <2>1, <1>2, Finished
<1>6. TypeOK'
  BY <1>2, <1>3, <1>5 DEF IInv, TypeOK
<1>7. NoOrphans'
  BY <1>1, <1>2, <1>3 DEF IInv, NoOrphans, TypeOK
<1>8. ClosedAtKnown' /\ CountsAreTriggers' /\ Fresh'
  BY <1>2 DEF IInv, ClosedAtKnown, CountsAreTriggers, Fresh
<1>. QED  BY <1>5, <1>6, <1>7, <1>8 DEF IInv

\* A PATCH changes one event that is there, and closes only what it found open.
LEMMA CommitUpdateSteps ==
  ASSUME IInv, NEW s \in Slots, CommitUpdate(s)
  PROVE  /\ tx[s] \in UpdateTx /\ tx[s].patch # tx[s].old
         /\ event[tx[s].ev] \in Event
         /\ event'[tx[s].ev] = Patched(event[tx[s].ev], tx[s])
         /\ event'[tx[s].ev] \in Event
         /\ \A e \in Events \ {tx[s].ev} : event'[e] = event[e]
         /\ event' \in [Events -> Event \cup {Absent, Gone}]
<1>1. tx[s] \in UpdateTx /\ Held(tx[s]) /\ tx[s].op = "update" /\ tx[s].pc = "commit"
  BY Flying, Kinds DEF CommitUpdate, Running, InFlight
<1>2. tx[s].patch # tx[s].old /\ Exists(event[tx[s].ev])
  BY <1>1 DEF Held, UpdateHeld
<1>3. event[tx[s].ev] \in Event /\ tx[s].ev \in Events
  BY <1>1, <1>2 DEF IInv, TypeOK, Exists, UpdateTx
<1>4. Patched(event[tx[s].ev], tx[s]) \in Event
  BY <1>1, <1>3 DEF Patched, Event, UpdateTx, Statuses
<1>5. /\ event'[tx[s].ev] = Patched(event[tx[s].ev], tx[s])
      /\ \A e \in Events \ {tx[s].ev} : event'[e] = event[e]
      /\ event' \in [Events -> Event \cup {Absent, Gone}]
  BY <1>3, <1>4 DEF CommitUpdate, IInv, TypeOK
<1>. QED  BY <1>1, <1>2, <1>3, <1>4, <1>5

\* A PATCH changes a row in place: nobody's event comes or goes.
LEMMA CommitUpdateKeeps ==
  ASSUME IInv, NEW s \in Slots, CommitUpdate(s)
  PROVE  IInv'
<1> DEFINE ev == tx[s].ev
<1>1. /\ tx[s] \in UpdateTx /\ tx[s].patch # tx[s].old /\ event[ev] \in Event
      /\ event'[ev] = Patched(event[ev], tx[s]) /\ event'[ev] \in Event
      /\ \A e \in Events \ {ev} : event'[e] = event[e]
      /\ event' \in [Events -> Event \cup {Absent, Gone}]
  BY CommitUpdateSteps
<1>2. UNCHANGED <<user, placed, written, buffered, count, told>> /\ Become(s, Idle)
  BY DEF CommitUpdate
<1>3. ev \in Events
  BY <1>1 DEF UpdateTx
<1>4. \A e \in Events : /\ Exists(event'[e]) <=> Exists(event[e])
                        /\ event'[e] = Absent <=> event[e] = Absent
                        /\ event'[e] = Gone <=> event[e] = Gone
  BY <1>1, <1>3 DEF Exists
<1>5. ClosedAtKnown'
  <2>1. SUFFICES event'[ev].status = "closed" => event'[ev].stamped
    BY <1>1, <1>3 DEF IInv, ClosedAtKnown, Exists
  <2>2. event[ev].status = "closed" => event[ev].stamped
    BY <1>1, <1>3 DEF IInv, ClosedAtKnown, Exists
  <2>. QED  BY <2>2, <1>1 DEF Patched, Event, UpdateTx, Statuses
<1> HIDE DEF ev
<1>6. AllHeld' /\ AllApart' /\ tx' \in [Slots -> Tx \cup {Idle}]
  <2>1. ASSUME NEW q \in Slots \ {s}, NEW t \in Tx, tx[q] = t, Held(t)
        PROVE  Held(t)'
    <3>1. CreateHeld(t)'
      BY <2>1, <1>2, <1>4, Kinds DEF Held, CreateHeld, CreateTx
    <3>2. TopUpHeld(t)'
      BY <2>1, <1>2, <1>4, Kinds, RowsAre DEF Held, TopUpHeld, TopUpTx, Pairs
    <3>3. UpdateHeld(t)'
      BY <2>1, <1>4, Kinds DEF Held, UpdateHeld, UpdateTx
    <3>4. DropHeld(t)'
      BY <2>1, <1>2, <1>4, Kinds DEF Held, DropHeld, DropTx, Doomed
    <3>5. TriggerHeld(t)'
      BY <2>1, <1>2, <1>4, Kinds DEF Held, TriggerHeld, TriggerTx, Left
    <3>. QED  BY <3>1, <3>2, <3>3, <3>4, <3>5 DEF Held
  <2>. QED  BY <2>1, <1>2, Finished
<1>7. TypeOK'
  BY <1>1, <1>2, <1>6 DEF IInv, TypeOK
<1>8. NoOrphans' /\ CountsAreTriggers' /\ Fresh'
  BY <1>2, <1>4 DEF IInv, NoOrphans, CountsAreTriggers, Fresh, Pairs
<1>. QED  BY <1>5, <1>6, <1>7, <1>8 DEF IInv
\* The rows of a DropTx that commits are all that refer to what it deletes.
LEMMA ChildrenSteps ==
  ASSUME IInv, NEW s \in Slots, tx[s] \in DropTx, Unreferenced(s), ChildrenDropped(tx[s])
  PROVE  /\ \A p \in Pairs : IF p \in Doomed(tx[s])
                               THEN placed'[p] = None /\ count'[p] = 0
                               ELSE placed'[p] = placed[p] /\ count'[p] = count[p]
         /\ written' \subseteq written
         /\ \A p \in written : p \notin Doomed(tx[s]) => p \in written'
         /\ \A p \in written' : p \notin Doomed(tx[s])
         /\ placed' \in [Pairs -> Orgs \cup {None}] /\ count' \in [Pairs -> Nat]
         /\ \A q \in Open(s) :
              (Inserted(tx[q]) \cup Placing(tx[q]) \cup Updated(tx[q])) \cap Doomed(tx[s]) = {}
<1>1. InFlight(s) /\ tx[s].op \in {"delete", "prune"}
  BY DEF InFlight, Unreferenced, DropTx, Tx
<1>2. tx[s].rems \subseteq Doomed(tx[s]) /\ tx[s].reps \subseteq Doomed(tx[s])
  BY <1>1, Flying DEF Held, DropHeld
<1>3. \A p \in Doomed(tx[s]) : /\ placed[p] # None => p \in tx[s].reps
                               /\ count[p] > 0 => p \in tx[s].rems
  BY DEF Unreferenced
<1>4. placed \in [Pairs -> Orgs \cup {None}] /\ count \in [Pairs -> Nat] /\ written \subseteq Pairs
  BY DEF IInv, TypeOK
<1>5. \A p \in Pairs : IF p \in Doomed(tx[s])
                         THEN placed'[p] = None /\ count'[p] = 0
                         ELSE placed'[p] = placed[p] /\ count'[p] = count[p]
  BY <1>2, <1>3, <1>4 DEF ChildrenDropped
<1>6. placed' \in [Pairs -> Orgs \cup {None}] /\ count' \in [Pairs -> Nat]
  BY <1>4 DEF ChildrenDropped
<1>7. \A p \in written : placed[p] # None
  BY DEF IInv, NoOrphans
<1>8. /\ written' \subseteq written
      /\ \A p \in written : p \notin Doomed(tx[s]) => p \in written'
      /\ \A p \in written' : p \notin Doomed(tx[s])
  BY <1>2, <1>3, <1>4, <1>7 DEF ChildrenDropped
<1>9. ASSUME NEW q \in Open(s)
      PROVE  (Inserted(tx[q]) \cup Placing(tx[q]) \cup Updated(tx[q])) \cap Doomed(tx[s]) = {}
  <2>1. (Inserted(tx[q]) \cup Placing(tx[q])) \cap Doomed(tx[s]) = {}
    BY DEF Unreferenced, Referencing
  <2>2. tx[q] \in Tx /\ Held(tx[q]) /\ Apart(tx[q], tx[s])
    BY <1>1, Neighbours
  <2>3. Updated(tx[q]) \cap tx[s].rems = {}
    BY <2>2, <1>1 DEF Apart, Dropping
  <2>4. \A p \in Updated(tx[q]) : count[p] > 0
    BY <2>2 DEF Updated, Held, TriggerHeld
  <2>5. Updated(tx[q]) \cap Doomed(tx[s]) = {}
    BY <2>3, <2>4, <1>3
  <2>. QED  BY <2>1, <2>5
<1>. QED  BY <1>5, <1>6, <1>8, <1>9

\* A commit that deletes the events E, the users U and all their rows.
LEMMA DroppedKeeps ==
  ASSUME IInv, NEW s \in Slots, tx[s] \in DropTx, Unreferenced(s), ChildrenDropped(tx[s]),
         Become(s, Idle), UNCHANGED <<buffered, told>>,
         NEW E \in SUBSET Events, NEW U \in SUBSET Users,
         event' = [e \in Events |-> IF e \in E THEN Gone ELSE event[e]],
         user' = [u \in Users |-> IF u \in U THEN Gone ELSE user[u]],
         \A p \in Pairs : p \in Doomed(tx[s]) <=> p[1] \in E \/ p[2] \in U,
         \A e \in E : event[e] # Absent,
         \A q \in Open(s) : Running(q, "update", "commit") => tx[q].ev \notin E
  PROVE  IInv'
<1>1. /\ \A p \in Pairs : IF p \in Doomed(tx[s])
                            THEN placed'[p] = None /\ count'[p] = 0
                            ELSE placed'[p] = placed[p] /\ count'[p] = count[p]
      /\ written' \subseteq written
      /\ \A p \in written' : p \notin Doomed(tx[s])
      /\ placed' \in [Pairs -> Orgs \cup {None}] /\ count' \in [Pairs -> Nat]
  BY ChildrenSteps
<1>2. \A q \in Open(s) :
        (Inserted(tx[q]) \cup Placing(tx[q]) \cup Updated(tx[q])) \cap Doomed(tx[s]) = {}
  BY ChildrenSteps
<1>3. event \in [Events -> Event \cup {Absent, Gone}] /\ user \in [Users -> User \cup {Absent, Gone}]
  BY DEF IInv, TypeOK
<1>4. /\ \A e \in Events : event'[e] = IF e \in E THEN Gone ELSE event[e]
      /\ \A u \in Users : user'[u] = IF u \in U THEN Gone ELSE user[u]
      /\ event' \in [Events -> Event \cup {Absent, Gone}]
      /\ user' \in [Users -> User \cup {Absent, Gone}]
  BY <1>3
<1>5. \A p \in Pairs : p[1] \in Events /\ p[2] \in Users
  BY DEF Pairs
<1>6. AllHeld' /\ AllApart' /\ tx' \in [Slots -> Tx \cup {Idle}]
  <2>1. ASSUME NEW q \in Slots \ {s}, NEW t \in Tx, tx[q] = t, Held(t)
        PROVE  Held(t)'
    <3>0. q \in Open(s)
      BY <2>1 DEF Open
    <3>1. (Inserted(t) \cup Placing(t) \cup Updated(t)) \cap Doomed(tx[s]) = {}
      BY <3>0, <2>1, <1>2
    <3>2. CreateHeld(t)'
      <4> SUFFICES ASSUME t.op = "create"
                   PROVE  CreateHeld(t)'
        BY DEF CreateHeld
      <4>1. t.ev \in Events /\ t.placing \in Rows /\ DOMAIN t.placing \subseteq Pairs
        BY Kinds, RowsAre DEF CreateTx
      <4>2. event[t.ev] = Absent /\ DOMAIN t.placing \subseteq {t.ev} \X Users
        BY <2>1 DEF Held, CreateHeld
      <4>3. event'[t.ev] = Absent
        BY <4>1, <4>2, <1>4
      <4>4. ASSUME t.pc = "commit", NEW p \in DOMAIN t.placing
            PROVE  Exists(user'[p[2]])
        <5>1. p \notin Doomed(tx[s]) /\ Exists(user[p[2]])
          BY <4>4, <3>1, <2>1 DEF Placing, Held, CreateHeld
        <5>. QED  BY <5>1, <4>1, <1>4, <1>5
      <4>. QED  BY <4>2, <4>3, <4>4 DEF CreateHeld
    <3>3. TopUpHeld(t)'
      <4>1. SUFFICES ASSUME t.op = "topup", NEW p \in DOMAIN t.placing
                     PROVE  placed'[p] = None /\ Exists(event'[p[1]]) /\ Exists(user'[p[2]])
        BY DEF TopUpHeld
      <4>2. p \in Pairs
        BY <4>1, Kinds, RowsAre DEF TopUpTx
      <4>3. placed[p] = None /\ Exists(event[p[1]]) /\ Exists(user[p[2]])
        BY <2>1, <4>1 DEF Held, TopUpHeld
      <4>4. p \notin Doomed(tx[s])
        BY <4>1, <3>1 DEF Placing
      <4>. QED  BY <4>2, <4>3, <4>4, <1>1, <1>4, <1>5
    <3>4. UpdateHeld(t)'
      <4> SUFFICES ASSUME t.op = "update", t.pc = "commit"
                   PROVE  Exists(event'[t.ev])
        BY <2>1 DEF Held, UpdateHeld
      <4>1. t.ev \notin E
        BY <3>0, <2>1 DEF Running, Open
      <4>. QED  BY <4>1, <2>1, <1>4, Kinds DEF Held, UpdateHeld, UpdateTx
    <3>5. DropHeld(t)'
      BY <2>1, <1>4, Kinds DEF Held, DropHeld, DropTx, Doomed
    <3>6. TriggerHeld(t)'
      <4> SUFFICES ASSUME t.op = "trigger"
                   PROVE  TriggerHeld(t)'
        BY DEF TriggerHeld
      <4>1. t \in TriggerTx /\ TriggerHeld(t)
        BY <2>1, Kinds DEF Held
      <4>2. \A u \in t.targets : <<t.ev, u>> \in Pairs
        BY <4>1 DEF TriggerTx, Pairs
      <4>3. event'[t.ev] # Absent /\ \A u \in t.targets : user'[u] # Absent
        BY <4>1, <1>4 DEF TriggerTx, TriggerHeld
      <4>4. \A u \in t.updated : <<t.ev, u>> \notin Doomed(tx[s])
        BY <3>1 DEF Updated
      <4>5. \A u \in t.updated : count'[<<t.ev, u>>] > 0
        BY <4>1, <4>2, <4>4, <1>1 DEF TriggerHeld
      <4>6. \A u \in t.targets : Left(t.ev, u) => Left(t.ev, u)'
        BY <4>1, <1>4 DEF TriggerTx, Left
      <4>7. \A u \in t.existing : count'[<<t.ev, u>>] > 0 \/ Left(t.ev, u)'
        <5> SUFFICES ASSUME NEW u \in t.existing
                     PROVE  count'[<<t.ev, u>>] > 0 \/ Left(t.ev, u)'
          OBVIOUS
        <5>1. <<t.ev, u>> \in Pairs /\ u \in t.targets
          BY <4>1, <4>2 DEF TriggerHeld
        <5>2. CASE <<t.ev, u>> \in Doomed(tx[s])
          BY <5>1, <5>2, <4>1, <1>4 DEF Left, TriggerTx
        <5>3. CASE <<t.ev, u>> \notin Doomed(tx[s])
          BY <5>1, <5>3, <4>1, <4>6, <1>1 DEF TriggerHeld
        <5>. QED  BY <5>2, <5>3
      <4>8. t.pc \in {"insert", "commit"} => \A u \in t.existing \ t.updated : Left(t.ev, u)'
        BY <4>1, <4>6 DEF TriggerHeld
      <4>9. ASSUME t.pc = "commit", NEW u \in t.targets \ t.existing
            PROVE  count'[<<t.ev, u>>] = 0 /\ Exists(event'[t.ev]) /\ Exists(user'[u])
        <5>1. <<t.ev, u>> \notin Doomed(tx[s])
          BY <4>9, <3>1 DEF Inserted
        <5>2. <<t.ev, u>> \in Pairs /\ t.ev \in Events /\ u \in Users
          BY <4>1, <4>2 DEF TriggerTx
        <5>. QED  BY <5>1, <5>2, <4>1, <4>9, <1>1, <1>4 DEF TriggerHeld
      <4>10. /\ t.updated \subseteq t.existing /\ t.existing \subseteq t.targets
             /\ t.pc = "existing" => t.existing = {}
             /\ t.pc \in {"existing", "update"} => t.updated = {}
        BY <4>1 DEF TriggerHeld
      <4>. QED  BY <4>3, <4>5, <4>7, <4>8, <4>9, <4>10 DEF TriggerHeld
    <3>. QED  BY <3>2, <3>3, <3>4, <3>5, <3>6 DEF Held
  <2>. QED  BY <2>1, Finished
<1>7. TypeOK'
  BY <1>1, <1>4, <1>6 DEF IInv, TypeOK
<1>8. NoOrphans'
  <2>1. ASSUME NEW p \in Pairs, placed'[p] # None \/ count'[p] > 0
        PROVE  Exists(event'[p[1]]) /\ Exists(user'[p[2]])
    <3>1. p \notin Doomed(tx[s])
      BY <2>1, <1>1
    <3>2. Exists(event[p[1]]) /\ Exists(user[p[2]])
      BY <2>1, <3>1, <1>1 DEF IInv, NoOrphans
    <3>. QED  BY <3>1, <3>2, <1>4, <1>5
  <2>2. \A p \in written' : placed'[p] # None
    BY <1>1 DEF IInv, NoOrphans, TypeOK
  <2>. QED  BY <2>1, <2>2 DEF NoOrphans
<1>9. ClosedAtKnown'
  BY <1>4 DEF IInv, ClosedAtKnown, Exists
<1>10. CountsAreTriggers' /\ Fresh'
  BY <1>1, <1>4, <1>5 DEF IInv, CountsAreTriggers, Fresh, Exists
<1>. QED  BY <1>6, <1>7, <1>8, <1>9, <1>10 DEF IInv
\* A delete takes the event and all pairs with it.
LEMMA CommitDeleteKeeps ==
  ASSUME IInv, NEW s \in Slots, CommitDelete(s)
  PROVE  IInv'
<1>1. tx[s] \in DropTx /\ Held(tx[s]) /\ tx[s].op = "delete"
  BY Flying, Kinds DEF CommitDelete, Running, InFlight
<1>2. tx[s].events \in SUBSET Events /\ tx[s].users = Users
  BY <1>1 DEF DropTx, Held, DropHeld
<1>3. \A p \in Pairs : p \in Doomed(tx[s]) <=> p[1] \in tx[s].events \/ p[2] \in {}
  BY <1>2 DEF Doomed, Pairs
<1>4. \A e \in tx[s].events : event[e] # Absent
  BY <1>1 DEF Held, DropHeld
<1>5. \A q \in Open(s) : Running(q, "update", "commit") => tx[q].ev \notin tx[s].events
  BY DEF CommitDelete, EventLocked
<1>6. user' = [u \in Users |-> IF u \in {} THEN Gone ELSE user[u]]
  BY DEF CommitDelete, IInv, TypeOK
<1>7. /\ event' = [e \in Events |-> IF e \in tx[s].events THEN Gone ELSE event[e]]
      /\ Unreferenced(s) /\ ChildrenDropped(tx[s]) /\ Become(s, Idle)
      /\ UNCHANGED <<buffered, told>>
  BY DEF CommitDelete
<1> DEFINE E == tx[s].events
           U == {}
<1>8. /\ E \in SUBSET Events /\ U \in SUBSET Users
      /\ event' = [e \in Events |-> IF e \in E THEN Gone ELSE event[e]]
      /\ user' = [u \in Users |-> IF u \in U THEN Gone ELSE user[u]]
      /\ \A p \in Pairs : p \in Doomed(tx[s]) <=> p[1] \in E \/ p[2] \in U
      /\ \A e \in E : event[e] # Absent
      /\ \A q \in Open(s) : Running(q, "update", "commit") => tx[q].ev \notin E
  BY <1>2, <1>3, <1>4, <1>5, <1>6, <1>7
<1> HIDE DEF E, U
<1>. QED  BY <1>1, <1>7, <1>8, DroppedKeeps

\* A pruning takes the users and all pairs with them.
LEMMA CommitPruneKeeps ==
  ASSUME IInv, NEW s \in Slots, CommitPrune(s)
  PROVE  IInv'
<1>1. tx[s] \in DropTx /\ Held(tx[s]) /\ tx[s].op = "prune"
  BY Flying, Kinds DEF CommitPrune, Running, InFlight
<1>2. tx[s].users \in SUBSET Users /\ tx[s].events = Events
  BY <1>1 DEF DropTx, Held, DropHeld
<1>3. \A p \in Pairs : p \in Doomed(tx[s]) <=> p[1] \in {} \/ p[2] \in tx[s].users
  BY <1>2 DEF Doomed, Pairs
<1>4. event' = [e \in Events |-> IF e \in {} THEN Gone ELSE event[e]]
  BY DEF CommitPrune, IInv, TypeOK
<1>5. /\ user' = [u \in Users |-> IF u \in tx[s].users THEN Gone ELSE user[u]]
      /\ Unreferenced(s) /\ ChildrenDropped(tx[s]) /\ Become(s, Idle)
      /\ UNCHANGED <<buffered, told>>
  BY DEF CommitPrune
<1> DEFINE E == {}
           U == tx[s].users
<1>6. /\ E \in SUBSET Events /\ U \in SUBSET Users
      /\ event' = [e \in Events |-> IF e \in E THEN Gone ELSE event[e]]
      /\ user' = [u \in Users |-> IF u \in U THEN Gone ELSE user[u]]
      /\ \A p \in Pairs : p \in Doomed(tx[s]) <=> p[1] \in E \/ p[2] \in U
      /\ \A e \in E : event[e] # Absent
      /\ \A q \in Open(s) : Running(q, "update", "commit") => tx[q].ev \notin E
  BY <1>2, <1>3, <1>4, <1>5
<1> HIDE DEF E, U
<1>. QED  BY <1>1, <1>5, <1>6, DroppedKeeps

\* What a trigger does to the counts: those it counts had none to lose.
LEMMA CommitTriggerSteps ==
  ASSUME IInv, NEW s \in Slots, CommitTrigger(s)
  PROVE  LET t == tx[s] IN
         /\ t \in TriggerTx /\ TriggerHeld(t)
         /\ count' \in [Pairs -> Nat] /\ told' \in [Pairs -> Nat]
         /\ \A e \in Events, u \in Users : LET p == <<e, u>> IN
              IF e = t.ev /\ u \in t.targets
                THEN /\ told'[p] = told[p] + 1
                     /\ u \in t.updated => count[p] > 0 /\ count'[p] = count[p] + 1
                     /\ u \notin t.existing => count[p] = 0 /\ count'[p] = 1
                                               /\ Exists(event[e]) /\ Exists(user[u])
                     /\ u \in t.existing \ t.updated => count'[p] = count[p] /\ Left(e, u)
                ELSE told'[p] = told[p] /\ count'[p] = count[p]
<1> DEFINE t == tx[s]
<1>1. t \in TriggerTx /\ TriggerHeld(t) /\ t.op = "trigger" /\ t.pc = "commit"
  BY Flying, Kinds DEF CommitTrigger, Running, InFlight, Held
<1>2. count \in [Pairs -> Nat] /\ told \in [Pairs -> Nat]
  BY DEF IInv, TypeOK
<1>3. /\ count' = Reminded(t, count)
      /\ told' = [p \in Pairs |-> IF p \in {t.ev} \X t.targets THEN told[p] + 1 ELSE told[p]]
  BY DEF CommitTrigger
<1> HIDE DEF t
<1>4. count' \in [Pairs -> Nat] /\ told' \in [Pairs -> Nat]
  BY <1>2, <1>3 DEF Reminded
<1>5. ASSUME NEW e \in Events, NEW u \in Users
      PROVE  LET p == <<e, u>> IN
              IF e = t.ev /\ u \in t.targets
                THEN /\ told'[p] = told[p] + 1
                     /\ u \in t.updated => count[p] > 0 /\ count'[p] = count[p] + 1
                     /\ u \notin t.existing => count[p] = 0 /\ count'[p] = 1
                                               /\ Exists(event[e]) /\ Exists(user[u])
                     /\ u \in t.existing \ t.updated => count'[p] = count[p] /\ Left(e, u)
                ELSE told'[p] = told[p] /\ count'[p] = count[p]
  <2>1. <<e, u>> \in Pairs
    BY DEF Pairs
  <2>2. /\ <<e, u>> \in {t.ev} \X t.updated <=> e = t.ev /\ u \in t.updated
        /\ <<e, u>> \in {t.ev} \X t.targets <=> e = t.ev /\ u \in t.targets
        /\ <<e, u>> \in {t.ev} \X (t.targets \ t.existing) <=>
             e = t.ev /\ u \in t.targets /\ u \notin t.existing
    OBVIOUS
  <2>3. t.updated \subseteq t.existing /\ t.existing \subseteq t.targets
    BY <1>1 DEF TriggerHeld
  <2>4. told'[<<e, u>>] = IF e = t.ev /\ u \in t.targets THEN told[<<e, u>>] + 1 ELSE told[<<e, u>>]
    BY <2>1, <2>2, <1>3
  <2>5. count'[<<e, u>>] = IF e = t.ev /\ u \in t.updated THEN count[<<e, u>>] + 1
                           ELSE IF e = t.ev /\ u \in t.targets /\ u \notin t.existing THEN 1
                           ELSE count[<<e, u>>]
    <3> DEFINE p == <<e, u>>
    <3>1. count'[p] = CASE p \in {t.ev} \X t.updated -> count[p] + 1
                        [] p \in {t.ev} \X (t.targets \ t.existing) -> 1
                        [] OTHER -> count[p]
      BY <2>1, <1>3 DEF Reminded
    <3>2. ~(p \in {t.ev} \X t.updated /\ p \in {t.ev} \X (t.targets \ t.existing))
      BY <2>2, <2>3
    <3>3. CASE p \in {t.ev} \X t.updated
      BY <3>1, <3>2, <3>3, <2>2
    <3>4. CASE p \notin {t.ev} \X t.updated
      BY <3>1, <3>4, <2>2
    <3>. QED  BY <3>3, <3>4
  <2>. QED  BY <2>3, <2>4, <2>5, <1>1 DEF TriggerHeld
<1>. QED  BY <1>1, <1>4, <1>5 DEF t

\* A trigger counts once more where event and user are there.
LEMMA CommitTriggerKeeps ==
  ASSUME IInv, NEW s \in Slots, CommitTrigger(s)
  PROVE  IInv'
<1> DEFINE r == tx[s]
<1>1. /\ r \in TriggerTx /\ TriggerHeld(r)
      /\ count' \in [Pairs -> Nat] /\ told' \in [Pairs -> Nat]
  BY CommitTriggerSteps
<1>2. \A e \in Events, u \in Users : LET p == <<e, u>> IN
        IF e = r.ev /\ u \in r.targets
          THEN /\ told'[p] = told[p] + 1
               /\ u \in r.updated => count[p] > 0 /\ count'[p] = count[p] + 1
               /\ u \notin r.existing => count[p] = 0 /\ count'[p] = 1
                                         /\ Exists(event[e]) /\ Exists(user[u])
               /\ u \in r.existing \ r.updated => count'[p] = count[p] /\ Left(e, u)
          ELSE told'[p] = told[p] /\ count'[p] = count[p]
  BY CommitTriggerSteps
<1>3. UNCHANGED <<event, user, placed, written, buffered>> /\ Become(s, Idle)
  BY DEF CommitTrigger
<1>4. InFlight(s) /\ r.op = "trigger" /\ r.pc = "commit"
  BY DEF CommitTrigger, Running, InFlight
<1>5. count \in [Pairs -> Nat] /\ told \in [Pairs -> Nat]
  BY DEF IInv, TypeOK
<1> HIDE DEF r
<1>6. \A e \in Events, u \in Users : count[<<e, u>>] > 0 => count'[<<e, u>>] > 0
  <2> TAKE e \in Events, u \in Users
  <2>1. <<e, u>> \in Pairs
    BY DEF Pairs
  <2>. QED  BY <2>1, <1>1, <1>2, <1>5 DEF TriggerHeld
<1>7. AllHeld' /\ AllApart' /\ tx' \in [Slots -> Tx \cup {Idle}]
  <2>1. ASSUME NEW q \in Slots \ {s}, NEW t \in Tx, tx[q] = t, Held(t)
        PROVE  Held(t)'
    <3>1. CreateHeld(t)' /\ TopUpHeld(t)' /\ UpdateHeld(t)' /\ DropHeld(t)'
      BY <2>1, <1>3 DEF Held, CreateHeld, TopUpHeld, UpdateHeld, DropHeld, Doomed, Exists
    <3>2. TriggerHeld(t)'
      <4> SUFFICES ASSUME t.op = "trigger"
                   PROVE  TriggerHeld(t)'
        BY DEF TriggerHeld
      <4>1. t \in TriggerTx /\ TriggerHeld(t)
        BY <2>1, Kinds DEF Held
      <4>2. t.ev \in Events /\ t.targets \subseteq Users /\ t.existing \subseteq Users
            /\ t.updated \subseteq Users
        BY <4>1 DEF TriggerTx
      <4>3. ASSUME t.pc = "commit", NEW u \in t.targets \ t.existing
            PROVE  count'[<<t.ev, u>>] = 0
        <5>1. count[<<t.ev, u>>] = 0
          BY <4>1, <4>3 DEF TriggerHeld
        <5>2. Inserted(r) \cap Inserted(t) = {}
          BY <2>1, <1>4 DEF IInv, AllApart, InFlight, Apart, r
        <5>3. ~(t.ev = r.ev /\ u \in r.targets \ r.existing)
          <6>1. <<t.ev, u>> \in Inserted(t)
            BY <4>3 DEF Inserted
          <6>2. Inserted(r) = {r.ev} \X (r.targets \ r.existing)
            BY <1>4 DEF Inserted
          <6>. QED  BY <6>1, <6>2, <5>2
        <5>4. t.ev \in Events /\ u \in Users
          BY <4>2, <4>3
        <5>. QED  BY <5>1, <5>3, <5>4, <1>1, <1>2
      <4>4. \A u \in t.updated : count'[<<t.ev, u>>] > 0
        BY <4>1, <4>2, <1>6 DEF TriggerHeld
      <4>5. \A u \in t.existing : count'[<<t.ev, u>>] > 0 \/ Left(t.ev, u)'
        BY <4>1, <4>2, <1>3, <1>6 DEF TriggerHeld, Left
      <4>. QED  BY <4>1, <4>3, <4>4, <4>5, <1>3 DEF TriggerHeld, Left, Exists
    <3>. QED  BY <3>1, <3>2 DEF Held
  <2>. QED  BY <2>1, <1>3, Finished
<1>8. TypeOK'
  BY <1>1, <1>3, <1>7 DEF IInv, TypeOK
<1>9. ASSUME NEW e \in Events, NEW u \in Users
      PROVE  LET p == <<e, u>> IN
             /\ count'[p] > 0 => Exists(event[e]) /\ Exists(user[u])
             /\ Exists(event[e]) /\ Exists(user[u]) => count'[p] = told'[p]
             /\ event[e] = Absent \/ user[u] = Absent => told'[p] = 0
  <2>1. <<e, u>> \in Pairs
    BY DEF Pairs
  <2>2. /\ count[<<e, u>>] > 0 => Exists(event[e]) /\ Exists(user[u])
        /\ Exists(event[e]) /\ Exists(user[u]) => count[<<e, u>>] = told[<<e, u>>]
        /\ event[e] = Absent \/ user[u] = Absent => told[<<e, u>>] = 0
        /\ count[<<e, u>>] \in Nat /\ told[<<e, u>>] \in Nat
    BY <2>1, <1>5 DEF IInv, NoOrphans, CountsAreTriggers, Fresh
  <2>3. CASE e = r.ev /\ u \in r.targets
    <3>1. event[e] # Absent /\ user[u] # Absent
      BY <2>3, <1>1, <1>4 DEF TriggerHeld
    <3>2. Left(e, u) => ~(Exists(event[e]) /\ Exists(user[u]))
      BY DEF Left, Exists
    <3>. QED  BY <2>2, <2>3, <3>1, <3>2, <1>2
  <2>4. CASE ~(e = r.ev /\ u \in r.targets)
    BY <2>2, <2>4, <1>2
  <2>. QED  BY <2>3, <2>4
<1>10. NoOrphans' /\ CountsAreTriggers' /\ Fresh'
  <2>1. \A p \in Pairs : p = <<p[1], p[2]>> /\ p[1] \in Events /\ p[2] \in Users
    BY DEF Pairs
  <2>. QED  BY <2>1, <1>3, <1>9 DEF IInv, NoOrphans, CountsAreTriggers, Fresh
<1>11. ClosedAtKnown'
  BY <1>3 DEF IInv, ClosedAtKnown
<1>. QED  BY <1>7, <1>8, <1>10, <1>11 DEF IInv
-----------------------------------------------------------------------------
(* Steps of no transaction *)

\* A report, its loss and the drain change the status of rows that exist at most.
LEMMA ReportKeeps ==
  ASSUME IInv, NEW p \in Pairs, Report(p) \/ Drain(p) \/ Lose(p)
  PROVE  IInv'
<1>1. UNCHANGED <<event, user, placed, count, tx, told>>
  BY DEF Report, Drain, Lose, tables
<1>2. written' \in SUBSET Pairs /\ buffered' \in SUBSET Pairs
  BY DEF Report, Drain, Lose, tables, IInv, TypeOK
<1>3. \A q \in written' : placed[q] # None
  BY DEF Report, Drain, Lose, tables, IInv, NoOrphans
<1>4. \A t \in Tx : Held(t) => Held(t)'
  BY <1>1 DEF Held, CreateHeld, TopUpHeld, UpdateHeld, DropHeld, TriggerHeld, Left, Exists, Doomed
<1>5. AllHeld' /\ AllApart'
  BY <1>1, <1>4, Outside
<1>6. TypeOK'
  BY <1>1, <1>2 DEF IInv, TypeOK
<1>7. NoOrphans' /\ ClosedAtKnown' /\ CountsAreTriggers' /\ Fresh'
  BY <1>1, <1>3 DEF IInv, NoOrphans, ClosedAtKnown, CountsAreTriggers, Fresh, Exists
<1>. QED  BY <1>5, <1>6, <1>7 DEF IInv

\* A user who is created or changed: nothing was or becomes gone.
LEMMA UserKeeps ==
  ASSUME IInv, NEW v \in Users, NEW org \in Orgs, NEW active \in BOOLEAN,
         CreateUser(v, org) \/ UpdateUser(v, org, active)
  PROVE  IInv'
<1>1. PICK row \in User : user' = [user EXCEPT ![v] = row]
  <2>1. [org |-> org, active |-> TRUE] \in User /\ [org |-> org, active |-> active] \in User
    BY DEF User
  <2>. QED  BY <2>1 DEF CreateUser, UpdateUser
<1>2. UNCHANGED <<event, placed, written, count, buffered, tx, told>> /\ user[v] # Gone
  BY DEF CreateUser, UpdateUser, Exists
<1>3. user' \in [Users -> User \cup {Absent, Gone}]
  BY <1>1 DEF IInv, TypeOK
<1>4. \A u \in Users : /\ user[u] = Gone <=> user'[u] = Gone
                       /\ Exists(user[u]) => Exists(user'[u])
                       /\ user'[u] = Absent => user[u] = Absent
                       /\ Exists(user'[u]) => Exists(user[u]) \/ user[u] = Absent
  <2>1. \A u \in Users \ {v} : user'[u] = user[u]
    BY <1>1 DEF IInv, TypeOK
  <2>2. user'[v] \in User /\ Exists(user'[v])
    BY <1>1 DEF IInv, TypeOK, Exists
  <2>. QED  BY <2>1, <2>2, <1>2 DEF Exists
<1>5. ASSUME NEW t \in Tx, Held(t)
      PROVE  Held(t)'
  <2>1. CreateHeld(t)'
    BY <1>2, <1>4, <1>5, Kinds, RowsAre DEF Held, CreateHeld, CreateTx, Pairs
  <2>2. TopUpHeld(t)'
    BY <1>2, <1>4, <1>5, Kinds, RowsAre DEF Held, TopUpHeld, TopUpTx, Pairs
  <2>3. UpdateHeld(t)' /\ DropHeld(t)'
    BY <1>2, <1>4, <1>5, Kinds DEF Held, UpdateHeld, DropHeld, DropTx, Doomed, Exists
  <2>4. TriggerHeld(t)'
    BY <1>2, <1>4, <1>5, Kinds DEF Held, TriggerHeld, TriggerTx, Left, Exists
  <2>. QED  BY <2>1, <2>2, <2>3, <2>4 DEF Held
<1>6. AllHeld' /\ AllApart'
  BY <1>2, <1>5, Outside
<1>7. TypeOK'
  BY <1>2, <1>3 DEF IInv, TypeOK
<1>8. \A p \in Pairs : p[1] \in Events /\ p[2] \in Users
  BY DEF Pairs
<1>9. NoOrphans' /\ ClosedAtKnown' /\ Fresh'
  BY <1>2, <1>4, <1>8 DEF IInv, NoOrphans, ClosedAtKnown, Fresh, Exists
<1>10. CountsAreTriggers'
  <2> SUFFICES ASSUME NEW p \in Pairs, Exists(event[p[1]]), Exists(user'[p[2]])
               PROVE  count[p] = told[p]
    BY <1>2 DEF CountsAreTriggers
  <2>1. CASE Exists(user[p[2]])
    BY <2>1 DEF IInv, CountsAreTriggers
  <2>2. CASE user[p[2]] = Absent
    BY <2>2 DEF IInv, TypeOK, NoOrphans, Fresh, Exists
  <2>. QED  BY <2>1, <2>2, <1>4, <1>8
<1>. QED  BY <1>6, <1>7, <1>9, <1>10 DEF IInv

\* The backfill fills in unknown snapshots, and adds or removes no row.
LEMMA BackfillSteps ==
  ASSUME IInv, Backfill
  PROVE  /\ placed' \in [Pairs -> Orgs \cup {None}]
         /\ \A p \in Pairs : /\ placed'[p] = None <=> placed[p] = None
                             /\ placed[p] # Unknown => placed'[p] = placed[p]
<1>1. placed \in [Pairs -> Orgs \cup {None}] /\ user \in [Users -> User \cup {Absent, Gone}]
  BY DEF IInv, TypeOK
<1>2. ASSUME NEW p \in Pairs
      PROVE  /\ placed'[p] \in Orgs \cup {None}
             /\ placed'[p] = None <=> placed[p] = None
             /\ placed[p] # Unknown => placed'[p] = placed[p]
  <2>1. placed'[p] = IF placed[p] = Unknown /\ Exists(user[p[2]]) THEN user[p[2]].org
                                                                  ELSE placed[p]
    BY DEF Backfill, Backfilled
  <2>2. Exists(user[p[2]]) => user[p[2]].org \in Orgs
    BY <1>1 DEF Pairs, Exists, User
  <2>. QED  BY <2>1, <2>2, <1>1
<1>3. placed' = [p \in Pairs |-> placed'[p]]
  BY DEF Backfill, Backfilled
<1>. QED  BY <1>2, <1>3

\* Nothing in flight depends on the value of a snapshot.
LEMMA BackfillKeeps ==
  ASSUME IInv, Backfill
  PROVE  IInv'
<1>1. UNCHANGED <<event, user, written, count, buffered, tx, told>>
  BY DEF Backfill
<1>2. /\ placed' \in [Pairs -> Orgs \cup {None}]
      /\ \A p \in Pairs : placed'[p] = None <=> placed[p] = None
  BY BackfillSteps
<1>3. ASSUME NEW t \in Tx, Held(t)
      PROVE  Held(t)'
  <2>1. CreateHeld(t)' /\ UpdateHeld(t)' /\ DropHeld(t)' /\ TriggerHeld(t)'
    BY <1>1, <1>3 DEF Held, CreateHeld, UpdateHeld, DropHeld, TriggerHeld, Left, Exists, Doomed
  <2>2. TopUpHeld(t)'
    BY <1>1, <1>2, <1>3, Kinds, RowsAre DEF Held, TopUpHeld, TopUpTx, Exists
  <2>. QED  BY <2>1, <2>2 DEF Held
<1>4. AllHeld' /\ AllApart'
  BY <1>1, <1>3, Outside
<1>5. TypeOK'
  BY <1>1, <1>2 DEF IInv, TypeOK
<1>6. NoOrphans' /\ ClosedAtKnown' /\ CountsAreTriggers' /\ Fresh'
  BY <1>1, <1>2 DEF IInv, TypeOK, NoOrphans, ClosedAtKnown, CountsAreTriggers, Fresh, Exists
<1>. QED  BY <1>4, <1>5, <1>6 DEF IInv

-----------------------------------------------------------------------------
(* The invariant *)

\* Every step keeps the invariant.
LEMMA NextKeeps == IInv /\ [Next]_vars => IInv'
<1> SUFFICES ASSUME IInv, [Next]_vars
             PROVE  IInv'
  OBVIOUS
<1>1. CASE UNCHANGED vars
  BY <1>1 DEF vars, IInv, TypeOK, NoOrphans, ClosedAtKnown, CountsAreTriggers, Fresh, AllHeld,
              AllApart, InFlight, Held, CreateHeld, TopUpHeld, UpdateHeld, DropHeld, TriggerHeld,
              Left, Exists, Doomed
<1>2. ASSUME NEW s \in Slots, NEW e \in Events, NEW orgs \in Targets, CreateEvent(s, e, orgs)
      PROVE  IInv'
  BY <1>2, CreateEventKeeps
<1>3. ASSUME NEW s \in Slots, NEW e \in Events, NEW patch \in Statuses \cup {None},
             UpdateEvent(s, e, patch)
      PROVE  IInv'
  BY <1>3, UpdateEventKeeps
<1>4. ASSUME NEW s \in Slots, NEW e \in Events, NEW scope \in Scopes, TriggerReminders(s, e, scope)
      PROVE  IInv'
  BY <1>4, TriggerRemindersKeeps
<1>5. ASSUME NEW s \in Slots, NEW e \in Events, DeleteEvent(s, e) \/ ReadMissing(s, e)
      PROVE  IInv'
  BY <1>5, DeleteEventKeeps, ReadMissingKeeps
<1>6. ASSUME NEW s \in Slots,
             \/ InsertPlaceholders(s) \/ CommitCreate(s)
             \/ StartTopUp(s) \/ InsertMissing(s) \/ CommitTopUp(s)
             \/ FlushUpdate(s) \/ CommitUpdate(s)
      PROVE  IInv'
  BY <1>6, InsertPlaceholdersKeeps, CommitCreateKeeps, StartTopUpKeeps, InsertMissingKeeps,
     CommitTopUpKeeps, FlushUpdateKeeps, CommitUpdateKeeps
<1>7. ASSUME NEW s \in Slots,
             \/ Prune(s) \/ DropReminders(s) \/ DropReports(s) \/ CommitDelete(s) \/ CommitPrune(s)
             \/ SelectExisting(s) \/ UpdateReminders(s) \/ InsertReminders(s) \/ CommitTrigger(s)
             \/ Rollback(s)
      PROVE  IInv'
  BY <1>7, PruneKeeps, DropRemindersKeeps, DropReportsKeeps, CommitDeleteKeeps, CommitPruneKeeps,
     SelectExistingKeeps, UpdateRemindersKeeps, InsertRemindersKeeps, CommitTriggerKeeps,
     RollbackKeeps
<1>8. ASSUME NEW p \in Pairs, Report(p) \/ Drain(p) \/ Lose(p)
      PROVE  IInv'
  BY <1>8, ReportKeeps
<1>9. ASSUME NEW u \in Users, NEW org \in Orgs, CreateUser(u, org)
      PROVE  IInv'
  BY <1>9, TRUE \in BOOLEAN, UserKeeps
<1>10. ASSUME NEW u \in Users, NEW org \in Orgs, NEW active \in BOOLEAN,
              UpdateUser(u, org, active)
       PROVE  IInv'
  BY <1>10, UserKeeps
<1>11. CASE Backfill
  BY <1>11, BackfillKeeps
<1>12. CASE Next
  <2> HIDE DEF IInv
  <2>. QED  BY <1>2, <1>3, <1>4, <1>5, <1>6, <1>7, <1>8, <1>9, <1>10, <1>11, <1>12 DEF Next
<1>. QED  BY <1>1, <1>12

\* The invariant holds in every reachable state.
LEMMA Invariant == Spec => []IInv
BY InitInv, NextKeeps, PTL DEF Spec

\* Every variable keeps its type.
THEOREM TypeCorrect == Spec => []TypeOK
<1>1. IInv => TypeOK
  BY DEF IInv
<1>. QED  BY <1>1, Invariant, PTL

\* However deletes, prunings, top-ups, creations and triggers overlap, and
\* however many there are, no row outlives its event or its user.
THEOREM RowsHaveOwners == Spec => []NoOrphans
<1>1. IInv => NoOrphans
  BY DEF IInv
<1>. QED  BY <1>1, Invariant, PTL

\* A closed event has its closed_at, whatever PATCHes overlap.
THEOREM CloseIsStamped == Spec => []ClosedAtKnown
<1>1. IInv => ClosedAtKnown
  BY DEF IInv
<1>. QED  BY <1>1, Invariant, PTL

\* reminder_count counts the successful triggers, however many overlap.
THEOREM CountsAreExact == Spec => []CountsAreTriggers
<1>1. IInv => CountsAreTriggers
  BY DEF IInv
<1>. QED  BY <1>1, Invariant, PTL
-----------------------------------------------------------------------------
(* What a step may do *)

\* Only commits, the drain, the users' handlers and the backfill change a table.
LEMMA Writers ==
  ASSUME [Next]_vars
  PROVE  \/ UNCHANGED tables
         \/ \E s \in Slots : \/ CommitCreate(s) \/ CommitTopUp(s) \/ CommitUpdate(s)
                             \/ CommitDelete(s) \/ CommitPrune(s) \/ CommitTrigger(s)
         \/ \E p \in Pairs : Drain(p)
         \/ UNCHANGED <<event, placed, written, count>>
         \/ Backfill
<1>1. CASE UNCHANGED vars
  BY <1>1 DEF vars, tables
<1>2. ASSUME NEW s \in Slots, NEW e \in Events,
             \/ \E orgs \in Targets : CreateEvent(s, e, orgs)
             \/ \E patch \in Statuses \cup {None} : UpdateEvent(s, e, patch)
             \/ \E scope \in Scopes : TriggerReminders(s, e, scope)
             \/ DeleteEvent(s, e) \/ ReadMissing(s, e)
      PROVE  UNCHANGED tables
  BY <1>2 DEF CreateEvent, UpdateEvent, TriggerReminders, DeleteEvent, ReadMissing, tables
<1>3. ASSUME NEW s \in Slots,
             \/ InsertPlaceholders(s) \/ StartTopUp(s) \/ InsertMissing(s) \/ FlushUpdate(s)
             \/ Prune(s) \/ DropReminders(s) \/ DropReports(s)
             \/ SelectExisting(s) \/ UpdateReminders(s) \/ InsertReminders(s) \/ Rollback(s)
      PROVE  UNCHANGED tables
  BY <1>3 DEF InsertPlaceholders, StartTopUp, InsertMissing, FlushUpdate, Prune, DropReminders,
              DropReports, SelectExisting, UpdateReminders, InsertReminders, Rollback, tables
<1>4. ASSUME NEW p \in Pairs, Report(p) \/ Lose(p)
      PROVE  UNCHANGED tables
  BY <1>4 DEF Report, Lose, tables
<1>5. ASSUME NEW v \in Users, NEW org \in Orgs,
             \/ CreateUser(v, org)
             \/ \E active \in BOOLEAN : UpdateUser(v, org, active)
      PROVE  UNCHANGED <<event, placed, written, count>>
  BY <1>5 DEF CreateUser, UpdateUser
<1>6. CASE Next
  BY <1>2, <1>3, <1>4, <1>5, <1>6 DEF Next
<1>. QED  BY <1>1, <1>6

\* A delete or pruning that commits leaves no doomed pair with both owners.
LEMMA DropIsDrop ==
  ASSUME IInv, NEW s \in Slots, CommitDelete(s) \/ CommitPrune(s)
  PROVE  /\ tx[s] \in DropTx /\ Unreferenced(s) /\ ChildrenDropped(tx[s])
         /\ \A p \in Doomed(tx[s]) : ~(Exists(event'[p[1]]) /\ Exists(user'[p[2]]))
<1>1. tx[s] \in DropTx /\ Unreferenced(s) /\ ChildrenDropped(tx[s])
  BY Flying, Kinds DEF CommitDelete, CommitPrune, Running, InFlight
<1>2. \A p \in Doomed(tx[s]) : p[1] \in tx[s].events /\ p[2] \in tx[s].users
                               /\ p[1] \in Events /\ p[2] \in Users
  BY <1>1 DEF Doomed, DropTx
<1>. QED  BY <1>1, <1>2 DEF CommitDelete, CommitPrune, Exists

\* No transfer, top-up or backfill, and no number of them at once, changes the
\* snapshot of a user whose organisation was known.
THEOREM SnapshotsKept == Spec => KnownSnapshotsFrozen
<1> DEFINE Frozen == \A p \in Pairs :
             placed[p] \notin {None, Unknown} /\ placed'[p] # None => placed'[p] = placed[p]
<1>1. IInv /\ [Next]_vars => Frozen
  <2> SUFFICES ASSUME IInv, [Next]_vars
               PROVE  Frozen
    OBVIOUS
  <2>1. CASE placed' = placed
    BY <2>1
  <2>2. ASSUME NEW s \in Slots, CommitCreate(s)
        PROVE  Frozen
    <3>1. /\ tx[s].placing \in Rows /\ \A p \in DOMAIN tx[s].placing : placed[p] = None
          /\ placed' = Placed(tx[s].placing)
      BY <2>2, CommitCreateSteps DEF CommitCreate
    <3>. QED  BY <3>1, PlacedType DEF IInv
  <2>3. ASSUME NEW s \in Slots, CommitTopUp(s)
        PROVE  Frozen
    <3>1. /\ tx[s].placing \in Rows /\ \A p \in DOMAIN tx[s].placing : placed[p] = None
          /\ placed' = Placed(tx[s].placing)
      BY <2>3, CommitTopUpSteps DEF CommitTopUp
    <3>. QED  BY <3>1, PlacedType DEF IInv
  <2>4. ASSUME NEW s \in Slots, CommitDelete(s) \/ CommitPrune(s)
        PROVE  Frozen
    <3>1. \A p \in Pairs : placed'[p] \in {None, placed[p]}
      BY <2>4 DEF CommitDelete, CommitPrune, ChildrenDropped
    <3>. QED  BY <3>1
  <2>5. CASE Backfill
    BY <2>5, BackfillSteps
  <2>6. ASSUME NEW s \in Slots, CommitUpdate(s) \/ CommitTrigger(s)
        PROVE  placed' = placed
    BY <2>6 DEF CommitUpdate, CommitTrigger
  <2>7. ASSUME NEW p \in Pairs, Drain(p)
        PROVE  placed' = placed
    BY <2>7 DEF Drain
  <2> HIDE DEF Frozen
  <2>. QED  BY <2>1, <2>2, <2>3, <2>4, <2>5, <2>6, <2>7, Writers DEF tables
<1>. QED  BY <1>1, Invariant, PTL DEF Spec, KnownSnapshotsFrozen

\* A close is undone only by a PATCH that found the event closed and asks for it.
THEOREM ClosesStay == Spec => CloseStays
<1> DEFINE Stays == \A e \in Events :
             Exists(event[e]) /\ Exists(event'[e])
               /\ event[e].status = "closed" /\ event'[e].status = "active" =>
               \E s \in Slots : Running(s, "update", "commit") /\ tx[s].ev = e
                                  /\ tx[s].patch = "active" /\ tx[s].old = "closed"
<1>1. IInv /\ [Next]_vars => Stays
  <2> SUFFICES ASSUME IInv, [Next]_vars
               PROVE  Stays
    OBVIOUS
  <2>1. CASE event' = event
    BY <2>1
  <2>2. ASSUME NEW s \in Slots, CommitCreate(s)
        PROVE  Stays
    BY <2>2, CommitCreateSteps DEF Exists
  <2>3. ASSUME NEW s \in Slots, CommitUpdate(s)
        PROVE  Stays
    <3> SUFFICES ASSUME NEW e \in Events, Exists(event[e]), event[e].status = "closed",
                        event'[e].status = "active"
                 PROVE  /\ Running(s, "update", "commit") /\ tx[s].ev = e
                        /\ tx[s].patch = "active" /\ tx[s].old = "closed"
      OBVIOUS
    <3>1. /\ tx[s] \in UpdateTx /\ tx[s].patch # tx[s].old /\ event[tx[s].ev] \in Event
          /\ event'[tx[s].ev] = Patched(event[tx[s].ev], tx[s])
          /\ \A f \in Events \ {tx[s].ev} : event'[f] = event[f]
      BY <2>3, CommitUpdateSteps
    <3>2. tx[s].ev = e
      BY <3>1
    <3>3. tx[s].patch = "active" /\ tx[s].old = "closed"
      BY <3>1, <3>2 DEF Patched, Event, UpdateTx, Statuses
    <3>. QED  BY <3>2, <3>3, <2>3 DEF CommitUpdate
  <2>4. ASSUME NEW s \in Slots, CommitDelete(s)
        PROVE  Stays
    <3>1. \A e \in Events : event'[e] \in {Gone, event[e]}
      BY <2>4 DEF CommitDelete
    <3>. QED  BY <3>1 DEF Exists
  <2>5. ASSUME NEW s \in Slots, CommitTopUp(s) \/ CommitPrune(s) \/ CommitTrigger(s)
        PROVE  event' = event
    BY <2>5 DEF CommitTopUp, CommitPrune, CommitTrigger
  <2>6. ASSUME NEW p \in Pairs, Drain(p)
        PROVE  event' = event
    BY <2>6 DEF Drain
  <2>7. CASE Backfill
    BY <2>1, <2>7 DEF Backfill
  <2> HIDE DEF Stays
  <2>. QED  BY <2>1, <2>2, <2>3, <2>4, <2>5, <2>6, <2>7, Writers DEF tables
<1>. QED  BY <1>1, Invariant, PTL DEF Spec, CloseStays

\* Rows, statuses and counts go only with their event or their user: a delete or
\* a pruning is seen as a whole or, when it fails, not at all.
THEOREM DeletesAreWhole == Spec => NothingLost
<1> DEFINE Kept == \A p \in Pairs :
             Exists(event'[p[1]]) /\ Exists(user'[p[2]]) =>
               /\ placed[p] # None => placed'[p] # None
               /\ p \in written => p \in written'
               /\ count[p] <= count'[p]
<1>1. IInv /\ [Next]_vars => Kept
  <2> SUFFICES ASSUME IInv, [Next]_vars
               PROVE  Kept
    OBVIOUS
  <2>1. count \in [Pairs -> Nat]
    BY DEF IInv, TypeOK
  <2>2. CASE UNCHANGED <<placed, written, count>>
    BY <2>1, <2>2
  <2>3. ASSUME NEW s \in Slots, CommitCreate(s) \/ CommitTopUp(s)
        PROVE  Kept
    <3>1. /\ tx[s].placing \in Rows /\ placed' = Placed(tx[s].placing)
          /\ UNCHANGED <<written, count>>
      BY <2>3, CommitCreateSteps, CommitTopUpSteps DEF CommitCreate, CommitTopUp
    <3>. QED  BY <3>1, <2>1, PlacedType DEF IInv
  <2>4. ASSUME NEW s \in Slots, CommitDelete(s) \/ CommitPrune(s)
        PROVE  Kept
    <3> SUFFICES ASSUME NEW p \in Pairs, Exists(event'[p[1]]), Exists(user'[p[2]])
                 PROVE  /\ placed[p] # None => placed'[p] # None
                        /\ p \in written => p \in written'
                        /\ count[p] <= count'[p]
      OBVIOUS
    <3>1. tx[s] \in DropTx /\ Unreferenced(s) /\ ChildrenDropped(tx[s]) /\ p \notin Doomed(tx[s])
      BY <2>4, DropIsDrop
    <3>2. placed'[p] = placed[p] /\ count'[p] = count[p] /\ (p \in written => p \in written')
      BY <3>1, ChildrenSteps
    <3>. QED  BY <3>2, <2>1
  <2>5. ASSUME NEW s \in Slots, CommitTrigger(s)
        PROVE  Kept
    <3>1. UNCHANGED <<placed, written>>
      BY <2>5 DEF CommitTrigger
    <3>2. ASSUME NEW e \in Events, NEW u \in Users
          PROVE  count[<<e, u>>] <= count'[<<e, u>>]
      <4>1. count[<<e, u>>] \in Nat
        BY <2>1 DEF Pairs
      <4>. QED  BY <4>1, <2>5, CommitTriggerSteps
    <3>3. \A p \in Pairs : count[p] <= count'[p]
      BY <3>2 DEF Pairs
    <3>. QED  BY <3>1, <3>3
  <2>6. ASSUME NEW p \in Pairs, Drain(p)
        PROVE  Kept
    BY <2>1, <2>6 DEF Drain
  <2>7. CASE Backfill
    BY <2>1, <2>7, BackfillSteps DEF Backfill
  <2>8. ASSUME NEW s \in Slots, CommitUpdate(s)
        PROVE  UNCHANGED <<placed, written, count>>
    BY <2>8 DEF CommitUpdate
  <2> HIDE DEF Kept
  <2>. QED  BY <2>2, <2>3, <2>4, <2>5, <2>6, <2>7, <2>8, Writers DEF tables
<1>. QED  BY <1>1, Invariant, PTL DEF Spec, NothingLost

-----------------------------------------------------------------------------
(* Handlers are atomic *)

\* What AtomicEvents sees of an event and of a user.
SeenEvent(e) == Presence(event[e], event[e].status)
SeenUser(u) == Presence(user[u], "present")

\* It sees who is there, who is to come, and who is gone.
LEMMA Seen ==
  ASSUME TypeOK
  PROVE  /\ \A e \in Events : /\ Exists(event[e]) <=> SeenEvent(e) \in {"active", "closed"}
                              /\ Exists(event[e]) => SeenEvent(e) = event[e].status
                              /\ event[e] = Absent <=> SeenEvent(e) = "absent"
                              /\ event[e] = Gone <=> SeenEvent(e) = "gone"
         /\ \A u \in Users : /\ Exists(user[u]) <=> SeenUser(u) = "present"
                             /\ user[u] = Absent <=> SeenUser(u) = "absent"
                             /\ user[u] = Gone <=> SeenUser(u) = "gone"
         /\ \A p \in Pairs : Atomic!There(p) <=> Exists(event[p[1]]) /\ Exists(user[p[2]])
<1>1. \A e \in Events : event[e] \in Event \cup {Absent, Gone}
  BY DEF TypeOK
<1>2. \A x \in Event : x.status \in {"active", "closed"} /\ Exists(x)
  BY DEF Event, Statuses, Exists
<1>3. \A u \in Users : user[u] \in User \cup {Absent, Gone}
  BY DEF TypeOK
<1>4. \A x \in User : Exists(x)
  BY DEF Exists
<1>5. \A e \in Events : /\ Exists(event[e]) <=> SeenEvent(e) \in {"active", "closed"}
                        /\ Exists(event[e]) => SeenEvent(e) = event[e].status
                        /\ event[e] = Absent <=> SeenEvent(e) = "absent"
                        /\ event[e] = Gone <=> SeenEvent(e) = "gone"
  BY <1>1, <1>2 DEF SeenEvent, Presence, Exists
<1>6. \A u \in Users : /\ Exists(user[u]) <=> SeenUser(u) = "present"
                       /\ user[u] = Absent <=> SeenUser(u) = "absent"
                       /\ user[u] = Gone <=> SeenUser(u) = "gone"
  BY <1>3, <1>4 DEF SeenUser, Presence, Exists
<1>7. \A p \in Pairs : p[1] \in Events /\ p[2] \in Users
  BY DEF Pairs
<1>8. \A p \in Pairs : Atomic!There(p) <=> Exists(event[p[1]]) /\ Exists(user[p[2]])
  BY <1>5, <1>6, <1>7 DEF Atomic!There, SeenEvent, SeenUser
<1>. QED  BY <1>5, <1>6, <1>8

\* The same of the next state.
LEMMA SeenNext == TypeOK' =>
  /\ \A e \in Events : /\ Exists(event'[e]) <=> SeenEvent(e)' \in {"active", "closed"}
                       /\ Exists(event'[e]) => SeenEvent(e)' = event'[e].status
                       /\ event'[e] = Absent <=> SeenEvent(e)' = "absent"
                       /\ event'[e] = Gone <=> SeenEvent(e)' = "gone"
  /\ \A u \in Users : /\ Exists(user'[u]) <=> SeenUser(u)' = "present"
                      /\ user'[u] = Absent <=> SeenUser(u)' = "absent"
                      /\ user'[u] = Gone <=> SeenUser(u)' = "gone"
<1> DEFINE Is ==
      /\ \A e \in Events : /\ Exists(event[e]) <=> SeenEvent(e) \in {"active", "closed"}
                           /\ Exists(event[e]) => SeenEvent(e) = event[e].status
                           /\ event[e] = Absent <=> SeenEvent(e) = "absent"
                           /\ event[e] = Gone <=> SeenEvent(e) = "gone"
      /\ \A u \in Users : /\ Exists(user[u]) <=> SeenUser(u) = "present"
                          /\ user[u] = Absent <=> SeenUser(u) = "absent"
                          /\ user[u] = Gone <=> SeenUser(u) = "gone"
<1>1. TypeOK => Is
  BY Seen
<1>2. TypeOK' => Is'
  BY <1>1, PTL
<1>. QED  BY <1>2

\* The tables start as AtomicEvents has them.
LEMMA AtomicInit == Init => Atomic!Init
<1> SUFFICES ASSUME Init PROVE Atomic!Init
  OBVIOUS
<1>1. TypeOK
  BY InitInv DEF IInv
<1>2. \A u \in Users : user[u] # Gone
  BY DEF Init, User
<1>3. \A u \in Users : SeenUser(u) \in {"absent", "present"}
  BY <1>1, <1>2, Seen DEF TypeOK, Exists
<1>4. \A e \in Events : SeenEvent(e) = "absent"
  BY <1>1, Seen DEF Init
<1>. QED  BY <1>3, <1>4 DEF Init, Atomic!Init, Atomic!Pairs, Pairs, SeenEvent, SeenUser

\* New rows are placed for pairs that had none.
LEMMA Places ==
  ASSUME IInv, NEW rows \in Rows, placed' = Placed(rows), \A p \in DOMAIN rows : placed[p] = None
  PROVE  Atomic!Place(DOMAIN rows)
<1>1. /\ Placed(rows) \in [Pairs -> Orgs \cup {None}]
      /\ \A p \in Pairs : IF p \in DOMAIN rows THEN Placed(rows)[p] \in Orgs
                                               ELSE Placed(rows)[p] = placed[p]
  BY PlacedType DEF IInv
<1>. QED  BY <1>1 DEF Atomic!Place, Atomic!Pairs, Pairs

\* The commit of create_event is a Create.
LEMMA CreateIsAtomic ==
  ASSUME IInv, TypeOK', NEW s \in Slots, CommitCreate(s)
  PROVE  Atomic!Next
<1>1. PICK ev \in Events, rows \in Rows : ev = tx[s].ev /\ rows = tx[s].placing
  BY CommitCreateSteps
<1>2. /\ DOMAIN rows \subseteq {ev} \X Users
      /\ \A p \in DOMAIN rows : placed[p] = None /\ Exists(user[p[2]])
      /\ event[ev] = Absent /\ event'[ev] \in Event
      /\ \A e \in Events \ {ev} : event'[e] = event[e]
  BY <1>1, CommitCreateSteps
<1> DEFINE us == {u \in Users : <<ev, u>> \in DOMAIN rows}
<1>3. DOMAIN rows = {ev} \X us
  <2>1. \A p \in {ev} \X Users : \E u \in Users : p = <<ev, u>>
    OBVIOUS
  <2>2. \A p : p \in DOMAIN rows => \E u \in us : p = <<ev, u>>
    BY <1>2, <2>1
  <2>3. \A p : p \in {ev} \X us => p \in DOMAIN rows
    OBVIOUS
  <2> HIDE DEF us
  <2>4. DOMAIN rows \subseteq {ev} \X us
    BY <2>2
  <2>5. {ev} \X us \subseteq DOMAIN rows
    BY <2>3
  <2>. QED  BY <2>4, <2>5
<1>4. \A u \in us : SeenUser(u) = "present"
  BY <1>2, Seen DEF IInv
<1>5. Atomic!Place({ev} \X us)
  <2>1. Atomic!Place(DOMAIN rows)
    BY <1>1, <1>2, Places DEF CommitCreate
  <2>. QED  BY <2>1, <1>3
<1>6. event'[ev].status = "active"
  BY <1>1 DEF CommitCreate, IInv, TypeOK
<1>7. SeenEvent(ev) = "absent" /\ SeenEvent(ev)' = "active"
  BY <1>2, <1>6, Seen, SeenNext DEF IInv, Exists
<1>8. \A e \in Events : SeenEvent(e)' = IF e = ev THEN "active" ELSE SeenEvent(e)
  BY <1>2, <1>7 DEF SeenEvent
<1>9. UNCHANGED <<user, written, count, told>>
  BY DEF CommitCreate
<1>10. us \in SUBSET Users
  OBVIOUS
<1> HIDE DEF us
<1>11. Atomic!Create(ev, us)
  BY <1>10, <1>4, <1>5, <1>7, <1>8, <1>9 DEF Atomic!Create, SeenEvent, SeenUser
<1>. QED  BY <1>10, <1>11 DEF Atomic!Next

\* The commit of the top-up is a TopUp.
LEMMA TopUpIsAtomic ==
  ASSUME IInv, NEW s \in Slots, CommitTopUp(s)
  PROVE  Atomic!Next
<1>1. PICK rows \in Rows : rows = tx[s].placing
  BY CommitTopUpSteps
<1>2. \A p \in DOMAIN rows : placed[p] = None /\ Exists(event[p[1]]) /\ Exists(user[p[2]])
  BY <1>1, CommitTopUpSteps
<1>3. DOMAIN rows \in SUBSET Atomic!Pairs
  BY RowsAre DEF Atomic!Pairs, Pairs
<1>4. \A p \in DOMAIN rows : Atomic!There(p)
  BY <1>2, RowsAre, Seen DEF IInv
<1>5. Atomic!Place(DOMAIN rows)
  BY <1>1, <1>2, Places DEF CommitTopUp
<1>6. UNCHANGED <<event, user, written, count, told>>
  BY DEF CommitTopUp
<1>7. Atomic!TopUp(DOMAIN rows)
  BY <1>4, <1>5, <1>6 DEF Atomic!TopUp
<1>. QED  BY <1>3, <1>7 DEF Atomic!Next

\* The commit of update_event is a Change.
LEMMA UpdateIsAtomic ==
  ASSUME IInv, TypeOK', NEW s \in Slots, CommitUpdate(s)
  PROVE  Atomic!Next
<1>1. PICK ev \in Events : ev = tx[s].ev
  BY CommitUpdateSteps DEF UpdateTx
<1>2. /\ event[ev] \in Event /\ event'[ev] \in Event
      /\ \A e \in Events \ {ev} : event'[e] = event[e]
  BY <1>1, CommitUpdateSteps
<1>3. SeenEvent(ev) \in {"active", "closed"} /\ SeenEvent(ev)' \in {"active", "closed"}
  BY <1>2, Seen, SeenNext DEF IInv, Exists
<1>4. \A e \in Events : SeenEvent(e)' = IF e = ev THEN SeenEvent(ev)' ELSE SeenEvent(e)
  BY <1>2 DEF SeenEvent
<1>5. UNCHANGED <<user, placed, written, count, told>>
  BY DEF CommitUpdate
<1>6. PICK x \in {"active", "closed"} : x = SeenEvent(ev)'
  BY <1>3
<1>7. Atomic!Change(ev, x)
  BY <1>3, <1>4, <1>5, <1>6 DEF Atomic!Change, SeenEvent, SeenUser
<1>. QED  BY <1>7 DEF Atomic!Next

\* A delete or a pruning that commits leaves nothing of the events es and the
\* users us, and everything else.
LEMMA RemoveIsAtomic ==
  ASSUME IInv, TypeOK', NEW s \in Slots,
         tx[s] \in DropTx, Unreferenced(s), ChildrenDropped(tx[s]), UNCHANGED told,
         NEW es \in SUBSET Events, NEW us \in SUBSET Users,
         \A e \in es : event[e] # Absent, \A u \in us : user[u] # Absent,
         event' = [e \in Events |-> IF e \in es THEN Gone ELSE event[e]],
         user' = [u \in Users |-> IF u \in us THEN Gone ELSE user[u]],
         \A p \in Pairs : p \in Doomed(tx[s]) <=> p[1] \in es \/ p[2] \in us
  PROVE  Atomic!Remove(es, us)
<1> DEFINE doomed == {p \in Pairs : p[1] \in es \/ p[2] \in us}
<1>1. /\ \A p \in Pairs : IF p \in Doomed(tx[s])
                            THEN placed'[p] = None /\ count'[p] = 0
                            ELSE placed'[p] = placed[p] /\ count'[p] = count[p]
      /\ written' \subseteq written
      /\ \A p \in written : p \notin Doomed(tx[s]) => p \in written'
      /\ \A p \in written' : p \notin Doomed(tx[s])
      /\ placed' \in [Pairs -> Orgs \cup {None}] /\ count' \in [Pairs -> Nat]
  BY ChildrenSteps
<1>2. /\ placed' = [p \in Pairs |-> IF p \in doomed THEN None ELSE placed[p]]
      /\ count' = [p \in Pairs |-> IF p \in doomed THEN 0 ELSE count[p]]
  BY <1>1
<1>3. written' = written \ doomed
  <2>1. written \subseteq Pairs
    BY DEF IInv, TypeOK
  <2>. QED  BY <2>1, <1>1
<1>4. /\ \A e \in Events : SeenEvent(e)' = IF e \in es THEN "gone" ELSE SeenEvent(e)
      /\ \A u \in Users : SeenUser(u)' = IF u \in us THEN "gone" ELSE SeenUser(u)
  BY ValuesAssumption DEF SeenEvent, SeenUser, Presence
<1>5. /\ \A e \in es : SeenEvent(e) # "absent"
      /\ \A u \in us : SeenUser(u) # "absent"
  BY Seen DEF IInv
<1> HIDE DEF doomed
<1>6. doomed = {p \in Atomic!Pairs : p[1] \in es \/ p[2] \in us} /\ Atomic!Pairs = Pairs
  BY DEF doomed, Atomic!Pairs, Pairs
<1>. QED  BY <1>2, <1>3, <1>4, <1>5, <1>6 DEF Atomic!Remove, SeenEvent, SeenUser

\* The commits of delete_event and of prune_users are such.
LEMMA DropIsAtomic ==
  ASSUME IInv, TypeOK', NEW s \in Slots, CommitDelete(s) \/ CommitPrune(s)
  PROVE  Atomic!Next
<1>1. /\ tx[s] \in DropTx /\ Held(tx[s]) /\ Unreferenced(s) /\ ChildrenDropped(tx[s])
      /\ UNCHANGED told
  BY Flying, Kinds DEF CommitDelete, CommitPrune, Running, InFlight
<1>2. CASE CommitDelete(s)
  <2>1. tx[s].op = "delete"
    BY <1>2 DEF CommitDelete, Running
  <2>2. PICK e \in Events : {e} = tx[s].events
    BY <1>1, <2>1 DEF Held, DropHeld
  <2> DEFINE es == {e}
  <2>3. tx[s].users = Users /\ \A f \in es : event[f] # Absent
    BY <1>1, <2>1, <2>2 DEF Held, DropHeld
  <2>4. \A p \in Pairs : p \in Doomed(tx[s]) <=> p[1] \in es \/ p[2] \in {}
    BY <2>2, <2>3 DEF Doomed, Pairs
  <2>5. /\ event' = [f \in Events |-> IF f \in es THEN Gone ELSE event[f]]
        /\ user' = [u \in Users |-> IF u \in {} THEN Gone ELSE user[u]]
    BY <1>2, <2>2 DEF CommitDelete, IInv, TypeOK
  <2>6. Atomic!Remove(es, {})
    BY <1>1, <2>3, <2>4, <2>5, RemoveIsAtomic
  <2>. QED  BY <2>6 DEF Atomic!Next
<1>3. CASE CommitPrune(s)
  <2>1. tx[s].op = "prune"
    BY <1>3 DEF CommitPrune, Running
  <2>2. PICK us \in SUBSET Users : us = tx[s].users
    BY <1>1 DEF DropTx
  <2>3. tx[s].events = Events /\ \A u \in us : user[u] # Absent
    BY <1>1, <2>1, <2>2 DEF Held, DropHeld
  <2>4. \A p \in Pairs : p \in Doomed(tx[s]) <=> p[1] \in {} \/ p[2] \in us
    BY <2>2, <2>3 DEF Doomed, Pairs
  <2>5. /\ event' = [e \in Events |-> IF e \in {} THEN Gone ELSE event[e]]
        /\ user' = [u \in Users |-> IF u \in us THEN Gone ELSE user[u]]
    BY <1>3, <2>2 DEF CommitPrune, IInv, TypeOK
  <2>6. Atomic!Remove({}, us)
    BY <1>1, <2>3, <2>4, <2>5, RemoveIsAtomic
  <2>. QED  BY <2>6 DEF Atomic!Next
<1>. QED  BY <1>2, <1>3

\* The commit of trigger_reminders is a Remind.
LEMMA TriggerIsAtomic ==
  ASSUME IInv, NEW s \in Slots, CommitTrigger(s)
  PROVE  Atomic!Next
<1>1. PICK ev \in Events, us \in SUBSET Users : ev = tx[s].ev /\ us = tx[s].targets
  BY CommitTriggerSteps DEF TriggerTx
<1>2. count \in [Pairs -> Nat] /\ told \in [Pairs -> Nat]
  BY DEF IInv, TypeOK
<1>3. count' \in [Pairs -> Nat] /\ told' \in [Pairs -> Nat] /\ TriggerHeld(tx[s])
  BY CommitTriggerSteps
<1>4. UNCHANGED <<event, user, placed, written>>
  BY DEF CommitTrigger
<1>5. ASSUME NEW e \in Events, NEW u \in Users
      PROVE  LET p == <<e, u>>
                 counted == e = ev /\ u \in us
             IN  /\ told'[p] = IF counted THEN told[p] + 1 ELSE told[p]
                 /\ count'[p] = IF counted /\ Exists(event[e]) /\ Exists(user[u])
                                  THEN count[p] + 1 ELSE count[p]
  <2>1. IF e = ev /\ u \in us
          THEN /\ told'[<<e, u>>] = told[<<e, u>>] + 1
               /\ u \in tx[s].updated => count[<<e, u>>] > 0 /\ count'[<<e, u>>] = count[<<e, u>>] + 1
               /\ u \notin tx[s].existing => count[<<e, u>>] = 0 /\ count'[<<e, u>>] = 1
                                         /\ Exists(event[e]) /\ Exists(user[u])
               /\ u \in tx[s].existing \ tx[s].updated =>
                    count'[<<e, u>>] = count[<<e, u>>] /\ Left(e, u)
          ELSE told'[<<e, u>>] = told[<<e, u>>] /\ count'[<<e, u>>] = count[<<e, u>>]
    BY <1>1, CommitTriggerSteps
  <2>2. count[<<e, u>>] > 0 => Exists(event[e]) /\ Exists(user[u])
    BY DEF IInv, NoOrphans, Pairs
  <2>3. Left(e, u) => ~(Exists(event[e]) /\ Exists(user[u]))
    BY DEF Left, Exists
  <2>. QED  BY <2>1, <2>2, <2>3
<1>6. /\ told' = [p \in Pairs |-> IF p \in {ev} \X us THEN told[p] + 1 ELSE told[p]]
      /\ count' = [p \in Pairs |-> IF p \in {ev} \X us /\ Atomic!There(p)
                                     THEN count[p] + 1 ELSE count[p]]
  <2>1. ASSUME NEW p \in Pairs
        PROVE  /\ told'[p] = IF p \in {ev} \X us THEN told[p] + 1 ELSE told[p]
               /\ count'[p] = IF p \in {ev} \X us /\ Atomic!There(p)
                                THEN count[p] + 1 ELSE count[p]
    <3>1. PICK e \in Events, u \in Users : p = <<e, u>>
      BY DEF Pairs
    <3>2. /\ p \in {ev} \X us <=> e = ev /\ u \in us
          /\ Atomic!There(p) <=> Exists(event[e]) /\ Exists(user[u])
      BY <3>1, Seen DEF IInv
    <3>. QED  BY <3>1, <3>2, <1>5
  <2>. QED  BY <2>1, <1>3
<1>7. Atomic!Remind(ev, us)
  BY <1>4, <1>6 DEF Atomic!Remind, Atomic!Pairs, Pairs
<1>. QED  BY <1>7 DEF Atomic!Next

\* So are the drain's UPDATE, the backfill and the steps of the users' handlers.
LEMMA OthersAreAtomic ==
  ASSUME IInv, TypeOK'
  PROVE  /\ \A p \in Pairs : Drain(p) => [Atomic!Next]_(Atomic!vars)
         /\ Backfill => [Atomic!Next]_(Atomic!vars)
         /\ \A u \in Users, org \in Orgs :
              CreateUser(u, org) \/ (\E active \in BOOLEAN : UpdateUser(u, org, active))
              => [Atomic!Next]_(Atomic!vars)
<1>1. ASSUME NEW p \in Pairs, Drain(p)
      PROVE  [Atomic!Next]_(Atomic!vars)
  <2>1. UNCHANGED <<event, user, placed, count, told>>
    BY <1>1 DEF Drain
  <2>2. CASE placed[p] = None
    BY <2>1, <2>2, <1>1 DEF Drain, Atomic!vars
  <2>3. CASE placed[p] # None
    <3>1. Atomic!Write(p)
      BY <2>1, <2>3, <1>1 DEF Drain, Atomic!Write
    <3>. QED  BY <3>1 DEF Atomic!Next, Atomic!Pairs, Pairs
  <2>. QED  BY <2>2, <2>3
<1>2. ASSUME Backfill
      PROVE  [Atomic!Next]_(Atomic!vars)
  <2>1. UNCHANGED <<event, user, written, count, told>>
    BY <1>2 DEF Backfill
  <2>2. Atomic!Complete
    BY <2>1, <1>2, BackfillSteps DEF Atomic!Complete, Atomic!Pairs, Pairs
  <2>. QED  BY <2>2 DEF Atomic!Next
<1>3. ASSUME NEW u \in Users, NEW org \in Orgs, NEW active \in BOOLEAN,
             CreateUser(u, org) \/ UpdateUser(u, org, active)
      PROVE  [Atomic!Next]_(Atomic!vars)
  <2>1. UNCHANGED <<event, placed, written, count, told>>
    BY <1>3 DEF CreateUser, UpdateUser
  <2>2. /\ \A v \in Users \ {u} : user'[v] = user[v]
        /\ user'[u] \in User
    <3>1. PICK row \in User : user' = [user EXCEPT ![u] = row]
      BY <1>3 DEF CreateUser, UpdateUser, User
    <3>. QED  BY <3>1 DEF IInv, TypeOK
  <2>3. SeenUser(u)' = "present"
    BY <2>2, SeenNext DEF Exists
  <2>4. \A v \in Users \ {u} : SeenUser(v)' = SeenUser(v)
    BY <2>2 DEF SeenUser
  <2>5. CASE CreateUser(u, org)
    <3>1. SeenUser(u) = "absent"
      BY <2>5, Seen DEF CreateUser, IInv
    <3>2. Atomic!Join(u)
      BY <2>1, <2>3, <2>4, <3>1 DEF Atomic!Join, SeenEvent, SeenUser
    <3>. QED  BY <3>2 DEF Atomic!Next
  <2>6. CASE UpdateUser(u, org, active)
    <3>1. SeenUser(u) = "present"
      BY <2>6, Seen DEF UpdateUser, IInv
    <3>. QED  BY <2>1, <2>3, <2>4, <3>1 DEF Atomic!vars, SeenEvent, SeenUser
  <2>. QED  BY <1>3, <2>5, <2>6
<1>4. ASSUME NEW u \in Users, NEW org \in Orgs,
             CreateUser(u, org) \/ (\E active \in BOOLEAN : UpdateUser(u, org, active))
      PROVE  [Atomic!Next]_(Atomic!vars)
  <2>1. PICK active \in BOOLEAN : CreateUser(u, org) \/ UpdateUser(u, org, active)
    BY <1>4
  <2>. QED  BY <2>1, <1>3
<1>. QED  BY <1>1, <1>2, <1>4

\* Statements before the commit, rollbacks and reports in the buffer change
\* nothing that AtomicEvents sees.
LEMMA StepIsAtomic ==
  ASSUME IInv, TypeOK', [Next]_vars
  PROVE  [Atomic!Next]_(Atomic!vars)
<1>1. CASE UNCHANGED <<event, user, placed, written, count, told>>
  BY <1>1 DEF Atomic!vars
<1>2. ASSUME NEW s \in Slots, NEW e \in Events,
             \/ \E orgs \in Targets : CreateEvent(s, e, orgs)
             \/ \E patch \in Statuses \cup {None} : UpdateEvent(s, e, patch)
             \/ \E scope \in Scopes : TriggerReminders(s, e, scope)
             \/ DeleteEvent(s, e) \/ ReadMissing(s, e)
      PROVE  UNCHANGED <<event, user, placed, written, count, told>>
  BY <1>2 DEF CreateEvent, UpdateEvent, TriggerReminders, DeleteEvent, ReadMissing, tables
<1>3. ASSUME NEW s \in Slots,
             \/ InsertPlaceholders(s) \/ StartTopUp(s) \/ InsertMissing(s) \/ FlushUpdate(s)
             \/ Prune(s) \/ DropReminders(s) \/ DropReports(s)
             \/ SelectExisting(s) \/ UpdateReminders(s) \/ InsertReminders(s) \/ Rollback(s)
      PROVE  UNCHANGED <<event, user, placed, written, count, told>>
  BY <1>3 DEF InsertPlaceholders, StartTopUp, InsertMissing, FlushUpdate, Prune, DropReminders,
              DropReports, SelectExisting, UpdateReminders, InsertReminders, Rollback, tables
<1>4. ASSUME NEW p \in Pairs, Report(p) \/ Lose(p)
      PROVE  UNCHANGED <<event, user, placed, written, count, told>>
  BY <1>4 DEF Report, Lose, tables
<1>5. CASE UNCHANGED vars
  BY <1>1, <1>5 DEF vars
<1>6. ASSUME NEW s \in Slots,
             \/ CommitCreate(s) \/ CommitTopUp(s) \/ CommitUpdate(s)
             \/ CommitDelete(s) \/ CommitPrune(s) \/ CommitTrigger(s)
      PROVE  Atomic!Next
  BY <1>6, CreateIsAtomic, TopUpIsAtomic, UpdateIsAtomic, DropIsAtomic, TriggerIsAtomic
<1>7. /\ \A p \in Pairs : Drain(p) => [Atomic!Next]_(Atomic!vars)
      /\ Backfill => [Atomic!Next]_(Atomic!vars)
      /\ \A u \in Users, org \in Orgs :
           CreateUser(u, org) \/ (\E active \in BOOLEAN : UpdateUser(u, org, active))
           => [Atomic!Next]_(Atomic!vars)
  BY OthersAreAtomic
<1>8. CASE Next
  BY <1>1, <1>2, <1>3, <1>4, <1>6, <1>7, <1>8 DEF Next
<1>. QED  BY <1>5, <1>8

\* However many handlers and jobs overlap, fail and wait for each other, whoever
\* looks at the tables sees each of them happen at once and as a whole: EventLife
\* implements AtomicEvents.
THEOREM ImplementsAtomicEvents == Spec => HandlersAtomic
<1>1. IInv /\ IInv' /\ [Next]_vars => [Atomic!Next]_(Atomic!vars)
  BY StepIsAtomic DEF IInv
<1>. QED  BY <1>1, AtomicInit, Invariant, PTL DEF Spec, HandlersAtomic, Atomic!Spec
=============================================================================
