------------------------------- MODULE TeamList -------------------------------
(***************************************************************************)
(* The dashboard's list of one event: pages of rows in order of urgency,   *)
(* asked for one after another by offset, while reports move rows about    *)
(* and the manager changes the filter.  Nothing is cancelled: an answer is *)
(* applied whenever it arrives.                                            *)
(***************************************************************************)
EXTENDS Integers, SequencesExt

CONSTANTS
  MaxUsers,    \* the users of the event, in the order of their employee ids
  Selections,  \* [users, statuses]: scope, department and search; status filter
  Initial,     \* the selection at first
  PageSize,    \* PAGE_SIZE
  Slots,       \* bound: answers in flight
  MaxChanges,  \* bound: reports
  Tables,      \* the rows as they may be when the dashboard is opened
  None

Users == 1..MaxUsers

\* _URGENCY_ORDER; "remark" is a need_help with a message.
Urgency == [remark |-> 0, need_help |-> 1, unreported |-> 2, safe |-> 3]
Statuses == DOMAIN Urgency

ASSUME SelectionsAssumption ==
  /\ Selections \subseteq [users : SUBSET Users, statuses : SUBSET Statuses]
  /\ Initial \in Selections
ASSUME TablesAssumption == Tables \subseteq [Users -> Statuses]
ASSUME BoundsAssumption == MaxUsers \in Nat /\ PageSize \in Nat \ {0} /\ MaxChanges \in Nat

Request == [kind : {"reload", "more"}, sel : Selections, offset : Nat,
            step : {"count", "list", "answer"}, total : Nat, items : Seq(Users), moves : Nat]

ASSUME NoneAssumption == None \notin Request

VARIABLES
  status,    \* of each user's row, as the read engine has it
  changes,   \* how often a row has changed
  sel,       \* what the manager has selected
  list,      \* reports: the users listed
  total,
  req,       \* the requests in flight
  moves,     \* history: changes since the first page of the list was counted
  coherent   \* history: the list is pages of the selection, each at its offset

vars == <<status, changes, sel, list, total, req, moves, coherent>>
table == <<status, changes>>
page == <<list, total, moves, coherent>>

Asked(kind, s, offset) ==
  [kind |-> kind, sel |-> s, offset |-> offset, step |-> "count",
   total |-> 0, items |-> <<>>, moves |-> 0]

Ask(q) == \E r \in Slots : req[r] = None /\ req' = [req EXCEPT ![r] = q]

Init ==
  /\ status \in Tables /\ changes = 0
  /\ sel = Initial
  /\ list = <<>> /\ total = 0 /\ moves = 0 /\ coherent = FALSE
  /\ \E first \in Slots :
       req = [r \in Slots |-> IF r = first THEN Asked("reload", Initial, 0) ELSE None]

-----------------------------------------------------------------------------
(* The service *)

\* A drain or a direct write.
Report(u, s) ==
  /\ changes < MaxChanges /\ s \notin {"unreported", status[u]}
  /\ status' = [status EXCEPT ![u] = s]
  /\ changes' = changes + 1
  /\ moves' = moves + 1
  /\ req' = [r \in Slots |-> IF req[r] = None \/ req[r].step = "count" THEN req[r]
                             ELSE [req[r] EXCEPT !.moves = @ + 1]]
  /\ UNCHANGED <<sel, list, total, coherent>>

Matching(s) == {u \in s.users : status[u] \in s.statuses}

\* ORDER BY urgency and employee id.
Before(u, v) ==
  \/ Urgency[status[u]] < Urgency[status[v]]
  \/ status[u] = status[v] /\ u < v

\* The place of a row among the rows of a selection.
Place(s, u) == Cardinality({v \in Matching(s) : v = u \/ Before(v, u)})

Rows(s) ==
  [i \in 1..Cardinality(Matching(s)) |-> CHOOSE u \in Matching(s) : Place(s, u) = i]

\* LIMIT and OFFSET.
Cut(rows, offset) == SubSeq(rows, offset + 1, Min({offset + PageSize, Len(rows)}))

\* Mutant: ORDER BY urgency alone; equals come in another order in the next query.
UnorderedPage(s, offset) ==
  LET Behind(u) == {v \in Matching(s) : status[v] = status[u] /\ v > u}
      Ahead(u) == {v \in Matching(s) : Urgency[status[v]] < Urgency[status[u]]}
      again == [i \in 1..Cardinality(Matching(s)) |->
                  CHOOSE u \in Matching(s) : Cardinality(Ahead(u) \cup Behind(u)) = i - 1]
  IN  Cut(IF offset = 0 THEN Rows(s) ELSE again, offset)

Page(s, offset) == Cut(Rows(s), offset)

\* Mutant: the total is the length of the page.
PageTotal(s, offset) == Len(Page(s, offset))

Total(s, offset) == Cardinality(Matching(s))

\* The COUNT, and then the SELECT of the page, which sees what is committed since.
Count(r) ==
  /\ req[r] # None /\ req[r].step = "count"
  /\ req' = [req EXCEPT ![r].step = "list", ![r].total = Total(req[r].sel, req[r].offset)]
  /\ UNCHANGED <<table, sel, page>>

Select(r) ==
  /\ req[r] # None /\ req[r].step = "list"
  /\ req' = [req EXCEPT ![r].step = "answer", ![r].items = Page(req[r].sel, req[r].offset)]
  /\ UNCHANGED <<table, sel, page>>

-----------------------------------------------------------------------------
(* The dashboard *)

\* Another department, status or search (an event likewise): reloadAll runs; the
\* old list stays until the answer.
Choose(s) ==
  /\ s # sel
  /\ sel' = s
  /\ coherent' = FALSE
  /\ Ask(Asked("reload", s, 0))
  /\ UNCHANGED <<table, list, total, moves>>

\* The refresh button.
Refresh ==
  /\ Ask(Asked("reload", sel, 0))
  /\ UNCHANGED <<table, sel, page>>

\* The end of the list comes into view; loadingMoreRef admits one at a time.
LoadMore ==
  /\ list # <<>> /\ Len(list) < total
  /\ \A r \in Slots : req[r] # None => req[r].kind # "more"
  /\ Ask(Asked("more", sel, Len(list)))
  /\ UNCHANGED <<table, sel, page>>

\* The answer replaces the list or is appended to it, whatever is selected now.
Arrive(r) ==
  /\ req[r] # None /\ req[r].step = "answer"
  /\ req' = [req EXCEPT ![r] = None]
  /\ LET q == req[r] IN
       /\ total' = q.total
       /\ \/ /\ q.kind = "reload"
             /\ list' = q.items /\ moves' = q.moves
             /\ coherent' = (q.sel = sel)
          \/ /\ q.kind = "more"
             /\ list' = list \o q.items
             /\ moves' = Max({moves, q.moves})
             /\ coherent' = (coherent /\ q.sel = sel /\ q.offset = Len(list))
  /\ UNCHANGED <<table, sel>>

\* An error; nothing is set.
Fail(r) ==
  /\ req[r] # None
  /\ req' = [req EXCEPT ![r] = None]
  /\ UNCHANGED <<table, sel, page>>

Next ==
  \/ \E u \in Users, s \in Statuses : Report(u, s)
  \/ \E s \in Selections : Choose(s)
  \/ Refresh \/ LoadMore
  \/ \E r \in Slots : Count(r) \/ Select(r) \/ Arrive(r) \/ Fail(r)

Spec == Init /\ [][Next]_vars

-----------------------------------------------------------------------------
(* Properties *)

\* Every variable holds a value of the kind its comment says.
TypeOK ==
  /\ status \in [Users -> Statuses] /\ changes \in 0..MaxChanges
  /\ sel \in Selections
  /\ list \in Seq(Users) /\ total \in Nat /\ moves \in Nat /\ coherent \in BOOLEAN
  /\ req \in [Slots -> Request \cup {None}]

\* Nothing more will be asked for.
Exhausted ==
  /\ list = <<>> \/ Len(list) >= total
  /\ \A r \in Slots : req[r] # None => req[r].kind # "more"

Listed == {list[i] : i \in DOMAIN list}

\* Rows that move between two pages are missed or listed twice, but each report
\* since the first page was counted costs one row at most: of the most urgent
\* rows, as many as are listed, no more are missing than users have reported, and
\* no more are repetitions.  The end of the list comes from a COUNT that may be
\* older than its SELECT: there a report may cost two rows, the one that moved
\* and the one it pushed past the end.
MissesAtMostMoves ==
  coherent =>
    /\ Cardinality({u \in Matching(sel) : Place(sel, u) <= Len(list)} \ Listed) <= moves
    /\ Len(list) <= Cardinality(Listed) + moves
    /\ Exhausted => Cardinality(Matching(sel) \ Listed) <= 2 * moves

\* Without a report in between the list is the beginning of the selected rows in
\* order, with no gap, no repetition and nothing of an earlier selection.
PrefixWhileStill ==
  coherent /\ moves = 0 => IsPrefix(list, Rows(sel))
=============================================================================
