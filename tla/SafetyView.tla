----------------------------- MODULE SafetyView -----------------------------
(***************************************************************************)
(* What the reporting service promises about one safety report per user    *)
(* and event, whatever stores and processes carry it: what is shown was    *)
(* reported by the user, a report is confirmed only once the pair shows or *)
(* has lapsed, and a pair that shows is shown as unreported again only     *)
(* when a report of it has lapsed before any was settled.  Settled is for  *)
(* ever.                                                                   *)
(***************************************************************************)
CONSTANTS Pairs,    \* one per user and event
          Reports,  \* functions from Columns
          Columns,
          Nothing   \* unreported

VARIABLES offered,    \* set of <<pair, report>>: what users have submitted
          view,       \* what is shown of each pair
          settled,    \* pairs that will always show
          lapsed,     \* pairs that have lost a report to a time limit
          confirmed   \* pairs whose user has been told that the report is in

vars == <<offered, view, settled, lapsed, confirmed>>

Init ==
  /\ offered = {}
  /\ view = [k \in Pairs |-> Nothing]
  /\ settled = {}
  /\ lapsed = {}
  /\ confirmed = {}

\* A user submits a report.
Offer(k, r) ==
  /\ offered' = offered \cup {<<k, r>>}
  /\ UNCHANGED <<view, settled, lapsed, confirmed>>

\* Every column is one that the user has reported, though not all of them need
\* be of one report.
Composed(k, shown) ==
  \A c \in Columns : \E r \in Reports : <<k, r>> \in offered /\ shown[c] = r[c]

\* Some pairs change to other reports of their users: no order among the reports
\* of a pair is promised.  Some are settled; some lapse, and only those that are
\* not settled are then blank.
Revise ==
  /\ settled \subseteq settled' /\ settled' \subseteq Pairs
  /\ lapsed \subseteq lapsed' /\ lapsed' \subseteq Pairs
  /\ DOMAIN view' = Pairs
  /\ \A k \in Pairs :
       \/ view'[k] = view[k]
       \/ view'[k] # Nothing /\ Composed(k, view'[k])
       \/ view'[k] = Nothing /\ k \in lapsed'
  /\ \A k \in settled' : view'[k] # Nothing
  /\ UNCHANGED <<offered, confirmed>>

\* The user is told that the report has been received.
Confirm(k) ==
  /\ view[k] # Nothing \/ k \in lapsed
  /\ confirmed' = confirmed \cup {k}
  /\ UNCHANGED <<offered, view, settled, lapsed>>

Next ==
  \/ \E k \in Pairs, r \in Reports : Offer(k, r)
  \/ Revise
  \/ \E k \in Pairs : Confirm(k)

Spec == Init /\ [][Next]_vars

=============================================================================
