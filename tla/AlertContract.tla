--------------------------- MODULE AlertContract ---------------------------
(***************************************************************************)
(* What alerts_service.py promises to operators and participants, without  *)
(* threads, sessions, stale copies or tables.  An alert and the decision   *)
(* it came from become visible in one step; phones are told of an alert    *)
(* only once it is visible; an alert keeps saying what it said when it was *)
(* issued; one that is over, retracted or expired, never comes back; and a *)
(* decided proposal stays decided.                                         *)
(***************************************************************************)
EXTENDS Naturals, Sequences

VARIABLES
  issued,    \* what the alerts say, in the order they were issued
  over,      \* the alerts that are retracted or expired
  told,      \* the alerts that phones were told of
  decided    \* the proposals that have been decided

contract == <<issued, over, told, decided>>

Init == issued = <<>> /\ over = {} /\ told = {} /\ decided = {}

\* An alert appears with its decision.  A publish that took longer to commit
\* than the alert was to live issues one that is over already.
Issue ==
  /\ Len(issued') = Len(issued) + 1
  /\ \A a \in DOMAIN issued : issued'[a] = issued[a]
  /\ over' \in {over, over \cup {Len(issued')}}
  /\ decided' = decided \cup {issued'[Len(issued')].proposal}
  /\ UNCHANGED told

Tell ==
  /\ \E a \in DOMAIN issued : told' = told \cup {a}
  /\ UNCHANGED <<issued, over, decided>>

\* A retraction ends one alert, an hour that passes may end several.
End ==
  /\ over \subseteq over' /\ over' \subseteq DOMAIN issued
  /\ UNCHANGED <<issued, told, decided>>

\* A dismissal.
Decide ==
  /\ \E p \in decided' : decided' = decided \cup {p}
  /\ UNCHANGED <<issued, over, told>>

Next == Issue \/ Tell \/ End \/ Decide

Spec == Init /\ [][Next]_contract
=============================================================================
