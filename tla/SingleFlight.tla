----------------------------- MODULE SingleFlight -----------------------------
(***************************************************************************)
(* What sharing one repair among many callers promises: whoever is in need *)
(* of it joins the one that is under way, or starts it if there is none,   *)
(* and its end lets every one of them go on, in one step.                  *)
(***************************************************************************)
CONSTANTS Tabs,   \* the parties that do not share with one another
          Slots   \* the callers of each

VARIABLES waiting,  \* per party: the callers that wait
          flights   \* per party: the callers whose repair is under way

vars == <<waiting, flights>>

Init ==
  /\ waiting = [t \in Tabs |-> {}]
  /\ flights = [t \in Tabs |-> {}]

Join(t, q) ==
  /\ q \notin waiting[t]
  /\ waiting' = [waiting EXCEPT ![t] = @ \cup {q}]
  /\ flights' = [flights EXCEPT ![t] = IF @ = {} THEN {q} ELSE @]

Settle(t) ==
  /\ flights[t] # {}
  /\ waiting' = [waiting EXCEPT ![t] = {}]
  /\ flights' = [flights EXCEPT ![t] = {}]

Next == \E t \in Tabs : Settle(t) \/ \E q \in Slots : Join(t, q)

Spec == Init /\ [][Next]_vars
================================================================================
