----------------------------- MODULE LatestSnapshot -----------------------------
(***************************************************************************)
(* What the network map promises its reader: for each source the map shows *)
(* one collected snapshot, which is only ever replaced by a more recent    *)
(* one of that source, until an administrator deletes the source's data.   *)
(***************************************************************************)
EXTENDS NetworkMapSnapshots

VARIABLES
  collected, \* the snapshots the collector has handed over for delivery
  shown      \* the snapshots the map is drawn from

vars == <<collected, shown>>

Init == collected = {} /\ shown = {}

Collect ==
  /\ \E x \in Snapshot :
       /\ ~ \E y \in collected : AtLeast(y, x)
       /\ collected' = collected \cup {x}
  /\ UNCHANGED shown

Show ==
  /\ \E x \in collected :
       /\ ~ \E y \in shown : AtLeast(y, x)
       /\ shown' = {y \in shown : y.source # x.source} \cup {x}
  /\ UNCHANGED collected

Clear ==
  /\ \E s \in Sources : shown' = {y \in shown : y.source # s}
  /\ UNCHANGED collected

Next == Collect \/ Show \/ Clear

Spec == Init /\ [][Next]_vars
================================================================================
