-------------------------- MODULE NetworkMapSnapshots --------------------------
(***************************************************************************)
(* The snapshots that the on-premises collector produces and the backend   *)
(* ingests: what a payload of collector/sec360_collector/main.py is to the *)
(* code that queues it and to the code that accepts or refuses it.         *)
(***************************************************************************)
EXTENDS Integers, FiniteSets

CONSTANTS
  Sources,    \* the ids of the sources configured on one collector
  Types,      \* the source types (cisco_wlc, fortigate, mikrotik)
  MaxSequence \* bound: the highest sequence a source reaches

ASSUME SourcesAssumption  == Sources # {} /\ IsFiniteSet(Sources)
ASSUME TypesAssumption    == Types # {}
ASSUME SequenceAssumption == MaxSequence \in Nat \ {0}

(***************************************************************************)
(* snapshot_id is a fresh uuid per payload and a source's sequence numbers *)
(* are never reused, so the pair of source and sequence stands for it.     *)
(* "malformed" is a payload the backend refuses whatever its state: a      *)
(* failed schema validation, more than 100000 records, a record list with  *)
(* a non-object, an incomplete snapshot, a foreign collector_id.           *)
(***************************************************************************)
Snapshot == [source : Sources, sequence : 1..MaxSequence, type : Types,
             form : {"good", "malformed"}]

SameSource(x, y) == x.source = y.source
SameId(x, y)     == x.source = y.source /\ x.sequence = y.sequence

\* y is as recent as x, or more, for the source they share.
AtLeast(y, x) == SameSource(x, y) /\ y.sequence >= x.sequence
================================================================================
