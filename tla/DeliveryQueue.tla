------------------------------ MODULE DeliveryQueue ------------------------------
(***************************************************************************)
(* The collector process (collector/sec360_collector/main.py) and its      *)
(* durable SQLite queue (queue.py).  The deliveries and source_sequences   *)
(* tables survive a crash; everything else is the memory of one process.   *)
(*                                                                         *)
(* One cycle: flush, collect every source (in whatever order they finish), *)
(* flush again, heartbeat, wait.  A flush reads the due rows at its start  *)
(* and posts them one at a time, stopping at the first temporary failure.  *)
(* Posting itself, which needs the backend, is in NetworkMapDelivery.      *)
(***************************************************************************)
EXTENDS NetworkMapSnapshots

CONSTANTS
  NoSource,  \* no sequence is allocated and still unused
  BatchLimit \* the LIMIT of pending(), 50 in the code

ASSUME NoSourceAssumption == NoSource \notin Sources
ASSUME BatchAssumption    == BatchLimit \in Nat \ {0}

VARIABLES
  lastSequence, \* per source: source_sequences.sequence
  deliveries,   \* the rows of the deliveries table
  nextId,       \* the id the next row gets (AUTOINCREMENT)
  phase,        \* where the process is in its cycle
  batch,        \* the rows the running flush has read and not yet settled
  remaining,    \* the sources whose futures have not completed this cycle
  allocated,    \* the source whose sequence is allocated but not enqueued
  sourceType,   \* per source: its type in config.yml
  produced      \* history: every snapshot ever enqueued

tableVars  == <<lastSequence, deliveries, nextId, produced>>
memoryVars == <<phase, batch, remaining, allocated>>

Delivery == [id : Nat, snapshot : Snapshot, status : {"pending", "dead"},
             due : BOOLEAN]

QueueTypeOK ==
  /\ lastSequence \in [Sources -> 0..MaxSequence]
  /\ deliveries \subseteq Delivery
  /\ nextId \in Nat
  /\ phase \in {"cycle", "flush", "collect", "last flush"}
  /\ batch \subseteq Delivery
  /\ remaining \subseteq Sources
  /\ allocated \in Sources \cup {NoSource}
  /\ sourceType \in [Sources -> Types]
  /\ produced \subseteq Snapshot

QueueInit ==
  /\ lastSequence = [s \in Sources |-> 0]
  /\ deliveries = {}
  /\ nextId = 1
  /\ phase = "cycle"
  /\ batch = {}
  /\ remaining = {}
  /\ allocated = NoSource
  /\ sourceType \in [Sources -> Types]
  /\ produced = {}

Queued(x) == \E d \in deliveries : d.snapshot = x
Dead(x)   == \E d \in deliveries : d.snapshot = x /\ d.status = "dead"

--------------------------------------------------------------------------------
(* The operations of DeliveryQueue. *)

\* pending(): the due rows, in id order, up to the limit.
Due == {d \in deliveries : d.status = "pending" /\ d.due}
DueBatch == {d \in Due : Cardinality({e \in Due : e.id < d.id}) < BatchLimit}

\* delivered(): DELETE ... WHERE id = d.id.
Delete(d) == deliveries' = {e \in deliveries : e.id # d.id}

\* Mutant: a status that pending() does not select.
FailParked(d, status) ==
  deliveries' = {e \in deliveries : e.id # d.id} \cup
                {[d EXCEPT !.status = "failed", !.due = FALSE]}

\* failed(): the row stays, dead if the failure is permanent, else backing off.
Fail(d, status) ==
  deliveries' = {e \in deliveries : e.id # d.id} \cup
                {[d EXCEPT !.status = status, !.due = FALSE]}

--------------------------------------------------------------------------------
(* The steps of a cycle that need no backend. *)

\* Each of the two flushes of a cycle starts by reading its batch.
BeginFlush ==
  /\ \/ phase = "cycle" /\ phase' = "flush"
     \/ phase = "collect" /\ remaining = {} /\ allocated = NoSource
        /\ phase' = "last flush"
  /\ batch' = DueBatch
  /\ UNCHANGED <<remaining, allocated, sourceType>> /\ UNCHANGED tableVars

\* A flush ends with its batch settled or given up; the second one is followed
\* by the heartbeat and the wait, the first by the collection.
EndFlush ==
  /\ phase \in {"flush", "last flush"}
  /\ batch = {}
  /\ \/ phase = "flush" /\ phase' = "collect" /\ remaining' = Sources
     \/ phase = "last flush" /\ phase' = "cycle" /\ remaining' = remaining
  /\ UNCHANGED <<batch, allocated, sourceType>> /\ UNCHANGED tableVars

\* A source's collection failed: its status is "error" and nothing is enqueued.
CollectFails(s) ==
  /\ phase = "collect"
  /\ allocated = NoSource
  /\ s \in remaining
  /\ remaining' = remaining \ {s}
  /\ UNCHANGED <<phase, batch, allocated, sourceType>> /\ UNCHANGED tableVars

\* next_sequence(), a transaction of its own.
NextSequence(s) ==
  /\ phase = "collect"
  /\ allocated = NoSource
  /\ s \in remaining
  /\ lastSequence[s] < MaxSequence
  /\ lastSequence' = [lastSequence EXCEPT ![s] = @ + 1]
  /\ allocated' = s
  /\ remaining' = remaining \ {s}
  /\ UNCHANGED <<deliveries, nextId, phase, batch, sourceType, produced>>

\* Mutant: the sequence before the increment.
PreviousSequence == lastSequence[allocated] - 1

\* What next_sequence() returned.
Sequence == lastSequence[allocated]

\* enqueue() commits the payload; or the step fails and the sequence is spent.
Enqueue ==
  /\ allocated # NoSource
  /\ \E form \in {"good", "malformed"} :
       LET x == [source |-> allocated, sequence |-> Sequence,
                 type |-> sourceType[allocated], form |-> form]
       IN  /\ deliveries' = deliveries \cup {[id |-> nextId, snapshot |-> x,
                                  status |-> "pending", due |-> TRUE]}
           /\ produced' = produced \cup {x}
  /\ nextId' = nextId + 1
  /\ allocated' = NoSource
  /\ UNCHANGED <<lastSequence, phase, batch, remaining, sourceType>>

EnqueueFails ==
  /\ allocated # NoSource
  /\ allocated' = NoSource
  /\ UNCHANGED <<phase, batch, remaining, sourceType>> /\ UNCHANGED tableVars

\* next_attempt passes.
BackoffElapses(d) ==
  /\ d \in deliveries
  /\ d.status = "pending"
  /\ ~ d.due
  /\ deliveries' = (deliveries \ {d}) \cup {[d EXCEPT !.due = TRUE]}
  /\ UNCHANGED <<lastSequence, nextId, produced, sourceType>>
  /\ UNCHANGED memoryVars

\* The process dies and the container restarts it: its memory is gone.
Restart ==
  /\ phase' = "cycle"
  /\ batch' = {}
  /\ remaining' = {}
  /\ allocated' = NoSource

CollectorStep ==
  \/ BeginFlush \/ EndFlush \/ Enqueue \/ EnqueueFails
  \/ \E s \in Sources : CollectFails(s) \/ NextSequence(s)
  \/ \E d \in deliveries : BackoffElapses(d)
================================================================================
