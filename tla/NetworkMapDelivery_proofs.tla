------------------------ MODULE NetworkMapDelivery_proofs ------------------------
(***************************************************************************)
(* Theorems about NetworkMapDelivery, for every value of its constants.    *)
(***************************************************************************)
EXTENDS NetworkMapDelivery, WellFoundedInduction, TLAPS

Requests == [Slots -> {Free} \cup Busy]

\* A source whose sequence is allocated has one to enqueue.
Allocation == allocated # NoSource => lastSequence[allocated] \in 1..MaxSequence

\* While an answer is awaited, a flush is running and has a row in hand.
Awaiting == waiting # NoSlot => batch # {} /\ phase \in {"flush", "last flush"}

\* Every rotation of the token is counted.
Rotations == token <= faults

TypeInv == TypeOK /\ Allocation /\ Awaiting /\ Rotations

--------------------------------------------------------------------------------
(* Requests. *)

\* A slot whose stage is not "free" holds a whole request.
LEMMA BusyRequest ==
  ASSUME request \in Requests, NEW i \in Slots, request[i].stage # "free"
  PROVE  request[i] \in Busy
  BY DEF Requests, Free

\* Moving a request to another stage keeps the table of requests well typed and
\* changes nothing else.
LEMMA StageType ==
  ASSUME request \in Requests, NEW i \in Slots, request[i].stage # "free",
         NEW stage \in Stages, Stage(i, stage)
  PROVE  /\ request' \in Requests
         /\ request'[i] = [request[i] EXCEPT !.stage = stage]
         /\ \A j \in Slots \ {i} : request'[j] = request[j]
  <1>1. request[i] \in Busy
    BY BusyRequest
  <1>2. [request[i] EXCEPT !.stage = stage] \in Busy
    BY <1>1 DEF Busy
  <1>3. request' = [request EXCEPT ![i] = [request[i] EXCEPT !.stage = stage]]
    BY DEF Stage
  <1> QED
    BY <1>2, <1>3 DEF Requests

\* Freeing a slot.
LEMMA FreeType ==
  ASSUME request \in Requests, NEW i \in Slots,
         request' = [request EXCEPT ![i] = Free]
  PROVE  /\ request' \in Requests
         /\ request'[i] = Free
         /\ \A j \in Slots \ {i} : request'[j] = request[j]
  BY DEF Requests

\* Deleting a connection dooms some requests and leaves the others alone.
LEMMA DeleteType ==
  ASSUME request \in Requests, NEW s \in Sources, DeleteConnection(s)
  PROVE  /\ request' \in Requests
         /\ \A j \in Slots :
              \/ request'[j] = request[j]
              \/ /\ request[j].stage = "located" /\ request'[j].stage = "retry"
                 /\ request'[j].snapshot = request[j].snapshot
  <1>1. ASSUME NEW j \in Slots
        PROVE  /\ request'[j] \in {Free} \cup Busy
               /\ \/ request'[j] = request[j]
                  \/ /\ request[j].stage = "located" /\ request'[j].stage = "retry"
                     /\ request'[j].snapshot = request[j].snapshot
    <2>1. CASE RefersTo(j, s)
      <3>1. request[j] \in Busy /\ request[j].stage = "located"
        BY <2>1, BusyRequest DEF RefersTo
      <3>2. request'[j] = [request[j] EXCEPT !.stage = "retry"]
        BY <2>1 DEF DeleteConnection
      <3> QED BY <3>1, <3>2 DEF Busy, Stages
    <2>2. CASE ~ RefersTo(j, s)
      <3>1. request'[j] = request[j]
        BY <2>2 DEF DeleteConnection
      <3> QED BY <3>1 DEF Requests
    <2> QED BY <2>1, <2>2
  <1>2. DOMAIN request' = Slots /\ request' = [j \in Slots |-> request'[j]]
    BY DEF DeleteConnection
  <1> QED BY <1>1, <1>2 DEF Requests

\* The smallest id of a batch belongs to a row of it.
LEMMA InHandInBatch ==
  ASSUME batch \subseteq Delivery, batch # {}
  PROVE  InHand \in batch
  <1> DEFINE ids  == {d.id : d \in batch}
             less == {ss \in Nat \X Nat : ss[1] < ss[2]}
  <1>1. ids \subseteq Nat /\ ids # {}
    BY DEF Delivery
  <1>2. IsWellFoundedOn(less, Nat)
    BY NatLessThanWellFounded, Zenon DEF OpToRel
  <1>3. PICK m \in ids : \A n \in ids : <<n, m>> \notin less
    <2> HIDE DEF ids, less
    <2> QED BY <1>1, <1>2, WFMin
  <1>4. ASSUME NEW n \in ids PROVE m <= n
    <2>1. m \in Nat /\ n \in Nat
      BY <1>1
    <2>2. n < m => <<n, m>> \in less
      BY <2>1
    <2> HIDE DEF ids, less
    <2> QED BY <1>3, <2>1, <2>2
  <1> QED BY <1>4 DEF InHand
--------------------------------------------------------------------------------
(* Type correctness. *)

LEMMA InitType == Init => TypeInv
  <1> SUFFICES ASSUME Init PROVE TypeInv
    OBVIOUS
  <1>1. QueueTypeOK
    BY SequenceAssumption DEF Init, QueueInit, QueueTypeOK
  <1>2. IngestTypeOK
    <2>1. request \in [Slots -> {Free} \cup Busy]
      BY DEF Init, IngestInit
    <2>2. connection \in [Sources -> Types \cup {NoType}]
      BY DEF Init, IngestInit
    <2>3. revoked \in BOOLEAN
      BY Zenon DEF Init, IngestInit
    <2>4. /\ rowLock = NoSlot /\ runs = {} /\ current = {} /\ token = 0
          /\ faults = 0 /\ accepted = {}
      BY DEF Init, IngestInit
    <2> QED
      BY <2>1, <2>2, <2>3, <2>4, FaultsAssumption DEF IngestTypeOK
  <1>3. Allocation /\ Awaiting
    BY DEF Init, QueueInit, Allocation, Awaiting
  <1>4. Rotations
    BY DEF Init, IngestInit, Rotations
  <1> QED BY <1>1, <1>2, <1>3, <1>4, FaultsAssumption DEF Init, TypeInv, TypeOK

\* The collector's own steps.
LEMMA CollectorType ==
  ASSUME TypeInv, Collector
  PROVE  TypeInv'
  <1> USE DEF TypeInv, TypeOK, QueueTypeOK, IngestTypeOK, Allocation, Awaiting,
             Rotations
  <1>0. UNCHANGED <<request, rowLock, connection, runs, current, token, revoked,
                    accepted, faults, waiting, credential>>
    BY DEF Collector, serverVars
  <1>1. CASE BeginFlush
    BY <1>0, <1>1 DEF BeginFlush, tableVars, DueBatch, Due
  <1>2. CASE EndFlush
    BY <1>0, <1>2 DEF EndFlush, tableVars
  <1>3. CASE Enqueue
    <2>1. PICK form \in {"good", "malformed"} :
            LET x == [source |-> allocated, sequence |-> Sequence,
                      type |-> sourceType[allocated], form |-> form]
            IN  /\ deliveries' = deliveries \cup {[id |-> nextId, snapshot |-> x,
                                   status |-> "pending", due |-> TRUE]}
                /\ produced' = produced \cup {x}
      BY <1>3 DEF Enqueue
    <2> DEFINE x == [source |-> allocated, sequence |-> Sequence,
                     type |-> sourceType[allocated], form |-> form]
    <2>2. allocated \in Sources
      BY <1>3 DEF Enqueue
    <2>3. x \in Snapshot
      BY <2>2, <1>3 DEF Enqueue, Snapshot, Sequence
    <2>4. [id |-> nextId, snapshot |-> x, status |-> "pending", due |-> TRUE]
            \in Delivery
      BY <2>3 DEF Delivery
    <2>5. deliveries' \subseteq Delivery /\ produced' \subseteq Snapshot
      <3> HIDE DEF x
      <3> QED BY <2>1, <2>3, <2>4 DEF x
    <2>6. /\ nextId' = nextId + 1 /\ allocated' = NoSource
          /\ UNCHANGED <<lastSequence, phase, batch, remaining, sourceType>>
      BY <1>3 DEF Enqueue
    <2>7. nextId' \in Nat
      <3>1. nextId \in Nat
        OBVIOUS
      <3> HIDE DEF TypeInv
      <3> QED BY <2>6, <3>1
    <2>8. IngestTypeOK'
      BY <1>0
    <2> QED
      BY <1>0, <2>5, <2>6, <2>7, <2>8
  <1>4. CASE EnqueueFails
    BY <1>0, <1>4 DEF EnqueueFails, tableVars
  <1>5. ASSUME NEW s \in Sources, CollectFails(s) PROVE TypeInv'
    BY <1>0, <1>5 DEF CollectFails, tableVars
  <1>6. ASSUME NEW s \in Sources, NextSequence(s) PROVE TypeInv'
    <2>1. lastSequence[s] \in 0..MaxSequence /\ lastSequence[s] < MaxSequence
      BY <1>6 DEF NextSequence
    <2>2. lastSequence[s] + 1 \in 1..MaxSequence
      <3> HIDE DEF TypeInv
      <3> QED BY <2>1, SequenceAssumption
    <2>3. lastSequence' \in [Sources -> 0..MaxSequence]
      BY <1>6, <2>2 DEF NextSequence
    <2>4. lastSequence'[s] \in 1..MaxSequence /\ allocated' = s
      BY <1>6, <2>2 DEF NextSequence
    <2> QED BY <1>0, <1>6, <2>3, <2>4 DEF NextSequence
  <1>7. ASSUME NEW d \in deliveries, BackoffElapses(d) PROVE TypeInv'
    <2>1. [d EXCEPT !.due = TRUE] \in Delivery
      BY DEF Delivery
    <2> QED BY <1>0, <1>7, <2>1 DEF BackoffElapses, memoryVars
  <1> QED
    BY <1>1, <1>2, <1>3, <1>4, <1>5, <1>6, <1>7 DEF Collector, CollectorStep

\* A fault is counted within the bound.
LEMMA FaultType ==
  ASSUME TypeInv, Fault
  PROVE  faults' \in 0..MaxFaults /\ faults' = faults + 1
  BY FaultsAssumption DEF TypeInv, TypeOK, IngestTypeOK, Fault

\* The token stays within the rotations counted, whether or not a fault occurs.
LEMMA RotationsKept ==
  ASSUME TypeInv, token' = token, faults' = faults \/ Fault
  PROVE  Rotations'
  <1>1. token \in Nat /\ faults \in Nat /\ token <= faults
    BY FaultsAssumption DEF TypeInv, TypeOK, IngestTypeOK, Rotations
  <1>2. faults' = faults \/ faults' = faults + 1
    BY FaultType
  <1> QED BY <1>1, <1>2 DEF Rotations

\* The row in hand keeps a well typed row when its delivery fails.
LEMMA FailType ==
  ASSUME TypeInv, batch # {}, NEW status \in {"pending", "dead"},
         Fail(InHand, status)
  PROVE  deliveries' \subseteq Delivery
  <1>1. InHand \in Delivery
    BY InHandInBatch DEF TypeInv, TypeOK, QueueTypeOK
  <1>2. [InHand EXCEPT !.status = status, !.due = FALSE] \in Delivery
    BY <1>1 DEF Delivery
  <1> QED BY <1>2 DEF Fail, TypeInv, TypeOK, QueueTypeOK

\* Posting the row in hand, and what the collector does with the outcome.
LEMMA FlushType ==
  ASSUME TypeInv, NEW i \in Slots,
         Post(i) \/ Delivered(i) \/ Rejected(i) \/ Deferred(i) \/ TimedOut(i)
  PROVE  TypeInv'
  <1> USE DEF TypeInv, TypeOK, QueueTypeOK, IngestTypeOK, Allocation, Awaiting,
             Rotations
  <1>1. CASE Post(i)
    <2>1. InHand \in Delivery
      BY <1>1, InHandInBatch DEF Post
    <2>2. [stage |-> "sent", snapshot |-> InHand.snapshot, token |-> credential,
           found |-> NoType, retiring |-> {}] \in Busy
      BY <2>1 DEF Busy, Stages, Delivery
    <2>3. request' \in [Slots -> {Free} \cup Busy]
      BY <1>1, <2>2 DEF Post
    <2> QED
      BY <1>1, <2>3 DEF Post, collectorVars
  <1> HIDE DEF TypeInv
  <1>2. ASSUME waiting = i
        PROVE  batch # {} /\ phase \in {"flush", "last flush"}
    BY <1>2, SlotsAssumption DEF TypeInv
  <1>3. request \in Requests
    BY DEF TypeInv, Requests
  <1>4. CASE Delivered(i)
    <2>1. request' \in Requests
      BY <1>3, <1>4, FreeType DEF Delivered
    <2>2. deliveries' \subseteq deliveries /\ batch' \subseteq batch
      BY <1>4 DEF Delivered, Delete
    <2> QED
      BY <1>4, <2>1, <2>2 DEF TypeInv, Delivered, Requests
  <1>5. CASE Rejected(i)
    <2>1. request' \in Requests
      BY <1>3, <1>5, FreeType DEF Rejected
    <2>2. deliveries' \subseteq Delivery
      BY <1>2, <1>5, FailType DEF Rejected
    <2> QED
      BY <1>5, <2>1, <2>2 DEF TypeInv, Rejected, Requests
  <1>6. CASE Deferred(i)
    <2>1. request' \in Requests
      BY <1>3, <1>6, FreeType DEF Deferred
    <2>2. deliveries' \subseteq Delivery
      BY <1>2, <1>6, FailType DEF Deferred, GiveUp
    <2> QED
      BY <1>6, <2>1, <2>2 DEF TypeInv, Deferred, GiveUp, Requests
  <1>7. CASE TimedOut(i)
    <2>1. deliveries' \subseteq Delivery
      BY <1>2, <1>7, FailType DEF TimedOut, GiveUp
    <2>2. faults' \in 0..MaxFaults /\ Rotations'
      BY <1>7, FaultType, RotationsKept DEF TimedOut, GiveUp
    <2> QED
      BY <1>7, <2>1, <2>2 DEF TypeInv, TimedOut, GiveUp
  <1> QED
    BY <1>1, <1>4, <1>5, <1>6, <1>7

\* What the network loses.
LEMMA NetworkType ==
  ASSUME TypeInv, NEW i \in Slots, RequestLost(i) \/ AnswerDropped(i)
  PROVE  TypeInv'
  <1>1. request' \in Requests
    BY FreeType DEF TypeInv, TypeOK, IngestTypeOK, Requests, RequestLost,
       AnswerDropped
  <1>2. faults' \in 0..MaxFaults /\ Rotations'
    BY FaultType, RotationsKept DEF TypeInv, TypeOK, IngestTypeOK, RequestLost,
       AnswerDropped
  <1>3. UNCHANGED <<rowLock, connection, runs, current, token, revoked, accepted,
                    waiting, credential>> /\ UNCHANGED collectorVars
    BY DEF RequestLost, AnswerDropped
  <1> QED
    BY <1>1, <1>2, <1>3 DEF TypeInv, TypeOK, QueueTypeOK, IngestTypeOK, Allocation,
       Awaiting, Requests, collectorVars

\* The steps of a handler, up to the types of what the backend keeps.
LEMMA HandleType ==
  ASSUME TypeInv, NEW i \in Slots, Handle(i)
  PROVE  IngestTypeOK'
  <1>0. /\ request \in Requests /\ IngestTypeOK
        /\ token' = token /\ revoked' = revoked /\ faults' = faults
    BY DEF TypeInv, TypeOK, IngestTypeOK, Requests, Handle, Authenticate,
       CheckDuplicate, CheckStale, FindConnection, BeginWrite, Commit
  <1> USE DEF IngestTypeOK
  <1>1. CASE Authenticate(i)
    <2>1. request' \in Requests
      BY <1>0, <1>1, StageType DEF Authenticate, Stages
    <2> QED BY <1>0, <1>1, <2>1 DEF Authenticate, Requests
  <1>2. CASE CheckDuplicate(i)
    <2>1. request' \in Requests
      BY <1>0, <1>2, StageType DEF CheckDuplicate, Stages
    <2> QED BY <1>0, <1>2, <2>1 DEF CheckDuplicate, Requests
  <1>3. CASE CheckStale(i)
    <2>1. request' \in Requests
      BY <1>0, <1>3, StageType DEF CheckStale, Stages
    <2> QED BY <1>0, <1>3, <2>1 DEF CheckStale, Requests
  <1>4. CASE FindConnection(i)
    <2> DEFINE found == connection[request[i].snapshot.source]
    <2>1. request[i] \in Busy
      BY <1>0, <1>4, BusyRequest DEF FindConnection
    <2>2. found \in Types \cup {NoType}
      BY <1>0, <2>1 DEF Busy, Snapshot
    <2>3. CASE Stage(i, "rejected")
      <3>1. request' \in Requests
        BY <1>0, <1>4, <2>3, StageType DEF FindConnection, Stages
      <3> QED BY <1>0, <1>4, <3>1 DEF FindConnection, Requests
    <2>4. CASE request' = [request EXCEPT ![i].stage = "located", ![i].found = found]
      <3> HIDE DEF found
      <3>1. [request[i] EXCEPT !.stage = "located", !.found = found] \in Busy
        BY <2>1, <2>2 DEF Busy, Stages
      <3>2. request' = [request EXCEPT ![i] =
                         [request[i] EXCEPT !.stage = "located", !.found = found]]
        BY <2>4
      <3>3. request' \in Requests
        BY <1>0, <3>1, <3>2 DEF Requests
      <3> QED BY <1>0, <1>4, <3>3 DEF FindConnection, Requests
    <2> QED
      BY <1>4, <2>3, <2>4 DEF FindConnection
  <1>5. CASE BeginWrite(i)
    <2> DEFINE same == {y \in current : SameSource(y, request[i].snapshot)}
    <2>1. request[i] \in Busy
      BY <1>0, <1>5, BusyRequest DEF BeginWrite
    <2>2. CASE Stage(i, "retry") /\ rowLock' = rowLock
      <3>1. request' \in Requests
        BY <1>0, <1>5, <2>2, StageType DEF BeginWrite, Stages
      <3> QED BY <1>0, <1>5, <2>2, <3>1 DEF BeginWrite, Requests
    <2>3. CASE /\ rowLock' = i
               /\ request' = [request EXCEPT ![i].stage = "writing",
                                             ![i].retiring = same]
      <3>0. same \in SUBSET Snapshot
        BY <1>0
      <3> HIDE DEF same
      <3>1. [request[i] EXCEPT !.stage = "writing", !.retiring = same] \in Busy
        BY <2>1, <3>0 DEF Busy, Stages
      <3>2. request' = [request EXCEPT ![i] =
                         [request[i] EXCEPT !.stage = "writing", !.retiring = same]]
        BY <2>3
      <3>3. request' \in Requests
        BY <1>0, <3>1, <3>2 DEF Requests
      <3> QED BY <1>0, <1>5, <2>3, <3>3 DEF BeginWrite, Requests
    <2> QED
      BY <1>5, <2>2, <2>3 DEF BeginWrite
  <1>6. CASE Commit(i)
    <2>1. request[i] \in Busy
      BY <1>0, <1>6, BusyRequest DEF Commit
    <2>2. request' \in Requests
      BY <1>0, <1>6, StageType DEF Commit, Stages
    <2>3. request[i].snapshot \in Snapshot
      BY <2>1 DEF Busy
    <2>4. runs' \subseteq Snapshot /\ current' \subseteq Snapshot
          /\ accepted' \subseteq Snapshot /\ rowLock' = NoSlot
      BY <1>0, <1>6, <2>3 DEF Commit, Replaced
    <2>5. connection' \in [Sources -> Types \cup {NoType}]
      BY <1>0, <1>6, <2>3 DEF Commit, Snapshot
    <2> QED BY <1>0, <2>2, <2>4, <2>5 DEF Requests
  <1> QED
    BY <1>1, <1>2, <1>3, <1>4, <1>5, <1>6 DEF Handle

\* The administrator's actions and a crash of the backend.
LEMMA AdminType ==
  ASSUME TypeInv, Admin
  PROVE  IngestTypeOK' /\ Rotations'
  <1>0. IngestTypeOK /\ faults' \in 0..MaxFaults /\ faults' = faults + 1
    BY FaultType DEF TypeInv, TypeOK, Admin, RotateToken, Revoke, ServerCrash,
       DeleteConnection
  <1>1. CASE RotateToken
    <2>1. token' \in 0..MaxFaults /\ Rotations'
      <3>1. token \in 0..MaxFaults /\ faults \in 0..MaxFaults /\ token <= faults
        BY DEF TypeInv, TypeOK, IngestTypeOK, Rotations
      <3>2. token' = token + 1
        BY <1>1 DEF RotateToken
      <3> QED BY <1>0, <3>1, <3>2, FaultsAssumption DEF Rotations
    <2> QED BY <1>0, <1>1, <2>1 DEF RotateToken, IngestTypeOK
  <1>2. CASE Revoke
    BY <1>0, <1>2, RotationsKept DEF Revoke, IngestTypeOK
  <1>3. CASE ServerCrash
    <2>1. request' \in [Slots -> {Free} \cup Busy]
      BY <1>3 DEF ServerCrash
    <2> QED
      BY <1>0, <1>3, <2>1, RotationsKept DEF ServerCrash, IngestTypeOK
  <1>4. ASSUME NEW s \in Sources, DeleteConnection(s)
        PROVE  IngestTypeOK' /\ Rotations'
    <2>1. connection' \in [Sources -> Types \cup {NoType}]
      BY <1>0, <1>4 DEF DeleteConnection, IngestTypeOK
    <2>2. request' \in [Slots -> {Free} \cup Busy]
      BY <1>0, <1>4, DeleteType DEF Requests, IngestTypeOK
    <2> QED
      BY <1>0, <1>4, <2>1, <2>2, RotationsKept DEF DeleteConnection, IngestTypeOK
  <1> QED
    BY <1>1, <1>2, <1>3, <1>4 DEF Admin

LEMMA NextType == TypeInv /\ [Next]_vars => TypeInv'
  <1> SUFFICES ASSUME TypeInv, [Next]_vars PROVE TypeInv'
    OBVIOUS
  <1>1. CASE Collector
    BY <1>1, CollectorType
  <1>2. ASSUME NEW i \in Slots,
               \/ Post(i) \/ Delivered(i) \/ Rejected(i) \/ Deferred(i)
               \/ TimedOut(i)
        PROVE  TypeInv'
    BY <1>2, FlushType
  <1>3. ASSUME NEW i \in Slots, RequestLost(i) \/ AnswerDropped(i)
        PROVE  TypeInv'
    BY <1>3, NetworkType
  <1>4. ASSUME NEW i \in Slots, Serve(i)
        PROVE  TypeInv'
    <2>1. IngestTypeOK'
      BY <1>4, HandleType DEF Serve
    <2>2. Rotations'
      BY <1>4, RotationsKept DEF Serve, Handle, Authenticate, CheckDuplicate,
         CheckStale, FindConnection, BeginWrite, Commit
    <2> QED
      BY <1>4, <2>1, <2>2 DEF Serve, TypeInv, TypeOK, QueueTypeOK, Allocation,
         Awaiting, collectorVars
  <1>5. CASE Admin /\ UNCHANGED <<waiting, credential>> /\ UNCHANGED collectorVars
    BY <1>5, AdminType DEF TypeInv, TypeOK, QueueTypeOK, Allocation, Awaiting,
       collectorVars
  <1>6. CASE CollectorRestart
    <2>1. faults' \in 0..MaxFaults /\ Rotations'
      BY <1>6, FaultType, RotationsKept DEF CollectorRestart
    <2>2. credential' \in 0..MaxFaults
      BY <1>6 DEF CollectorRestart, TypeInv, TypeOK, IngestTypeOK
    <2> QED
      BY <1>6, <2>1, <2>2 DEF CollectorRestart, Restart, tableVars, TypeInv, TypeOK,
         QueueTypeOK, IngestTypeOK, Allocation, Awaiting
  <1>7. CASE UNCHANGED vars
    BY <1>7 DEF vars, TypeInv, TypeOK, QueueTypeOK, IngestTypeOK, Allocation,
       Awaiting, Rotations
  <1> QED
    BY <1>1, <1>2, <1>3, <1>4, <1>5, <1>6, <1>7 DEF Next

\* The state of the collector, its queue, the requests and the backend's tables
\* keep the shapes that TypeOK gives them (collector main.py and queue.py,
\* network_map/service.py).
THEOREM TypeCorrect == Spec => []TypeOK
  <1>1. TypeInv => TypeOK
    BY DEF TypeInv
  <1> QED
    BY <1>1, InitType, NextType, PTL DEF Spec

--------------------------------------------------------------------------------
(* At most one current run per source. *)

\* A request that writes holds the row lock, and will retire exactly the runs of
\* its source that are current.
Locking ==
  \A i \in Slots : request[i].stage = "writing" =>
    /\ rowLock = i
    /\ request[i].retiring = {y \in current : SameSource(y, request[i].snapshot)}

LockInv == Locking /\ OneCurrentRun

\* A step that neither changes what is current nor starts a write keeps it.
LEMMA LockKept ==
  ASSUME LockInv, current' = current, rowLock' = rowLock,
         \A j \in Slots : request'[j] = request[j] \/ request'[j].stage # "writing"
  PROVE  LockInv'
  BY DEF LockInv, Locking, OneCurrentRun

\* The steps of a handler.
LEMMA LockHandle ==
  ASSUME TypeInv, LockInv, NEW i \in Slots, Handle(i)
  PROVE  LockInv'
  <1>0. request \in Requests
    BY DEF TypeInv, TypeOK, IngestTypeOK, Requests
  <1>1. ASSUME NEW stage \in Stages \ {"writing"}, Stage(i, stage),
               request[i].stage # "free", current' = current, rowLock' = rowLock
        PROVE  LockInv'
    <2>1. request[i] \in Busy
      BY <1>0, <1>1, BusyRequest
    <2>2. /\ request'[i] = [request[i] EXCEPT !.stage = stage]
          /\ \A j \in Slots \ {i} : request'[j] = request[j]
      BY <1>0, <1>1, StageType
    <2>3. request'[i].stage = stage
      BY <2>1, <2>2 DEF Busy
    <2> QED BY <1>1, <2>2, <2>3, LockKept
  <1>2. CASE Authenticate(i)
    BY <1>1, <1>2 DEF Authenticate, Stages
  <1>3. CASE CheckDuplicate(i)
    BY <1>1, <1>3 DEF CheckDuplicate, Stages
  <1>4. CASE CheckStale(i)
    BY <1>1, <1>4 DEF CheckStale, Stages
  <1>5. CASE FindConnection(i)
    <2> DEFINE found == connection[request[i].snapshot.source]
    <2>1. CASE Stage(i, "rejected")
      BY <1>1, <1>5, <2>1 DEF FindConnection, Stages
    <2>2. CASE request' = [request EXCEPT ![i].stage = "located", ![i].found = found]
      <3>1. request[i] \in Busy
        BY <1>0, <1>5, BusyRequest DEF FindConnection
      <3>2. request'[i].stage = "located" /\ \A j \in Slots \ {i} : request'[j] = request[j]
        BY <1>0, <2>2, <3>1 DEF Busy, Requests
      <3> QED BY <1>5, <3>2, LockKept DEF FindConnection
    <2> QED BY <1>5, <2>1, <2>2 DEF FindConnection
  <1>6. CASE BeginWrite(i)
    <2> DEFINE same == {y \in current : SameSource(y, request[i].snapshot)}
    <2>1. CASE Stage(i, "retry") /\ rowLock' = rowLock
      BY <1>1, <1>6, <2>1 DEF BeginWrite, Stages
    <2>2. CASE /\ rowLock' = i
               /\ request' = [request EXCEPT ![i].stage = "writing",
                                             ![i].retiring = same]
      <3>1. request[i] \in Busy
        BY <1>0, <1>6, BusyRequest DEF BeginWrite
      <3>2. request'[i] = [request[i] EXCEPT !.stage = "writing", !.retiring = same]
            /\ \A j \in Slots \ {i} : request'[j] = request[j]
        BY <1>0, <2>2 DEF Requests
      <3>3. request'[i].snapshot = request[i].snapshot /\ request'[i].retiring = same
        BY <3>1, <3>2 DEF Busy
      <3>4. \A j \in Slots \ {i} : request[j].stage # "writing"
        BY <1>6, SlotsAssumption DEF BeginWrite, LockIsFree, LockInv, Locking
      <3>5. current' = current
        BY <1>6 DEF BeginWrite
      <3> QED
        BY <2>2, <3>2, <3>3, <3>4, <3>5 DEF LockInv, Locking, OneCurrentRun
    <2> QED BY <1>6, <2>1, <2>2 DEF BeginWrite
  <1>7. CASE Commit(i)
    <2>1. request[i] \in Busy
      BY <1>0, <1>7, BusyRequest DEF Commit
    <2>2. request'[i].stage = "ok" /\ \A j \in Slots \ {i} : request'[j] = request[j]
      BY <1>0, <1>7, <2>1, StageType DEF Commit, Stages, Busy
    <2>3. \A j \in Slots \ {i} : request[j].stage # "writing"
      BY <1>7 DEF Commit, LockInv, Locking
    <2>4. current' = {y \in current : ~ SameSource(y, request[i].snapshot)}
                     \cup {request[i].snapshot}
      BY <1>7 DEF Commit, Replaced, LockInv, Locking
    <2>5. OneCurrentRun'
      BY <2>4 DEF LockInv, OneCurrentRun, SameSource
    <2> QED BY <2>2, <2>3, <2>5 DEF LockInv, Locking
  <1> QED
    BY <1>2, <1>3, <1>4, <1>5, <1>6, <1>7 DEF Handle

\* Deleting a connection touches no source that a request is writing.
LEMMA LockDelete ==
  ASSUME request \in Requests, LockInv, NEW s \in Sources, DeleteConnection(s)
  PROVE  LockInv'
  <1>1. current' = {y \in current : y.source # s} /\ rowLock' = rowLock
    BY DEF DeleteConnection
  <1>2. \A i \in Slots : request[i].stage = "writing" => request[i].snapshot.source # s
    BY DEF DeleteConnection
  <1>3. \A j \in Slots : \/ request'[j] = request[j]
                         \/ request[j].stage = "located" /\ request'[j].stage = "retry"
    BY DeleteType
  <1> QED BY <1>1, <1>2, <1>3 DEF LockInv, Locking, OneCurrentRun, SameSource

LEMMA LockNext == TypeInv /\ LockInv /\ [Next]_vars => LockInv'
  <1> SUFFICES ASSUME TypeInv, LockInv, [Next]_vars PROVE LockInv'
    OBVIOUS
  <1>0. request \in Requests
    BY DEF TypeInv, TypeOK, IngestTypeOK, Requests
  <1>1. CASE Collector
    BY <1>1, LockKept DEF Collector, serverVars
  <1>2. ASSUME NEW i \in Slots, Post(i) PROVE LockInv'
    BY <1>0, <1>2, LockKept DEF Post, Requests
  <1>3. ASSUME NEW i \in Slots,
               \/ Delivered(i) \/ Rejected(i) \/ Deferred(i)
               \/ RequestLost(i) \/ AnswerDropped(i)
        PROVE  LockInv'
    <2>1. request' = [request EXCEPT ![i] = Free] /\ current' = current
          /\ rowLock' = rowLock
      BY <1>3 DEF Delivered, Rejected, Deferred, GiveUp, RequestLost, AnswerDropped
    <2> QED BY <1>0, <2>1, FreeType, LockKept DEF Free
  <1>4. ASSUME NEW i \in Slots, TimedOut(i) PROVE LockInv'
    BY <1>4, LockKept DEF TimedOut, GiveUp
  <1>5. ASSUME NEW i \in Slots, Serve(i) PROVE LockInv'
    BY <1>5, LockHandle DEF Serve
  <1>6. CASE Admin /\ UNCHANGED <<waiting, credential>> /\ UNCHANGED collectorVars
    <2>1. CASE RotateToken \/ Revoke
      BY <2>1, LockKept DEF RotateToken, Revoke
    <2>2. CASE ServerCrash
      BY <2>2 DEF ServerCrash, LockInv, Locking, OneCurrentRun, Free
    <2> QED
      BY <1>0, <1>6, <2>1, <2>2, LockDelete DEF Admin
  <1>7. CASE CollectorRestart
    BY <1>7, LockKept DEF CollectorRestart
  <1>8. CASE UNCHANGED vars
    BY <1>8, LockKept DEF vars
  <1> QED
    BY <1>1, <1>2, <1>3, <1>4, <1>5, <1>6, <1>7, <1>8 DEF Next

\* However many ingests of one collector overlap, a source never has two current
\* runs: the row lock that the first flush of ingest_collector_snapshot takes
\* serialises what they retire and add.
THEOREM CurrentRunUnique == Spec => []OneCurrentRun
  <1>1. Init => LockInv
    BY DEF Init, IngestInit, LockInv, Locking, OneCurrentRun, Free
  <1>2. LockInv => OneCurrentRun
    BY DEF LockInv
  <1> QED
    BY <1>1, <1>2, InitType, NextType, LockNext, PTL DEF Spec

--------------------------------------------------------------------------------
(* Nothing that was queued is forgotten. *)

\* Row ids are unique and never reused; a flush holds rows that are still in the
\* table, due, and untouched since it read them.
Rows ==
  /\ \A d \in deliveries : d.id < nextId
  /\ \A d, e \in deliveries : d.id = e.id => d = e
  /\ batch \subseteq deliveries
  /\ \A d \in batch : d.due

\* The answer awaited is the answer for the row in hand.
InHandPosted ==
  \A i \in Slots : waiting = i /\ request[i].stage # "free" =>
                     request[i].snapshot = InHand.snapshot

\* A request is answered with 200 only when its snapshot needs no delivery.
Answers ==
  /\ runs \subseteq accepted
  /\ \A i \in Slots : request[i].stage = "ok" => Settled(request[i].snapshot)

DeliveryInv == Rows /\ InHandPosted /\ Answers /\ NothingLost

\* A request that is answered 200 found its snapshot, or a later one, accepted.
LEMMA AnswersHandle ==
  ASSUME TypeInv, Answers, NEW i \in Slots, Handle(i)
  PROVE  /\ Answers'
         /\ accepted \subseteq accepted'
         /\ \A j \in Slots : /\ request'[j].stage = "free" <=> request[j].stage = "free"
                             /\ request[j].stage # "free" =>
                                  request'[j].snapshot = request[j].snapshot
  <1>0. request \in Requests /\ runs \subseteq Snapshot
    BY DEF TypeInv, TypeOK, IngestTypeOK, Requests
  <1>1. request[i].stage # "free"
    BY DEF Handle, Authenticate, CheckDuplicate, CheckStale, FindConnection,
       BeginWrite, Commit
  <1>2. request[i] \in Busy
    BY <1>0, <1>1, BusyRequest
  <1>3. request[i].snapshot \in Snapshot
    BY <1>2 DEF Busy
  <1>4. ASSUME NEW stage \in Stages, Stage(i, stage)
        PROVE  /\ request'[i].stage = stage
               /\ request'[i].snapshot = request[i].snapshot
               /\ \A j \in Slots \ {i} : request'[j] = request[j]
    BY <1>0, <1>1, <1>2, <1>4, StageType DEF Busy
  <1>5. \A j \in Slots \ {i} : request'[j] = request[j]
    BY <1>0 DEF Handle, Authenticate, CheckDuplicate, CheckStale, FindConnection,
       BeginWrite, Commit, Stage, Requests
  <1>6. /\ request'[i].stage \in Stages
        /\ request'[i].snapshot = request[i].snapshot
    BY <1>0, <1>2 DEF Handle, Authenticate, CheckDuplicate, CheckStale,
       FindConnection, BeginWrite, Commit, Stage, Requests, Busy, Stages
  <1>7. request'[i].stage # "free"
    BY <1>6 DEF Stages
  <1>8. accepted \subseteq accepted' /\ runs' \subseteq accepted'
    BY DEF Answers, Handle, Authenticate, CheckDuplicate, CheckStale,
       FindConnection, BeginWrite, Commit
  <1>9. request'[i].stage = "ok" => \E y \in accepted' : AtLeast(y, request[i].snapshot)
    <2>1. CASE Authenticate(i)
      BY <1>4, <2>1 DEF Authenticate, Stages
    <2>2. CASE CheckDuplicate(i)
      <3>1. CASE /\ Stage(i, "ok")
                 /\ \E y \in runs : SameId(request[i].snapshot, y)
        <4>1. PICK y \in runs : SameId(request[i].snapshot, y)
          BY <3>1
        <4>2. y.sequence \in Nat
          BY <1>0, SequenceAssumption DEF Snapshot
        <4>3. AtLeast(y, request[i].snapshot)
          BY <4>1, <4>2 DEF SameId, AtLeast, SameSource
        <4> QED BY <1>8, <4>3 DEF Answers
      <3>2. CASE Stage(i, "rejected") \/ Stage(i, "unseen")
        BY <1>4, <3>2 DEF Stages
      <3> QED BY <2>2, <3>1, <3>2 DEF CheckDuplicate
    <2>3. CASE CheckStale(i)
      <3>1. CASE \E y \in runs : MakesStale(request[i].snapshot, y)
        BY <1>8, <3>1 DEF MakesStale, Answers
      <3>2. CASE ~ \E y \in runs : MakesStale(request[i].snapshot, y)
        BY <1>4, <2>3, <3>2 DEF CheckStale, Stages
      <3> QED BY <3>1, <3>2
    <2>4. CASE FindConnection(i)
      BY <1>0, <1>2, <1>4, <2>4 DEF FindConnection, Stages, Requests, Busy
    <2>5. CASE BeginWrite(i)
      BY <1>0, <1>2, <1>4, <2>5 DEF BeginWrite, Stages, Requests, Busy
    <2>6. CASE Commit(i)
      <3>1. request[i].snapshot \in accepted'
        BY <2>6 DEF Commit
      <3>2. request[i].snapshot.sequence \in Nat
        BY <1>3, SequenceAssumption DEF Snapshot
      <3> QED BY <3>1, <3>2 DEF AtLeast, SameSource
    <2> QED
      BY <2>1, <2>2, <2>3, <2>4, <2>5, <2>6 DEF Handle
  <1>10. \A j \in Slots : request'[j].stage = "ok" =>
           \E y \in accepted' : AtLeast(y, request'[j].snapshot)
    BY <1>5, <1>6, <1>8, <1>9 DEF Answers, Settled
  <1> QED
    BY <1>1, <1>5, <1>6, <1>7, <1>8, <1>10 DEF Answers, Settled

\* The row in hand is in the table, alone with its id.
LEMMA InHandRow ==
  ASSUME TypeInv, Rows, batch # {}
  PROVE  /\ InHand \in batch /\ InHand \in deliveries /\ InHand \in Delivery
         /\ \A e \in deliveries : e.id = InHand.id => e = InHand
  BY InHandInBatch DEF TypeInv, TypeOK, QueueTypeOK, Rows

\* Failing the row in hand keeps every snapshot queued, and the rest of a batch.
LEMMA FailKept ==
  ASSUME TypeInv, Rows, batch # {}, NEW status \in {"pending", "dead"},
         Fail(InHand, status), batch' \subseteq batch \ {InHand}, nextId' = nextId
  PROVE  /\ Rows'
         /\ \A x : Queued(x) => (Queued(x))'
  <1> DEFINE failed == [InHand EXCEPT !.status = status, !.due = FALSE]
  <1>1. /\ InHand \in batch /\ InHand \in deliveries /\ InHand \in Delivery
        /\ \A e \in deliveries : e.id = InHand.id => e = InHand
    BY InHandRow
  <1>2. failed.id = InHand.id /\ failed.snapshot = InHand.snapshot
    BY <1>1 DEF Delivery
  <1>3. deliveries' = {e \in deliveries : e.id # InHand.id} \cup {failed}
    BY DEF Fail
  <1> HIDE DEF failed
  <1>4. Rows'
    BY <1>1, <1>2, <1>3 DEF Rows
  <1>5. ASSUME NEW x, Queued(x) PROVE (Queued(x))'
    BY <1>1, <1>2, <1>3, <1>5 DEF Queued
  <1> QED BY <1>4, <1>5

\* The collector's own steps.
LEMMA DeliveryCollector ==
  ASSUME TypeInv, DeliveryInv, Collector
  PROVE  DeliveryInv'
  <1>0. UNCHANGED <<request, runs, accepted, waiting>>
    BY DEF Collector, serverVars
  <1>1. Answers'
    BY <1>0 DEF DeliveryInv, Answers, Settled
  <1>2. ASSUME UNCHANGED <<deliveries, nextId, produced>>, batch' = batch
        PROVE  DeliveryInv'
    BY <1>0, <1>1, <1>2 DEF DeliveryInv, Rows, InHandPosted, InHand, NothingLost,
       Queued, Settled
  <1>3. CASE BeginFlush
    <2>1. waiting = NoSlot
      BY <1>3 DEF BeginFlush, TypeInv, Awaiting
    <2>2. InHandPosted'
      BY <1>0, <2>1, SlotsAssumption DEF InHandPosted
    <2>3. Rows'
      BY <1>3 DEF BeginFlush, tableVars, DeliveryInv, Rows, DueBatch, Due
    <2> QED
      BY <1>0, <1>1, <1>3, <2>2, <2>3 DEF BeginFlush, tableVars, DeliveryInv,
         NothingLost, Queued, Settled
  <1>4. CASE EndFlush \/ EnqueueFails
    BY <1>2, <1>4 DEF EndFlush, EnqueueFails, tableVars
  <1>5. ASSUME NEW s \in Sources, CollectFails(s) \/ NextSequence(s)
        PROVE  DeliveryInv'
    BY <1>2, <1>5 DEF CollectFails, NextSequence, tableVars
  <1>6. CASE Enqueue
    <2>1. PICK x : \E d : /\ d.id = nextId /\ d.snapshot = x
                          /\ deliveries' = deliveries \cup {d}
                          /\ produced' = produced \cup {x}
      BY <1>6 DEF Enqueue
    <2>2. PICK d : /\ d.id = nextId /\ d.snapshot = x
                   /\ deliveries' = deliveries \cup {d}
                   /\ produced' = produced \cup {x}
      BY <2>1
    <2>3. nextId' = nextId + 1 /\ batch' = batch
      BY <1>6 DEF Enqueue
    <2>4. nextId \in Nat /\ \A e \in deliveries : e.id \in Nat
      BY DEF TypeInv, TypeOK, QueueTypeOK, Delivery
    <2>5. Rows'
      BY <2>2, <2>3, <2>4 DEF DeliveryInv, Rows
    <2>6. InHandPosted'
      BY <1>0, <2>3 DEF DeliveryInv, InHandPosted, InHand
    <2>7. NothingLost'
      BY <1>0, <2>2 DEF DeliveryInv, NothingLost, Queued, Settled
    <2> QED BY <1>1, <2>5, <2>6, <2>7 DEF DeliveryInv
  <1>7. ASSUME NEW d \in deliveries, BackoffElapses(d) PROVE DeliveryInv'
    <2> DEFINE due == [d EXCEPT !.due = TRUE]
    <2>1. d \in Delivery /\ d \notin batch
      BY <1>7, Zenon DEF BackoffElapses, TypeInv, TypeOK, QueueTypeOK, DeliveryInv, Rows
    <2>2. due.id = d.id /\ due.snapshot = d.snapshot
      BY <2>1 DEF Delivery
    <2>3. deliveries' = (deliveries \ {d}) \cup {due}
          /\ UNCHANGED <<nextId, batch, produced>>
      BY <1>7 DEF BackoffElapses, memoryVars
    <2> HIDE DEF due
    <2>4. Rows'
      BY <2>1, <2>2, <2>3 DEF DeliveryInv, Rows
    <2>5. InHandPosted'
      BY <1>0, <2>3 DEF DeliveryInv, InHandPosted, InHand
    <2>6. NothingLost'
      BY <1>0, <2>2, <2>3 DEF DeliveryInv, NothingLost, Queued, Settled
    <2> QED BY <1>1, <2>4, <2>5, <2>6 DEF DeliveryInv
  <1> QED
    BY <1>3, <1>4, <1>5, <1>6, <1>7 DEF Collector, CollectorStep

\* The steps of a flush.
LEMMA DeliveryFlush ==
  ASSUME TypeInv, DeliveryInv, NEW i \in Slots,
         Post(i) \/ Delivered(i) \/ Rejected(i) \/ Deferred(i) \/ TimedOut(i)
  PROVE  DeliveryInv'
  <1>0. request \in Requests
    BY DEF TypeInv, TypeOK, IngestTypeOK, Requests
  <1>1. UNCHANGED <<runs, accepted, produced>>
    BY DEF Post, Delivered, Rejected, Deferred, TimedOut, GiveUp, collectorVars
  <1>2. ASSUME waiting = i PROVE batch # {}
    BY <1>2, SlotsAssumption DEF TypeInv, Awaiting
  <1>3. CASE Post(i)
    <2>1. /\ waiting' = i
          /\ request'[i].stage = "sent" /\ request'[i].snapshot = InHand.snapshot
          /\ \A j \in Slots \ {i} : request'[j] = request[j]
          /\ UNCHANGED <<deliveries, nextId, batch>>
      BY <1>0, <1>3 DEF Post, Requests, collectorVars
    <2> QED
      BY <1>1, <2>1 DEF DeliveryInv, Rows, InHandPosted, InHand, Answers,
         NothingLost, Queued, Settled
  <1>4. ASSUME request' = [request EXCEPT ![i] = Free] \/ request' = request
        PROVE  Answers'
    <2>1. \A j \in Slots : request'[j] = request[j] \/ request'[j] = Free
      BY <1>0, <1>4, FreeType
    <2> QED
      BY <1>1, <2>1 DEF DeliveryInv, Answers, Settled, Free
  <1>5. ASSUME waiting' = NoSlot PROVE InHandPosted'
    BY <1>5, SlotsAssumption DEF InHandPosted
  <1>6. ASSUME Rows', \A x : Queued(x) => (Queued(x))'
        PROVE  Rows' /\ NothingLost'
    BY <1>1, <1>6 DEF DeliveryInv, NothingLost, Settled
  <1>7. CASE Delivered(i)
    <2>1. /\ InHand \in batch /\ InHand \in deliveries
          /\ \A e \in deliveries : e.id = InHand.id => e = InHand
      BY <1>2, <1>7, InHandRow DEF Delivered, DeliveryInv
    <2>2. deliveries' = deliveries \ {InHand}
      BY <1>7, <2>1 DEF Delivered, Delete
    <2>3. Settled(InHand.snapshot)
      BY <1>7 DEF Delivered, DeliveryInv, Answers, InHandPosted
    <2>4. batch' = batch \ {InHand} /\ nextId' = nextId
      BY <1>7 DEF Delivered
    <2>5. Rows'
      BY <2>2, <2>4 DEF DeliveryInv, Rows
    <2>6. NothingLost'
      BY <1>1, <2>2, <2>3 DEF DeliveryInv, NothingLost, Queued, Settled
    <2> QED
      BY <1>4, <1>5, <1>7, <2>5, <2>6 DEF Delivered, DeliveryInv
  <1>8. CASE Rejected(i)
    <2>1. Rows' /\ \A x : Queued(x) => (Queued(x))'
      BY <1>2, <1>8, FailKept DEF Rejected, DeliveryInv
    <2> QED
      BY <1>4, <1>5, <1>6, <1>8, <2>1 DEF Rejected, DeliveryInv
  <1>9. CASE Deferred(i) \/ TimedOut(i)
    <2>1. Rows' /\ \A x : Queued(x) => (Queued(x))'
      BY <1>2, <1>9, FailKept DEF Deferred, TimedOut, GiveUp, DeliveryInv
    <2> QED
      BY <1>4, <1>5, <1>6, <1>9, <2>1 DEF Deferred, TimedOut, GiveUp, DeliveryInv
  <1> QED
    BY <1>3, <1>7, <1>8, <1>9

LEMMA DeliveryNext == TypeInv /\ DeliveryInv /\ [Next]_vars => DeliveryInv'
  <1> SUFFICES ASSUME TypeInv, DeliveryInv, [Next]_vars PROVE DeliveryInv'
    OBVIOUS
  <1>0. request \in Requests
    BY DEF TypeInv, TypeOK, IngestTypeOK, Requests
  \* What a step of the others must not do to the collector's guarantees.
  <1>1. ASSUME UNCHANGED <<deliveries, nextId, batch, produced, waiting>>,
               Answers', accepted \subseteq accepted',
               \A j \in Slots :
                 request'[j].stage # "free" =>
                   /\ request[j].stage # "free"
                   /\ request'[j].snapshot = request[j].snapshot
        PROVE  DeliveryInv'
    BY <1>1 DEF DeliveryInv, Rows, InHandPosted, InHand, NothingLost, Queued, Settled
  <1>2. CASE Collector
    BY <1>2, DeliveryCollector
  <1>3. ASSUME NEW i \in Slots,
               \/ Post(i) \/ Delivered(i) \/ Rejected(i) \/ Deferred(i)
               \/ TimedOut(i)
        PROVE  DeliveryInv'
    BY <1>3, DeliveryFlush
  <1>4. ASSUME NEW i \in Slots, RequestLost(i) \/ AnswerDropped(i)
        PROVE  DeliveryInv'
    <2>1. \A j \in Slots : request'[j] = request[j] \/ request'[j] = Free
      BY <1>0, <1>4, FreeType DEF RequestLost, AnswerDropped
    <2>2. UNCHANGED <<deliveries, nextId, batch, produced, waiting, runs, accepted>>
      BY <1>4 DEF RequestLost, AnswerDropped, collectorVars
    <2>3. Answers'
      BY <2>1, <2>2 DEF DeliveryInv, Answers, Settled, Free
    <2> QED
      BY <1>1, <2>1, <2>2, <2>3 DEF Free
  <1>5. ASSUME NEW i \in Slots, Serve(i) PROVE DeliveryInv'
    BY <1>1, <1>5, AnswersHandle DEF Serve, collectorVars, DeliveryInv
  <1>6. CASE Admin /\ UNCHANGED <<waiting, credential>> /\ UNCHANGED collectorVars
    <2>1. \A j \in Slots : \/ request'[j] \in {request[j], Free}
                            \/ /\ request[j].stage = "located"
                               /\ request'[j].stage = "retry"
                               /\ request'[j].snapshot = request[j].snapshot
      BY <1>0, <1>6, DeleteType DEF Admin, RotateToken, Revoke, ServerCrash
    <2>2. runs' \subseteq runs /\ accepted' = accepted
      BY <1>6 DEF Admin, RotateToken, Revoke, ServerCrash, DeleteConnection
    <2>3. Answers'
      BY <2>1, <2>2 DEF DeliveryInv, Answers, Settled, Free
    <2> QED
      BY <1>1, <1>6, <2>1, <2>2, <2>3 DEF Free, collectorVars
  <1>7. CASE CollectorRestart
    <2>1. /\ UNCHANGED <<deliveries, nextId, produced, request, runs, accepted>>
          /\ batch' = {} /\ waiting' = NoSlot
      BY <1>7 DEF CollectorRestart, Restart, tableVars
    <2> QED
      BY <2>1, SlotsAssumption DEF DeliveryInv, Rows, InHandPosted, Answers,
         NothingLost, Queued, Settled
  <1>8. CASE UNCHANGED vars
    BY <1>8 DEF vars, DeliveryInv, Rows, InHandPosted, InHand, Answers, NothingLost,
       Queued, Settled
  <1> QED
    BY <1>2, <1>3, <1>4, <1>5, <1>6, <1>7, <1>8 DEF Next

\* Every snapshot written to the SQLite queue stays there, pending or dead, until
\* the backend has accepted it or a later snapshot of its source: no crash, lost
\* answer, retry, rotation or deletion loses one (_flush, DeliveryQueue.delivered).
THEOREM DeliveryGuarantee == Spec => []NothingLost
  <1>1. Init => DeliveryInv
    BY SlotsAssumption DEF Init, QueueInit, IngestInit, DeliveryInv, Rows,
       InHandPosted, Answers, NothingLost, Free
  <1>2. DeliveryInv => NothingLost
    BY DEF DeliveryInv
  <1> QED
    BY <1>1, <1>2, InitType, NextType, DeliveryNext, PTL DEF Spec

--------------------------------------------------------------------------------
(* A retry never installs a run a second time. *)

\* The run that a request writes is not among the committed ones.
Fresh ==
  \A i \in Slots : request[i].stage = "writing" =>
    \A y \in runs : ~ SameId(request[i].snapshot, y)

\* A step that adds no run and starts no write keeps it.
LEMMA FreshKept ==
  ASSUME Fresh, runs' \subseteq runs,
         \A j \in Slots : request'[j] = request[j] \/ request'[j].stage # "writing"
  PROVE  Fresh'
  BY DEF Fresh

\* The steps of a handler: the unique snapshot id is met when the write begins,
\* and the row lock keeps every other commit away until this one.
LEMMA FreshHandle ==
  ASSUME TypeInv, LockInv, Fresh, NEW i \in Slots, Handle(i)
  PROVE  Fresh'
  <1>0. request \in Requests
    BY DEF TypeInv, TypeOK, IngestTypeOK, Requests
  <1>1. request[i].stage # "free"
    BY DEF Handle, Authenticate, CheckDuplicate, CheckStale, FindConnection,
       BeginWrite, Commit
  <1>2. request[i] \in Busy
    BY <1>0, <1>1, BusyRequest
  <1>3. \A j \in Slots \ {i} : request'[j] = request[j]
    BY <1>0 DEF Handle, Authenticate, CheckDuplicate, CheckStale, FindConnection,
       BeginWrite, Commit, Stage, Requests
  <1>4. ASSUME NEW stage \in Stages, Stage(i, stage)
        PROVE  request'[i].stage = stage
    BY <1>0, <1>1, <1>2, <1>4, StageType DEF Busy
  <1>5. CASE Authenticate(i) \/ CheckDuplicate(i) \/ CheckStale(i)
    <2>1. request'[i].stage # "writing" /\ runs' = runs
      BY <1>4, <1>5 DEF Authenticate, CheckDuplicate, CheckStale, Stages
    <2> QED BY <1>3, <2>1, FreshKept
  <1>6. CASE FindConnection(i)
    <2>1. request'[i].stage # "writing" /\ runs' = runs
      BY <1>0, <1>2, <1>4, <1>6 DEF FindConnection, Stages, Requests, Busy
    <2> QED BY <1>3, <2>1, FreshKept
  <1>7. CASE BeginWrite(i)
    <2>1. CASE ConstraintsHold(i)
      <3>1. request'[i].snapshot = request[i].snapshot /\ runs' = runs
        BY <1>0, <1>2, <1>7, <2>1 DEF BeginWrite, Requests, Busy
      <3> QED BY <1>3, <2>1, <3>1 DEF ConstraintsHold, Fresh
    <2>2. CASE ~ ConstraintsHold(i)
      <3>1. request'[i].stage # "writing" /\ runs' = runs
        BY <1>4, <1>7, <2>2 DEF BeginWrite, Stages
      <3> QED BY <1>3, <3>1, FreshKept
    <2> QED BY <2>1, <2>2
  <1>8. CASE Commit(i)
    <2>1. request'[i].stage # "writing"
      BY <1>4, <1>8 DEF Commit, Stages
    <2>2. \A j \in Slots \ {i} : request[j].stage # "writing"
      BY <1>8 DEF Commit, LockInv, Locking
    <2> QED BY <1>3, <2>1, <2>2 DEF Fresh
  <1> QED
    BY <1>5, <1>6, <1>7, <1>8 DEF Handle

LEMMA FreshNext == TypeInv /\ LockInv /\ Fresh /\ [Next]_vars => Fresh'
  <1> SUFFICES ASSUME TypeInv, LockInv, Fresh, [Next]_vars PROVE Fresh'
    OBVIOUS
  <1>0. request \in Requests
    BY DEF TypeInv, TypeOK, IngestTypeOK, Requests
  <1>1. CASE Collector
    BY <1>1, FreshKept DEF Collector, serverVars
  <1>2. ASSUME NEW i \in Slots, Post(i) PROVE Fresh'
    BY <1>0, <1>2, FreshKept DEF Post, Requests
  <1>3. ASSUME NEW i \in Slots,
               \/ Delivered(i) \/ Rejected(i) \/ Deferred(i)
               \/ RequestLost(i) \/ AnswerDropped(i)
        PROVE  Fresh'
    <2>1. request' = [request EXCEPT ![i] = Free] /\ runs' = runs
      BY <1>3 DEF Delivered, Rejected, Deferred, GiveUp, RequestLost, AnswerDropped
    <2> QED BY <1>0, <2>1, FreeType, FreshKept DEF Free
  <1>4. ASSUME NEW i \in Slots, TimedOut(i) PROVE Fresh'
    BY <1>4, FreshKept DEF TimedOut, GiveUp
  <1>5. ASSUME NEW i \in Slots, Serve(i) PROVE Fresh'
    BY <1>5, FreshHandle DEF Serve
  <1>6. CASE Admin /\ UNCHANGED <<waiting, credential>> /\ UNCHANGED collectorVars
    <2>1. CASE RotateToken \/ Revoke
      BY <2>1, FreshKept DEF RotateToken, Revoke
    <2>2. CASE ServerCrash
      BY <2>2, FreshKept DEF ServerCrash, Free
    <2>3. ASSUME NEW s \in Sources, DeleteConnection(s) PROVE Fresh'
      <3>1. \A j \in Slots : request'[j] = request[j] \/ request'[j].stage = "retry"
        BY <1>0, <2>3, DeleteType
      <3> QED BY <2>3, <3>1, FreshKept DEF DeleteConnection
    <2> QED
      BY <1>6, <2>1, <2>2, <2>3 DEF Admin
  <1>7. CASE CollectorRestart
    BY <1>7, FreshKept DEF CollectorRestart
  <1>8. CASE UNCHANGED vars
    BY <1>8, FreshKept DEF vars
  <1> QED
    BY <1>1, <1>2, <1>3, <1>4, <1>5, <1>6, <1>7, <1>8 DEF Next

\* What becomes current in a step was not a committed run before it.
LEMMA InstalledOnce ==
  Fresh /\ [Next]_vars => current' \cap runs \subseteq current
  <1> SUFFICES ASSUME Fresh, [Next]_vars PROVE current' \cap runs \subseteq current
    OBVIOUS
  <1>1. ASSUME NEW i \in Slots, Serve(i) PROVE current' \cap runs \subseteq current
    <2>1. CASE Commit(i)
      <3>1. \A y \in runs : ~ SameId(request[i].snapshot, y)
        BY <2>1 DEF Commit, Fresh
      <3>2. request[i].snapshot \notin runs
        BY <3>1 DEF SameId
      <3> QED BY <2>1, <3>2 DEF Commit, Replaced
    <2>2. CASE current' = current
      BY <2>2
    <2> QED
      BY <1>1, <2>1, <2>2 DEF Serve, Handle, Authenticate, CheckDuplicate, CheckStale,
         FindConnection, BeginWrite
  <1>2. CASE Admin
    BY <1>2 DEF Admin, RotateToken, Revoke, ServerCrash, DeleteConnection
  <1>3. CASE current' = current
    BY <1>3
  <1> QED
    BY <1>1, <1>2, <1>3 DEF Next, Collector, serverVars, Post, Delivered, Rejected,
       Deferred, TimedOut, GiveUp, RequestLost, AnswerDropped, CollectorRestart, vars

\* A snapshot whose run is committed never becomes current again, however often it
\* is retried and whatever overlaps the retry: the duplicate check answers it, or
\* the unique snapshot id fails its first flush (ingest_collector_snapshot).
THEOREM InstalledAtMostOnce == Spec => NeverReinstalled
  <1>1. Init => LockInv /\ Fresh
    BY DEF Init, IngestInit, LockInv, Locking, OneCurrentRun, Fresh, Free
  <1>2. TypeInv /\ LockInv /\ Fresh /\ [Next]_vars
          => LockInv' /\ Fresh'
    BY LockNext, FreshNext
  <1>3. Fresh /\ [Next]_vars => [current' \cap runs \subseteq current]_vars
    BY InstalledOnce
  <1> QED
    BY <1>1, <1>2, <1>3, InitType, NextType, PTL DEF Spec, NeverReinstalled

--------------------------------------------------------------------------------
(* Only a refusal that is certain to repeat kills a delivery. *)

\* The backend will answer x with 422 or 400 whenever it is posted while a
\* connection of its source exists.
Refused(x) ==
  \/ x.form = "malformed"
  \/ \E y \in accepted : SameSource(y, x) /\ y.type # x.type

\* A connection row has the type of a snapshot that was accepted for its source.
Typed ==
  \A s \in Sources : connection[s] # NoType =>
    \E y \in accepted : y.source = s /\ y.type = connection[s]

\* A request answered with a permanent refusal deserves it.
RefusedAnswers ==
  \A i \in Slots : request[i].stage = "rejected" => Refused(request[i].snapshot)

RefusalInv == Typed /\ RefusedAnswers /\ DeadOnlyWhenRefused

\* A step that accepts nothing, connects nothing, refuses nothing and kills no row.
LEMMA RefusalKept ==
  ASSUME RefusalInv, accepted' = accepted,
         \A s \in Sources : connection'[s] \in {connection[s], NoType},
         \A j \in Slots : request'[j] = request[j] \/ request'[j].stage # "rejected",
         \A d \in deliveries' : d \in deliveries \/ d.status # "dead"
                                \/ Refused(d.snapshot)
  PROVE  RefusalInv'
  <1>1. Typed'
    BY DEF RefusalInv, Typed
  <1>2. RefusedAnswers'
    BY DEF RefusalInv, RefusedAnswers, Refused
  <1>3. DeadOnlyWhenRefused'
    BY DEF RefusalInv, DeadOnlyWhenRefused, Refused
  <1> QED BY <1>1, <1>2, <1>3 DEF RefusalInv

LEMMA RefusalHandle ==
  ASSUME TypeInv, RefusalInv, NEW i \in Slots, Handle(i), deliveries' = deliveries
  PROVE  RefusalInv'
  <1>0. request \in Requests /\ connection \in [Sources -> Types \cup {NoType}]
    BY DEF TypeInv, TypeOK, IngestTypeOK, Requests
  <1>1. request[i].stage # "free"
    BY DEF Handle, Authenticate, CheckDuplicate, CheckStale, FindConnection,
       BeginWrite, Commit
  <1>2. request[i] \in Busy /\ request[i].snapshot.source \in Sources
    BY <1>0, <1>1, BusyRequest DEF Busy, Snapshot
  <1>3. /\ request'[i].snapshot = request[i].snapshot
        /\ \A j \in Slots \ {i} : request'[j] = request[j]
    BY <1>0, <1>2 DEF Handle, Authenticate, CheckDuplicate, CheckStale,
       FindConnection, BeginWrite, Commit, Stage, Requests, Busy, Stages
  <1>4. ASSUME NEW stage \in Stages, Stage(i, stage)
        PROVE  request'[i].stage = stage
    BY <1>0, <1>1, <1>2, <1>4, StageType DEF Busy
  <1>5. ASSUME UNCHANGED <<accepted, connection>>,
               request'[i].stage = "rejected" => Refused(request[i].snapshot)
        PROVE  RefusalInv'
    BY <1>3, <1>5 DEF RefusalInv, Typed, RefusedAnswers, DeadOnlyWhenRefused, Refused
  <1>6. CASE Authenticate(i) \/ CheckStale(i)
    BY <1>4, <1>5, <1>6 DEF Authenticate, CheckStale, Stages
  <1>7. CASE CheckDuplicate(i)
    BY <1>4, <1>5, <1>7 DEF CheckDuplicate, Stages, Refused
  <1>8. CASE FindConnection(i)
    <2> DEFINE found == connection[request[i].snapshot.source]
    <2>1. CASE found \notin {NoType, request[i].snapshot.type}
      <3>1. \E y \in accepted : y.source = request[i].snapshot.source /\ y.type = found
        BY <1>2, <2>1 DEF RefusalInv, Typed
      <3>2. Refused(request[i].snapshot)
        BY <2>1, <3>1 DEF Refused, SameSource
      <3> QED BY <1>5, <1>8, <3>2 DEF FindConnection
    <2>2. CASE request' = [request EXCEPT ![i].stage = "located", ![i].found = found]
      <3>1. request'[i].stage = "located"
        BY <1>0, <1>2, <2>2 DEF Requests, Busy
      <3> QED BY <1>5, <1>8, <3>1 DEF FindConnection
    <2> QED BY <1>8, <2>1, <2>2 DEF FindConnection
  <1>9. CASE BeginWrite(i)
    <2>1. request'[i].stage # "rejected"
      BY <1>0, <1>2, <1>4, <1>9 DEF BeginWrite, Stages, Requests, Busy
    <2> QED BY <1>5, <1>9, <2>1 DEF BeginWrite
  <1>10. CASE Commit(i)
    <2> DEFINE x == request[i].snapshot
    <2>1. /\ accepted' = accepted \cup {x}
          /\ connection' = [connection EXCEPT ![x.source] = x.type]
          /\ request'[i].stage = "ok"
      BY <1>4, <1>10 DEF Commit, Stages
    <2> HIDE DEF x
    <2>2. Typed'
      BY <1>0, <2>1 DEF RefusalInv, Typed
    <2>3. RefusedAnswers' /\ DeadOnlyWhenRefused'
      BY <1>3, <2>1 DEF RefusalInv, RefusedAnswers, DeadOnlyWhenRefused, Refused
    <2> QED BY <2>2, <2>3 DEF RefusalInv
  <1> QED
    BY <1>6, <1>7, <1>8, <1>9, <1>10 DEF Handle

LEMMA RefusalNext == TypeInv /\ DeliveryInv /\ RefusalInv /\ [Next]_vars => RefusalInv'
  <1> SUFFICES ASSUME TypeInv, DeliveryInv, RefusalInv, [Next]_vars PROVE RefusalInv'
    OBVIOUS
  <1>0. request \in Requests
    BY DEF TypeInv, TypeOK, IngestTypeOK, Requests
  <1>1. CASE Collector
    <2>0. UNCHANGED <<request, accepted, connection>>
      BY <1>1 DEF Collector, serverVars
    <2>1. CASE Enqueue
      <3>1. PICK d : d.status = "pending" /\ deliveries' = deliveries \cup {d}
        BY <2>1 DEF Enqueue
      <3> QED BY <2>0, <3>1, RefusalKept
    <2>2. ASSUME NEW d \in deliveries, BackoffElapses(d) PROVE RefusalInv'
      <3>1. d \in Delivery /\ d.status = "pending"
        BY <2>2 DEF BackoffElapses, TypeInv, TypeOK, QueueTypeOK
      <3>2. [d EXCEPT !.due = TRUE].status = "pending"
        BY <3>1 DEF Delivery
      <3> QED BY <2>0, <2>2, <3>2, RefusalKept DEF BackoffElapses
    <2>3. CASE deliveries' = deliveries
      BY <2>0, <2>3, RefusalKept
    <2> QED
      BY <1>1, <2>1, <2>2, <2>3 DEF Collector, CollectorStep, BeginFlush, EndFlush,
         EnqueueFails, CollectFails, NextSequence, tableVars
  <1>2. ASSUME NEW i \in Slots, Post(i) PROVE RefusalInv'
    BY <1>0, <1>2, RefusalKept DEF Post, Requests, collectorVars
  <1>3. ASSUME NEW i \in Slots,
               Delivered(i) \/ Rejected(i) \/ Deferred(i) \/ TimedOut(i)
        PROVE  RefusalInv'
    <2>1. InHand \in Delivery /\ waiting = i
      BY <1>3, InHandRow, SlotsAssumption DEF TypeInv, Awaiting, DeliveryInv,
         Delivered, Rejected, Deferred, TimedOut
    <2>2. ASSUME NEW status \in {"pending", "dead"}, Fail(InHand, status),
                 status = "dead" => Refused(InHand.snapshot)
          PROVE  \A d \in deliveries' : \/ d \in deliveries \/ d.status # "dead"
                                        \/ Refused(d.snapshot)
      <3> DEFINE failed == [InHand EXCEPT !.status = status, !.due = FALSE]
      <3>1. failed.status = status /\ failed.snapshot = InHand.snapshot
        BY <2>1 DEF Delivery
      <3>2. \A d \in deliveries' : d \in deliveries \/ d = failed
        BY <2>2 DEF Fail
      <3> HIDE DEF failed
      <3> QED BY <2>2, <3>1, <3>2
    <2>3. CASE Delivered(i)
      <3>1. deliveries' \subseteq deliveries
        BY <2>3 DEF Delivered, Delete
      <3> QED BY <1>0, <2>3, <3>1, FreeType, RefusalKept DEF Delivered, Free
    <2>4. CASE Rejected(i)
      <3>1. Refused(InHand.snapshot)
        <4>1. request[i].stage = "rejected"
          BY <2>4 DEF Rejected, PermanentRefusals
        <4>2. request[i].snapshot = InHand.snapshot
          BY <2>1, <4>1 DEF DeliveryInv, InHandPosted
        <4> QED BY <4>1, <4>2 DEF RefusalInv, RefusedAnswers
      <3>2. \A d \in deliveries' : d \in deliveries \/ d.status # "dead"
                                   \/ Refused(d.snapshot)
        BY <2>2, <2>4, <3>1 DEF Rejected
      <3> QED BY <1>0, <2>4, <3>2, FreeType, RefusalKept DEF Rejected, Free
    <2>5. CASE Deferred(i) \/ TimedOut(i)
      <3>1. \A d \in deliveries' : d \in deliveries \/ d.status # "dead"
                                   \/ Refused(d.snapshot)
        BY <2>2, <2>5 DEF Deferred, TimedOut, GiveUp
      <3>2. \A j \in Slots : request'[j] = request[j] \/ request'[j] = Free
        BY <1>0, <2>5, FreeType DEF Deferred, TimedOut
      <3> QED BY <2>5, <3>1, <3>2, RefusalKept DEF Deferred, TimedOut, GiveUp, Free
    <2> QED BY <1>3, <2>3, <2>4, <2>5
  <1>4. ASSUME NEW i \in Slots, RequestLost(i) \/ AnswerDropped(i)
        PROVE  RefusalInv'
    <2>1. \A j \in Slots : request'[j] = request[j] \/ request'[j] = Free
      BY <1>0, <1>4, FreeType DEF RequestLost, AnswerDropped
    <2> QED
      BY <1>4, <2>1, RefusalKept DEF RequestLost, AnswerDropped, Free, collectorVars
  <1>5. ASSUME NEW i \in Slots, Serve(i) PROVE RefusalInv'
    BY <1>5, RefusalHandle DEF Serve, collectorVars
  <1>6. CASE Admin /\ UNCHANGED <<waiting, credential>> /\ UNCHANGED collectorVars
    <2>1. CASE RotateToken \/ Revoke \/ ServerCrash
      BY <1>6, <2>1, RefusalKept DEF RotateToken, Revoke, ServerCrash, Free,
         collectorVars
    <2>2. ASSUME NEW s \in Sources, DeleteConnection(s) PROVE RefusalInv'
      <3>1. \A j \in Slots : request'[j] = request[j] \/ request'[j].stage = "retry"
        BY <1>0, <2>2, DeleteType
      <3>2. \A t \in Sources : connection'[t] \in {connection[t], NoType}
        BY <2>2 DEF DeleteConnection, TypeInv, TypeOK, IngestTypeOK
      <3> QED BY <1>6, <2>2, <3>1, <3>2, RefusalKept DEF DeleteConnection, collectorVars
    <2> QED BY <1>6, <2>1, <2>2 DEF Admin
  <1>7. CASE CollectorRestart
    BY <1>7, RefusalKept DEF CollectorRestart, tableVars
  <1>8. CASE UNCHANGED vars
    BY <1>8, RefusalKept DEF vars
  <1> QED
    BY <1>1, <1>2, <1>3, <1>4, <1>5, <1>6, <1>7, <1>8 DEF Next

\* No delivery dies of anything that a retry could cure: a dead row is malformed,
\* or the backend had accepted its source with another type, whatever answers were
\* lost, late or given to the wrong attempt (_post's PermanentDeliveryError).
THEOREM DeadForGood == Spec => []DeadOnlyWhenRefused
  <1>1. Init => DeliveryInv /\ RefusalInv
    BY SlotsAssumption DEF Init, QueueInit, IngestInit, DeliveryInv, Rows,
       InHandPosted, Answers, NothingLost, Free, RefusalInv, Typed, RefusedAnswers,
       DeadOnlyWhenRefused
  <1>2. RefusalInv => DeadOnlyWhenRefused
    BY DEF RefusalInv
  <1> QED
    BY <1>1, <1>2, InitType, NextType, DeliveryNext, RefusalNext, PTL DEF Spec

--------------------------------------------------------------------------------
(* With one request at a time, the delivery implements LatestSnapshot. *)

OneSlot == \A i, j \in Slots : i = j

\* Sequences grow along the queue: what is enqueued next is new.
Ordering ==
  \A y \in produced : /\ y.sequence <= lastSequence[y.source]
                      /\ allocated = y.source => y.sequence < lastSequence[y.source]

\* What is queued, posted or shown was produced.
Origins ==
  /\ \A d \in deliveries : d.snapshot \in produced
  /\ \A d \in batch : d.snapshot \in produced
  /\ \A i \in Slots : request[i].stage # "free" => request[i].snapshot \in produced
  /\ current \subseteq runs

\* A request that passed the stale check is still the newest of its source.
Newest ==
  \A i \in Slots : request[i].stage \in {"newest", "located", "writing"} =>
    \A y \in runs : ~ AtLeast(y, request[i].snapshot)

MapInv == Ordering /\ Origins /\ Newest

LEMMA MapHandle ==
  ASSUME OneSlot, TypeInv, MapInv, NEW i \in Slots, Handle(i),
         UNCHANGED collectorVars
  PROVE  MapInv'
  <1>0. request \in Requests
    BY DEF TypeInv, TypeOK, IngestTypeOK, Requests
  <1>1. request[i].stage # "free"
    BY DEF Handle, Authenticate, CheckDuplicate, CheckStale, FindConnection,
       BeginWrite, Commit
  <1>2. request[i] \in Busy
    BY <1>0, <1>1, BusyRequest
  <1>3. request'[i].snapshot = request[i].snapshot
    BY <1>0, <1>2 DEF Handle, Authenticate, CheckDuplicate, CheckStale,
       FindConnection, BeginWrite, Commit, Stage, Requests, Busy, Stages
  <1>4. \A j \in Slots : j = i
    BY DEF OneSlot
  <1>5. current' \subseteq runs'
    BY DEF MapInv, Origins, Handle, Authenticate, CheckDuplicate, CheckStale,
       FindConnection, BeginWrite, Commit, Replaced
  <1>6. Ordering' /\ Origins'
    BY <1>1, <1>3, <1>4, <1>5 DEF MapInv, Ordering, Origins, collectorVars
  <1>7. request'[i].stage \in {"newest", "located", "writing"} =>
          \A y \in runs' : ~ AtLeast(y, request[i].snapshot)
    <2>1. ASSUME NEW stage \in Stages, Stage(i, stage)
          PROVE  request'[i].stage = stage
      BY <1>0, <1>1, <1>2, <2>1, StageType DEF Busy
    <2>2. CASE Authenticate(i)
      BY <2>1, <2>2 DEF Authenticate, Stages
    <2>3. CASE CheckDuplicate(i)
      BY <2>1, <2>3 DEF CheckDuplicate, Stages
    <2>4. CASE CheckStale(i)
      BY <2>1, <2>4 DEF CheckStale, Stages, MakesStale
    <2>5. CASE FindConnection(i)
      BY <2>5 DEF FindConnection, MapInv, Newest
    <2>6. CASE BeginWrite(i)
      BY <2>6 DEF BeginWrite, MapInv, Newest
    <2>7. CASE Commit(i)
      BY <2>1, <2>7 DEF Commit, Stages
    <2> QED
      BY <2>2, <2>3, <2>4, <2>5, <2>6, <2>7 DEF Handle
  <1> QED
    BY <1>3, <1>4, <1>6, <1>7 DEF MapInv, Newest

\* A step that leaves the runs and the sequences alone, and posts nothing.
LEMMA MapKept ==
  ASSUME MapInv, UNCHANGED <<lastSequence, produced, runs, current>>,
         allocated' \in {allocated, NoSource}, allocated' = allocated \/ TypeInv,
         \A d \in deliveries' : d.snapshot \in produced,
         \A d \in batch' : d.snapshot \in produced,
         \A j \in Slots : request'[j] = request[j] \/ request'[j] = Free
  PROVE  MapInv'
  <1>1. Ordering'
    BY NoSourceAssumption DEF MapInv, Ordering, TypeInv, TypeOK, QueueTypeOK, Snapshot
  <1>2. Origins'
    BY DEF MapInv, Origins, Free
  <1>3. Newest'
    BY DEF MapInv, Newest, Free
  <1> QED BY <1>1, <1>2, <1>3 DEF MapInv

LEMMA MapNext == OneSlot /\ TypeInv /\ MapInv /\ [Next]_vars => MapInv'
  <1> SUFFICES ASSUME OneSlot, TypeInv, MapInv, [Next]_vars PROVE MapInv'
    OBVIOUS
  <1>0. request \in Requests
    BY DEF TypeInv, TypeOK, IngestTypeOK, Requests
  <1>1. CASE Collector
    <2>0. UNCHANGED <<request, runs, current>>
      BY <1>1 DEF Collector, serverVars
    <2>1. CASE BeginFlush
      BY <2>0, <2>1, MapKept DEF BeginFlush, tableVars, DueBatch, Due, MapInv, Origins
    <2>2. CASE EndFlush \/ EnqueueFails
      BY <2>0, <2>2, MapKept DEF EndFlush, EnqueueFails, tableVars, MapInv, Origins
    <2>3. ASSUME NEW s \in Sources, CollectFails(s) PROVE MapInv'
      BY <2>0, <2>3, MapKept DEF CollectFails, tableVars, MapInv, Origins
    <2>4. ASSUME NEW s \in Sources, NextSequence(s) PROVE MapInv'
      <3>1. lastSequence \in [Sources -> 0..MaxSequence] /\ produced \subseteq Snapshot
        BY DEF TypeInv, TypeOK, QueueTypeOK
      <3>2. /\ lastSequence' = [lastSequence EXCEPT ![s] = @ + 1]
            /\ allocated = NoSource /\ allocated' = s
            /\ UNCHANGED <<deliveries, batch, produced>>
        BY <2>4 DEF NextSequence
      <3>3. Ordering'
        <4>1. SUFFICES ASSUME NEW y \in produced
                       PROVE  /\ y.sequence <= lastSequence'[y.source]
                              /\ allocated' = y.source => y.sequence < lastSequence'[y.source]
          BY <3>2 DEF Ordering
        <4>2. y.source \in Sources /\ y.sequence \in 1..MaxSequence
          BY <3>1 DEF Snapshot
        <4>3. y.sequence <= lastSequence[y.source]
          BY DEF MapInv, Ordering
        <4>4. lastSequence[y.source] \in Nat /\ y.sequence \in Nat
          BY <3>1, <4>2, SequenceAssumption
        <4>5. lastSequence'[y.source] = IF y.source = s THEN lastSequence[y.source] + 1
                                                        ELSE lastSequence[y.source]
          BY <3>1, <3>2, <4>2
        <4> HIDE DEF TypeInv, MapInv
        <4> QED BY <3>2, <4>3, <4>4, <4>5
      <3> QED
        BY <2>0, <3>2, <3>3 DEF MapInv, Origins, Newest
    <2>5. ASSUME NEW d \in deliveries, BackoffElapses(d) PROVE MapInv'
      <3>1. d \in Delivery
        BY DEF TypeInv, TypeOK, QueueTypeOK
      <3>2. [d EXCEPT !.due = TRUE].snapshot = d.snapshot
        BY <3>1 DEF Delivery
      <3> QED
        BY <2>0, <2>5, <3>2, MapKept DEF BackoffElapses, memoryVars, MapInv, Origins
    <2>6. CASE Enqueue
      <3>1. PICK x, d : /\ x.source = allocated /\ x.sequence = lastSequence[allocated]
                        /\ d.snapshot = x
                        /\ deliveries' = deliveries \cup {d}
                        /\ produced' = produced \cup {x}
        BY <2>6 DEF Enqueue, Sequence
      <3>2. /\ allocated' = NoSource /\ UNCHANGED <<lastSequence, batch>>
            /\ allocated \in Sources
        BY <2>6 DEF Enqueue, TypeInv, TypeOK, QueueTypeOK
      <3>3. lastSequence[allocated] \in Nat
        <4>1. lastSequence \in [Sources -> 0..MaxSequence]
          BY DEF TypeInv, TypeOK, QueueTypeOK
        <4> HIDE DEF TypeInv
        <4> QED BY <3>2, <4>1, SequenceAssumption
      <3>4. Ordering'
        <4>1. \A y \in produced : y.source # NoSource
          BY NoSourceAssumption DEF TypeInv, TypeOK, QueueTypeOK, Snapshot
        <4> QED BY <3>1, <3>2, <3>3, <4>1, NoSourceAssumption DEF MapInv, Ordering
      <3>5. Origins'
        BY <2>0, <3>1, <3>2 DEF MapInv, Origins
      <3> QED BY <2>0, <3>4, <3>5 DEF MapInv, Newest
    <2> QED
      BY <1>1, <2>1, <2>2, <2>3, <2>4, <2>5, <2>6 DEF Collector, CollectorStep
  <1>2. ASSUME NEW i \in Slots, Post(i) PROVE MapInv'
    <2>1. InHand \in batch
      BY <1>2, InHandInBatch DEF Post, TypeInv, TypeOK, QueueTypeOK
    <2>2. /\ request'[i].stage = "sent" /\ request'[i].snapshot = InHand.snapshot
          /\ \A j \in Slots \ {i} : request'[j] = request[j]
          /\ UNCHANGED <<lastSequence, allocated, produced, deliveries, batch, runs,
                         current>>
      BY <1>0, <1>2 DEF Post, Requests, collectorVars
    <2> QED
      BY <2>1, <2>2 DEF MapInv, Ordering, Origins, Newest
  <1>3. ASSUME NEW i \in Slots,
               Delivered(i) \/ Rejected(i) \/ Deferred(i) \/ TimedOut(i)
        PROVE  MapInv'
    <2>1. batch # {}
      BY <1>3, SlotsAssumption DEF Delivered, Rejected, Deferred, TimedOut, TypeInv,
         Awaiting
    <2>2. InHand \in batch /\ InHand \in Delivery
      BY <2>1, InHandInBatch DEF TypeInv, TypeOK, QueueTypeOK
    <2>3. InHand.snapshot \in produced
      BY <2>2 DEF MapInv, Origins
    <2>4. ASSUME NEW status, Fail(InHand, status)
          PROVE  \A d \in deliveries' : d.snapshot \in produced
      <3>1. [InHand EXCEPT !.status = status, !.due = FALSE].snapshot = InHand.snapshot
        BY <2>2 DEF Delivery
      <3> QED BY <2>3, <2>4, <3>1 DEF Fail, MapInv, Origins
    <2>5. \A d \in deliveries' : d.snapshot \in produced
      BY <1>3, <2>4 DEF Delivered, Rejected, Deferred, TimedOut, GiveUp, Delete, MapInv,
         Origins
    <2>6. \A d \in batch' : d.snapshot \in produced
      BY <1>3 DEF Delivered, Rejected, Deferred, TimedOut, GiveUp, MapInv, Origins
    <2>7. \A j \in Slots : request'[j] = request[j] \/ request'[j] = Free
      BY <1>0, <1>3, FreeType DEF Delivered, Rejected, Deferred, TimedOut
    <2>8. UNCHANGED <<lastSequence, produced, runs, current, allocated>>
      BY <1>3 DEF Delivered, Rejected, Deferred, TimedOut, GiveUp
    <2> QED
      BY <2>5, <2>6, <2>7, <2>8, MapKept
  <1>4. ASSUME NEW i \in Slots, RequestLost(i) \/ AnswerDropped(i)
        PROVE  MapInv'
    <2>1. \A j \in Slots : request'[j] = request[j] \/ request'[j] = Free
      BY <1>0, <1>4, FreeType DEF RequestLost, AnswerDropped
    <2> QED
      BY <1>4, <2>1, MapKept DEF RequestLost, AnswerDropped, collectorVars, MapInv,
         Origins
  <1>5. ASSUME NEW i \in Slots, Serve(i) PROVE MapInv'
    BY <1>5, MapHandle DEF Serve
  <1>6. CASE Admin /\ UNCHANGED <<waiting, credential>> /\ UNCHANGED collectorVars
    <2>1. \A j \in Slots : \/ request'[j] \in {request[j], Free}
                            \/ /\ request[j].stage = "located"
                               /\ request'[j].stage = "retry"
                               /\ request'[j].snapshot = request[j].snapshot
      BY <1>0, <1>6, DeleteType DEF Admin, RotateToken, Revoke, ServerCrash
    <2>2. runs' \subseteq runs /\ current' \subseteq runs'
      BY <1>6 DEF Admin, RotateToken, Revoke, ServerCrash, DeleteConnection, MapInv,
         Origins
    <2> QED
      BY <1>6, <2>1, <2>2 DEF MapInv, Ordering, Origins, Newest, Free, collectorVars
  <1>7. CASE CollectorRestart
    BY <1>7, MapKept DEF CollectorRestart, Restart, tableVars, MapInv, Origins
  <1>8. CASE UNCHANGED vars
    BY <1>8 DEF vars, MapInv, Ordering, Origins, Newest
  <1> QED
    BY <1>1, <1>2, <1>3, <1>4, <1>5, <1>6, <1>7, <1>8 DEF Next

\* Every step is a step of LatestSnapshot or changes nothing it can see.
LEMMA MapStep ==
  ASSUME TypeInv, LockInv, MapInv, [Next]_vars
  PROVE  [Map!Next]_Map!vars
  <1> USE DEF Map!vars
  <1>a. /\ Map!Snapshot = Snapshot
        /\ \A x, y : Map!AtLeast(y, x) <=> AtLeast(y, x)
    BY DEF Map!Snapshot, Snapshot, Map!AtLeast, AtLeast, Map!SameSource, SameSource
  <1>0. ASSUME UNCHANGED <<produced, current>> PROVE [Map!Next]_Map!vars
    BY <1>0
  <1>1. CASE Collector
    <2>1. current' = current
      BY <1>1 DEF Collector, serverVars
    <2>2. CASE Enqueue
      <3>1. PICK form \in {"good", "malformed"} :
              LET x == [source |-> allocated, sequence |-> Sequence,
                        type |-> sourceType[allocated], form |-> form]
              IN  produced' = produced \cup {x}
        BY <2>2 DEF Enqueue
      <3> DEFINE x == [source |-> allocated, sequence |-> Sequence,
                       type |-> sourceType[allocated], form |-> form]
      <3>2. allocated \in Sources
        BY <2>2 DEF Enqueue, TypeInv, TypeOK, QueueTypeOK
      <3>3. x \in Snapshot
        BY <2>2, <3>2 DEF Enqueue, Snapshot, Sequence, TypeInv, TypeOK, QueueTypeOK,
           Allocation
      <3>4. \A y \in produced : ~ AtLeast(y, x)
        <4>1. SUFFICES ASSUME NEW y \in produced, y.source = allocated
                       PROVE  ~ (y.sequence >= lastSequence[allocated])
          BY DEF AtLeast, SameSource, Sequence
        <4>2. y.sequence < lastSequence[allocated]
          BY <4>1 DEF MapInv, Ordering
        <4>3. y.sequence \in 1..MaxSequence /\ lastSequence[allocated] \in 0..MaxSequence
          BY <3>2 DEF TypeInv, TypeOK, QueueTypeOK, Snapshot
        <4> HIDE DEF TypeInv, MapInv
        <4> QED BY <4>2, <4>3, SequenceAssumption
      <3>5. Map!Collect
        <4>1. produced' = produced \cup {x}
          BY <3>1
        <4> HIDE DEF x
        <4> QED BY <1>a, <2>1, <3>3, <3>4, <4>1 DEF Map!Collect
      <3> QED BY <3>5 DEF Map!Next
    <2>3. CASE produced' = produced
      BY <1>0, <2>1, <2>3
    <2> QED
      BY <1>1, <2>2, <2>3 DEF Collector, CollectorStep, BeginFlush, EndFlush,
         EnqueueFails, CollectFails, NextSequence, BackoffElapses, tableVars
  <1>2. ASSUME NEW i \in Slots,
               \/ Post(i) \/ Delivered(i) \/ Rejected(i) \/ Deferred(i)
               \/ TimedOut(i) \/ RequestLost(i) \/ AnswerDropped(i)
        PROVE  [Map!Next]_Map!vars
    BY <1>0, <1>2 DEF Post, Delivered, Rejected, Deferred, TimedOut, GiveUp,
       RequestLost, AnswerDropped, collectorVars
  <1>3. ASSUME NEW i \in Slots, Serve(i) PROVE [Map!Next]_Map!vars
    <2>1. produced' = produced
      BY <1>3 DEF Serve, collectorVars
    <2>2. CASE Commit(i)
      <3> DEFINE x == request[i].snapshot
      <3>1. current' = {y \in current : y.source # x.source} \cup {x}
        BY <2>2 DEF Commit, Replaced, LockInv, Locking, SameSource
      <3>2. x \in produced
        BY <2>2 DEF Commit, MapInv, Origins
      <3>3. ~ \E y \in current : AtLeast(y, x)
        BY <2>2 DEF Commit, MapInv, Newest, Origins
      <3>4. Map!Show
        <4> HIDE DEF x
        <4> QED BY <1>a, <2>1, <3>1, <3>2, <3>3 DEF Map!Show
      <3> QED BY <3>4 DEF Map!Next
    <2>3. CASE current' = current
      BY <1>0, <2>1, <2>3
    <2> QED
      BY <1>3, <2>2, <2>3 DEF Serve, Handle, Authenticate, CheckDuplicate,
         CheckStale, FindConnection, BeginWrite
  <1>4. CASE Admin /\ UNCHANGED <<waiting, credential>> /\ UNCHANGED collectorVars
    <2>1. produced' = produced
      BY <1>4 DEF collectorVars
    <2>2. ASSUME NEW s \in Sources, DeleteConnection(s) PROVE [Map!Next]_Map!vars
      BY <2>1, <2>2 DEF DeleteConnection, Map!Clear, Map!Next
    <2>3. CASE RotateToken \/ Revoke \/ ServerCrash
      BY <1>0, <2>1, <2>3 DEF RotateToken, Revoke, ServerCrash
    <2> QED
      BY <1>4, <2>2, <2>3 DEF Admin
  <1>5. CASE CollectorRestart
    BY <1>0, <1>5 DEF CollectorRestart, tableVars
  <1>6. CASE UNCHANGED vars
    BY <1>0, <1>6 DEF vars
  <1> QED
    BY <1>1, <1>2, <1>3, <1>4, <1>5, <1>6 DEF Next

\* If the ingests of one collector never overlap, a source's view only moves to a
\* more recent snapshot, whatever is retried, lost or restarted: the duplicate
\* and stale checks of ingest_collector_snapshot implement LatestSnapshot.
THEOREM SerialDelivery == OneSlot => (Spec => ShowsLatest)
  <1> SUFFICES ASSUME OneSlot PROVE Spec => ShowsLatest
    OBVIOUS
  <1>1. Init => MapInv /\ LockInv
    BY SlotsAssumption DEF Init, QueueInit, IngestInit, MapInv, Ordering, Origins,
       Newest, Free, LockInv, Locking, OneCurrentRun
  <1>2. Init => Map!Init
    BY DEF Init, QueueInit, IngestInit, Map!Init
  <1>3. TypeInv /\ MapInv /\ [Next]_vars => MapInv'
    BY MapNext
  <1>4. TypeInv /\ LockInv /\ MapInv /\ [Next]_vars => [Map!Next]_Map!vars
    BY MapStep
  <1> QED
    BY <1>1, <1>2, <1>3, <1>4, InitType, NextType, LockNext, PTL
    DEF Spec, ShowsLatest, Map!Spec
================================================================================
