--------------------------- MODULE NetworkMapDelivery ---------------------------
(***************************************************************************)
(* The collector and the backend together, over a network that loses       *)
(* requests and answers.  A post occupies a slot of the backend from the   *)
(* moment it is sent; the collector waits for its answer or for the        *)
(* client timeout, after which the request it gave up may still be served. *)
(***************************************************************************)
EXTENDS DeliveryQueue, SnapshotIngest

VARIABLES
  waiting,   \* the slot whose answer the collector waits for, or NoSlot
  credential \* the generation of the token in the collector's configuration

vars == <<lastSequence, deliveries, nextId, phase, batch, remaining, allocated,
          sourceType, produced, request, rowLock, connection, runs, current,
          token, revoked, faults, accepted, waiting, credential>>

collectorVars == <<lastSequence, deliveries, nextId, phase, batch, remaining,
                   allocated, sourceType, produced>>

\* The row a flush posts next: the lowest id of its batch.
InHand == CHOOSE d \in batch : \A e \in batch : d.id <= e.id

TypeOK ==
  /\ QueueTypeOK
  /\ IngestTypeOK
  /\ waiting \in Slots \cup {NoSlot}
  /\ credential \in 0..MaxFaults

Init ==
  /\ QueueInit
  /\ IngestInit
  /\ waiting = NoSlot
  /\ credential = 0

--------------------------------------------------------------------------------
(* _flush: one post at a time. *)

Post(i) ==
  /\ phase \in {"flush", "last flush"}
  /\ batch # {}
  /\ waiting = NoSlot
  /\ request[i] = Free
  /\ waiting' = i
  /\ request' = [request EXCEPT ![i] =
       [stage |-> "sent", snapshot |-> InHand.snapshot, token |-> credential,
        found |-> NoType, retiring |-> {}]]
  /\ UNCHANGED <<rowLock, connection, runs, current, token, revoked, faults,
                 accepted, credential>>
  /\ UNCHANGED collectorVars

\* 200: the row is deleted and the flush goes on.
Delivered(i) ==
  /\ waiting = i
  /\ request[i].stage = "ok"
  /\ Delete(InHand)
  /\ batch' = batch \ {InHand}
  /\ waiting' = NoSlot
  /\ request' = [request EXCEPT ![i] = Free]
  /\ UNCHANGED <<lastSequence, nextId, phase, remaining, allocated, sourceType,
                 produced, rowLock, connection, runs, current, token, revoked,
                 faults, accepted, credential>>

\* Mutant: a 401 or a 500 is taken for a permanent refusal.
AnyRefusal == {"rejected", "retry"}

\* What _post raises PermanentDeliveryError for: a 4xx other than 401 and 429.
PermanentRefusals == {"rejected"}

\* The row is dead and the flush goes on.
Rejected(i) ==
  /\ waiting = i
  /\ request[i].stage \in PermanentRefusals
  /\ Fail(InHand, "dead")
  /\ batch' = batch \ {InHand}
  /\ waiting' = NoSlot
  /\ request' = [request EXCEPT ![i] = Free]
  /\ UNCHANGED <<lastSequence, nextId, phase, remaining, allocated, sourceType,
                 produced, rowLock, connection, runs, current, token, revoked,
                 faults, accepted, credential>>

\* After any other failure the row backs off and the flush gives up the rest.
GiveUp ==
  /\ Fail(InHand, "pending")
  /\ batch' = {}
  /\ waiting' = NoSlot
  /\ UNCHANGED <<lastSequence, nextId, phase, remaining, allocated, sourceType,
                 produced, rowLock, connection, runs, current, token, revoked,
                 accepted, credential>>

\* A temporary refusal (401, 500), or the connection broke.
Deferred(i) ==
  /\ waiting = i
  /\ request[i].stage \in {"retry", "free"} \ PermanentRefusals
  /\ request' = [request EXCEPT ![i] = Free]
  /\ GiveUp
  /\ UNCHANGED faults

\* The client times out; the backend may go on serving the request.
TimedOut(i) ==
  /\ waiting = i
  /\ request[i] # Free
  /\ Fault
  /\ GiveUp
  /\ UNCHANGED request

--------------------------------------------------------------------------------
(* The network, and the operator of the collector. *)

RequestLost(i) ==
  /\ request[i].stage = "sent"
  /\ Fault
  /\ request' = [request EXCEPT ![i] = Free]
  /\ UNCHANGED <<rowLock, connection, runs, current, token, revoked, accepted,
                 waiting, credential>>
  /\ UNCHANGED collectorVars

\* The answer to a request that nobody waits for any more.
AnswerDropped(i) ==
  /\ waiting # i
  /\ request[i].stage \in {"ok", "rejected", "retry"}
  /\ request' = [request EXCEPT ![i] = Free]
  /\ UNCHANGED <<rowLock, connection, runs, current, token, revoked, faults,
                 accepted, waiting, credential>>
  /\ UNCHANGED collectorVars

\* A crash of the collector; or its operator edits config.yml (the new token,
\* another type for a source) and restarts it.
CollectorRestart ==
  /\ Fault
  /\ Restart
  /\ waiting' = NoSlot
  /\ credential' \in {credential, token}
  /\ sourceType' \in [Sources -> Types]
  /\ UNCHANGED tableVars
  /\ UNCHANGED <<request, rowLock, connection, runs, current, token, revoked,
                 accepted>>

Collector == CollectorStep /\ UNCHANGED <<serverVars, faults, waiting, credential>>

Serve(i) == Handle(i) /\ UNCHANGED <<waiting, credential>> /\ UNCHANGED collectorVars

Admin == \/ RotateToken \/ Revoke \/ ServerCrash
         \/ \E s \in Sources : DeleteConnection(s)

Next ==
  \/ Collector
  \/ \E i \in Slots : \/ Post(i) \/ Delivered(i) \/ Rejected(i) \/ Deferred(i)
                      \/ TimedOut(i) \/ RequestLost(i) \/ AnswerDropped(i) \/ Serve(i)
  \/ Admin /\ UNCHANGED <<waiting, credential>> /\ UNCHANGED collectorVars
  \/ CollectorRestart

Spec == Init /\ [][Next]_vars

(***************************************************************************)
(* Faults are finitely many (MaxFaults).  Between them both processes keep *)
(* running: the collector is a loop under a restarting container, a        *)
(* backend handler runs to its answer, a backoff is a finite delay.        *)
(***************************************************************************)
Fairness ==
  /\ WF_vars(Collector /\ phase' # phase)
  /\ WF_vars(\E s \in Sources : CollectFails(s) /\ Collector)
  /\ WF_vars(Enqueue /\ Collector)
  /\ WF_vars(\E d \in deliveries : BackoffElapses(d) /\ Collector)
  /\ WF_vars(\E i \in Slots : Post(i))
  /\ \A i \in Slots : /\ WF_vars(Delivered(i)) /\ WF_vars(Rejected(i))
                      /\ WF_vars(Deferred(i))  /\ WF_vars(AnswerDropped(i))
                      /\ WF_vars(Serve(i))

FairSpec == Spec /\ Fairness

--------------------------------------------------------------------------------
(* Properties. *)

\* x, or a more recent snapshot of its source, was accepted by the backend.
Settled(x) == \E y \in accepted : AtLeast(y, x)

\* No snapshot the collector wrote to its queue is ever forgotten: it is still
\* queued (pending or dead) until the backend has accepted it or a later one of
\* its source.  _flush deletes a row on any 200, whatever its disposition.
NothingLost == \A x \in produced : Queued(x) \/ Settled(x)

\* However ingests overlap, at most one run per source is current: what two
\* handlers retire and add never leaves the observations of two runs mixed.
OneCurrentRun == \A x, y \in current : SameSource(x, y) => x = y

\* A retry of a snapshot already accepted never installs it a second time, in
\* particular not over a later one (unless its connection was deleted).
NeverReinstalled == [][current' \cap runs \subseteq current]_vars

\* Only a refusal that is certain to repeat kills a delivery: the payload is
\* malformed, or its source had been accepted with another type.
DeadOnlyWhenRefused ==
  \A d \in deliveries : d.status = "dead" =>
    \/ d.snapshot.form = "malformed"
    \/ \E y \in accepted : /\ SameSource(y, d.snapshot)
                           /\ y.type # d.snapshot.type

\* A snapshot that becomes current is newer than every accepted run of its
\* source: "rejects stale source sequences".  Overlapping ingests break it.
StaleRejected ==
  [][\A x \in current' \ current, y \in runs : SameSource(x, y) => ~ AtLeast(y, x)]_vars

Map == INSTANCE LatestSnapshot WITH collected <- produced, shown <- current

\* With one request at a time, the delivery implements what the map promises.
ShowsLatest == Map!Spec

\* Every snapshot written to the queue eventually reaches the map, or a later one
\* of its source does, unless it is refused for good or the credential is invalid:
\* no failure, backoff or crash strands a row.
EventuallySettled ==
  \A x \in Snapshot :
    x \in produced ~> Settled(x) \/ Dead(x) \/ revoked \/ credential # token
================================================================================
