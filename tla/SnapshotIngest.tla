----------------------------- MODULE SnapshotIngest -----------------------------
(***************************************************************************)
(* The backend's side of the network map collector protocol: the handler   *)
(* of POST /api/network-map/collector/ingest (collector authentication,    *)
(* the checks of ingest_collector_snapshot, the write and the commit), the *)
(* administrator's routes that interfere with it, and a server crash.      *)
(*                                                                         *)
(* A slot is one HTTP request being served.  Handlers of different         *)
(* requests interleave at their database calls (READ COMMITTED), so each   *)
(* SELECT is a step of its own.  The first flush writes the collector row  *)
(* that the authentication dependency made dirty (last_seen_at): from then *)
(* to its commit a request holds that row's lock, and every other request  *)
(* of the same collector waits for it at its own first flush.              *)
(***************************************************************************)
EXTENDS NetworkMapSnapshots

CONSTANTS
  Slots,    \* bound: the requests of one collector that may overlap
  NoSlot,   \* the collector row is not locked
  NoType,   \* the source has no connection row
  MaxFaults \* bound: faults and administrator's actions of a behaviour

ASSUME SlotsAssumption  == Slots # {} /\ NoSlot \notin Slots
ASSUME NoTypeAssumption == NoType \notin Types
ASSUME FaultsAssumption == MaxFaults \in Nat

VARIABLES
  request,    \* per slot: the request it serves and how far the handler is
  rowLock,    \* the slot that holds the collector's row lock, or NoSlot
  connection, \* per source: the type of its connection row, or NoType
  runs,       \* the committed collection runs, by the snapshot each holds
  current,    \* the runs whose observations have is_current = TRUE
  token,      \* the generation of the collector token the backend accepts
  revoked,    \* revoked_at is set
  faults,     \* faults and administrator's actions so far
  accepted    \* history: every snapshot ever answered "accepted"

serverVars == <<request, rowLock, connection, runs, current, token, revoked,
                accepted>>

Stages == {"sent", "authenticated", "unseen", "newest", "located", "writing",
           "ok", "rejected", "retry"}

Free == [stage |-> "free"]
Busy == [stage : Stages, snapshot : Snapshot, token : 0..MaxFaults,
         found : Types \cup {NoType}, retiring : SUBSET Snapshot]

IngestTypeOK ==
  /\ request \in [Slots -> {Free} \cup Busy]
  /\ rowLock \in Slots \cup {NoSlot}
  /\ connection \in [Sources -> Types \cup {NoType}]
  /\ runs \subseteq Snapshot
  /\ current \subseteq Snapshot
  /\ token \in 0..MaxFaults
  /\ revoked \in BOOLEAN
  /\ faults \in 0..MaxFaults
  /\ accepted \subseteq Snapshot

IngestInit ==
  /\ request = [i \in Slots |-> Free]
  /\ rowLock = NoSlot
  /\ connection = [s \in Sources |-> NoType]
  /\ runs = {}
  /\ current = {}
  /\ token = 0
  /\ revoked = FALSE
  /\ faults = 0
  /\ accepted = {}

Fault == /\ faults < MaxFaults
         /\ faults' = faults + 1

\* The handler of slot i goes on to (or answers with) the given stage.
Stage(i, stage) == request' = [request EXCEPT ![i].stage = stage]

--------------------------------------------------------------------------------
(* The steps of one request. *)

\* require_network_collector: 401 for a revoked collector or an old token.
Authenticate(i) ==
  /\ request[i].stage = "sent"
  /\ IF ~revoked /\ request[i].token = token
       THEN Stage(i, "authenticated")
       ELSE Stage(i, "retry")
  /\ UNCHANGED <<rowLock, connection, runs, current, token, revoked, faults,
                 accepted>>

\* Validation, then the lookup of the snapshot id among the committed runs.
CheckDuplicate(i) ==
  /\ request[i].stage = "authenticated"
  /\ LET x == request[i].snapshot
     IN  \/ /\ x.form = "malformed"
            /\ Stage(i, "rejected")
         \/ /\ x.form = "good"
            /\ \E y \in runs : SameId(x, y)
            /\ Stage(i, "ok")
         \/ /\ x.form = "good"
            /\ ~ \E y \in runs : SameId(x, y)
            /\ Stage(i, "unseen")
  /\ UNCHANGED <<rowLock, connection, runs, current, token, revoked, faults,
                 accepted>>

\* Mutants: the comparison turned around; no comparison.
StaleIfNewer(x, y) == SameSource(x, y) /\ x.sequence >= y.sequence
StaleNever(x, y)   == FALSE

\* y, a committed run of the source, makes x stale: sequence <= latest.sequence.
MakesStale(x, y) == AtLeast(y, x)

\* "stale" is answered with 200, like "accepted" and "duplicate".  The commit that
\* precedes these answers may wait for the row lock, and writes last_seen_at only.
CheckStale(i) ==
  /\ request[i].stage = "unseen"
  /\ IF \E y \in runs : MakesStale(request[i].snapshot, y)
       THEN Stage(i, "ok")
       ELSE Stage(i, "newest")
  /\ UNCHANGED <<rowLock, connection, runs, current, token, revoked, faults,
                 accepted>>

\* The source's connection row: absent, of another type (422), or usable.
FindConnection(i) ==
  /\ request[i].stage = "newest"
  /\ LET found == connection[request[i].snapshot.source]
     IN  \/ /\ found \notin {NoType, request[i].snapshot.type}
            /\ Stage(i, "rejected")
         \/ /\ found \in {NoType, request[i].snapshot.type}
            /\ request' = [request EXCEPT ![i].stage = "located",
                                          ![i].found = found]
  /\ UNCHANGED <<rowLock, connection, runs, current, token, revoked, faults,
                 accepted>>

\* Mutant: authentication does not write the collector row, so nothing is locked.
LockNotTaken == TRUE

\* The collector row's lock can be had.
LockIsFree == rowLock = NoSlot

\* Mutant: no unique constraint on the snapshot id.
ConnectionAsFound(i) == connection[request[i].snapshot.source] = request[i].found

\* The constraints the first flush meets: the run's snapshot id is unique, and
\* the connection is as it was found (if absent, its own insert is unique).
ConstraintsHold(i) ==
  /\ ~ \E y \in runs : SameId(request[i].snapshot, y)
  /\ connection[request[i].snapshot.source] = request[i].found

\* The first flush takes the collector's row lock, or fails with a 500.  Under
\* the lock no other ingest commits: what the UPDATE that retires the current
\* observations reads later is what is committed now.
BeginWrite(i) ==
  /\ request[i].stage = "located"
  /\ LockIsFree
  /\ \/ /\ ConstraintsHold(i)
        /\ rowLock' = i
        /\ request' = [request EXCEPT ![i].stage = "writing",
             ![i].retiring = {y \in current : SameSource(y, request[i].snapshot)}]
     \/ /\ ~ ConstraintsHold(i)
        /\ Stage(i, "retry")
        /\ rowLock' = rowLock
  /\ UNCHANGED <<connection, runs, current, token, revoked, faults, accepted>>

\* The current runs once slot i has retired the old observations and added its own.
Replaced(i) == (current \ request[i].retiring) \cup {request[i].snapshot}

\* The rest of ingest_collector_snapshot and get_db's commit; the 200 follows.
Commit(i) ==
  /\ request[i].stage = "writing"
  /\ runs' = runs \cup {request[i].snapshot}
  /\ current' = Replaced(i)
  /\ connection' = [connection EXCEPT ![request[i].snapshot.source] =
                                         request[i].snapshot.type]
  /\ accepted' = accepted \cup {request[i].snapshot}
  /\ rowLock' = NoSlot
  /\ Stage(i, "ok")
  /\ UNCHANGED <<token, revoked, faults>>

Handle(i) == \/ Authenticate(i) \/ CheckDuplicate(i) \/ CheckStale(i)
             \/ FindConnection(i) \/ BeginWrite(i) \/ Commit(i)

--------------------------------------------------------------------------------
(* The administrator and the server process. *)

\* Both routes update the collector row, so they wait for its lock.
RotateToken ==
  /\ ~ revoked
  /\ LockIsFree
  /\ Fault
  /\ token' = token + 1
  /\ UNCHANGED <<request, rowLock, connection, runs, current, revoked, accepted>>

Revoke ==
  /\ ~ revoked
  /\ LockIsFree
  /\ Fault
  /\ revoked' = TRUE
  /\ UNCHANGED <<request, rowLock, connection, runs, current, token, accepted>>

\* Slot i has found the connection row of source s and refers to it by its id.
RefersTo(i, s) == /\ request[i].stage = "located"
                  /\ request[i].snapshot.source = s
                  /\ request[i].found # NoType

\* Deleting a connection cascades to its runs and observations.  It waits for a
\* request that is writing a run of that connection (the run's foreign key); one
\* that has only found the row can no longer do anything but fail, with a 500.
DeleteConnection(s) ==
  /\ connection[s] # NoType
  /\ ~ \E i \in Slots : request[i].stage = "writing" /\ request[i].snapshot.source = s
  /\ Fault
  /\ connection' = [connection EXCEPT ![s] = NoType]
  /\ runs' = {x \in runs : x.source # s}
  /\ current' = {x \in current : x.source # s}
  /\ request' = [i \in Slots |-> IF RefersTo(i, s)
                                  THEN [request[i] EXCEPT !.stage = "retry"]
                                  ELSE request[i]]
  /\ UNCHANGED <<rowLock, token, revoked, accepted>>

\* The backend dies: open transactions roll back, no request is answered.
ServerCrash ==
  /\ Fault
  /\ request' = [i \in Slots |-> Free]
  /\ rowLock' = NoSlot
  /\ UNCHANGED <<connection, runs, current, token, revoked, accepted>>
================================================================================
