------------------------------- MODULE SiemOutbox -------------------------------
(***************************************************************************)
(* The SIEM outbox of the backend (services/siem.py): audit logs and       *)
(* change events put a row into siem_deliveries in their own transaction,  *)
(* and a job that runs every minute, one instance at a time, sends the due *)
(* rows and commits what became of them only when the whole batch is done. *)
(*                                                                         *)
(* Over HTTP a send succeeds only when the receiver has acknowledged the   *)
(* document.  Over syslog it succeeds when the message has been written to *)
(* a socket, so a loss on the way may go unnoticed.                        *)
(***************************************************************************)
EXTENDS Integers, FiniteSets

CONSTANTS
  Events,     \* the events the application records
  Refused,    \* those whose document no receiver takes (too large, rejected)
  Transports, \* the transports an administrator may choose
  BatchLimit, \* the limit of a flush, 100 in the code
  MaxFaults   \* bound: crashes, broken answers, outages and setting changes

ASSUME EventsAssumption     == IsFiniteSet(Events) /\ Refused \subseteq Events
ASSUME TransportsAssumption == Transports # {} /\ Transports \subseteq {"http", "syslog"}
ASSUME BatchAssumption      == BatchLimit \in Nat \ {0}
ASSUME FaultsAssumption     == MaxFaults \in Nat

VARIABLES
  row,       \* per event: its transaction, then the status of its outbox row
  createdAt, \* per event: its place in the order of created_at
  due,       \* the rows whose next_attempt_at is unset or has passed
  enabled,   \* SystemSettings.siem_enabled
  transport, \* SystemSettings.siem_config
  flushing,  \* flush_siem_deliveries is running
  using,     \* the transport the running flush has read
  batch,     \* the rows it has selected and not yet sent
  result,    \* per event: what its uncommitted session says of the row
  up,        \* the receiver can be reached
  faults,    \* faults so far
  received,  \* history: how often the receiver got the event
  repeats,   \* history: sends whose success was never committed
  committed, \* history: the events whose transaction committed
  unnoticed  \* history: rows that became sent although nothing arrived

flushVars   == <<flushing, using, batch, result>>
historyVars == <<received, repeats, committed, unnoticed>>
vars == <<row, createdAt, due, enabled, transport, flushVars, up, faults, historyVars>>

Status == {"none", "open", "aborted", "pending", "failed", "sent", "purged"}

TypeOK ==
  /\ row \in [Events -> Status]
  /\ createdAt \in [Events -> Nat]
  /\ due \subseteq Events
  /\ enabled \in BOOLEAN
  /\ transport \in Transports
  /\ flushing \in BOOLEAN
  /\ using \in Transports
  /\ batch \subseteq Events
  /\ result \in [Events -> {"none", "sent", "unheard", "failed"}]
  /\ up \in BOOLEAN
  /\ faults \in 0..MaxFaults
  /\ received \in [Events -> Nat]
  /\ repeats \in Nat
  /\ committed \subseteq Events
  /\ unnoticed \subseteq Events

Init ==
  /\ row = [e \in Events |-> "none"]
  /\ createdAt = [e \in Events |-> 0]
  /\ due = {}
  /\ enabled \in BOOLEAN
  /\ transport \in Transports
  /\ flushing = FALSE
  /\ using = transport
  /\ batch = {}
  /\ result = [e \in Events |-> "none"]
  /\ up = TRUE
  /\ faults = 0
  /\ received = [e \in Events |-> 0]
  /\ repeats = 0
  /\ committed = {}
  /\ unnoticed = {}

Fault == faults < MaxFaults /\ faults' = faults + 1

--------------------------------------------------------------------------------
(* The transactions that record events. *)

Created == {e \in Events : row[e] # "none"}

\* queue_change_event, queue_audit_logs: the row is added to the session of the
\* event, whether or not forwarding is enabled.
Queue(e) ==
  /\ row[e] = "none"
  /\ row' = [row EXCEPT ![e] = "open"]
  /\ createdAt' = [createdAt EXCEPT ![e] = Cardinality(Created) + 1]
  /\ UNCHANGED <<due, enabled, transport, flushVars, up, faults, historyVars>>

\* get_db (or the job that owns the session) commits the event and its row.
CommitEvent(e) ==
  /\ row[e] = "open"
  /\ row' = [row EXCEPT ![e] = "pending"]
  /\ due' = due \cup {e}
  /\ committed' = committed \cup {e}
  /\ UNCHANGED <<createdAt, enabled, transport, flushVars, up, faults, received, repeats, unnoticed>>

RollbackEvent(e) ==
  /\ row[e] = "open"
  /\ row' = [row EXCEPT ![e] = "aborted"]
  /\ UNCHANGED <<createdAt, due, enabled, transport, flushVars, up, faults, historyVars>>

--------------------------------------------------------------------------------
(* flush_siem_deliveries. *)

Due == {e \in due : row[e] \in {"pending", "failed"}}

\* Mutant: rows that failed once are not selected again.
OnlyPending ==
  LET fresh == {e \in due : row[e] = "pending"}
  IN  {e \in fresh : Cardinality({f \in fresh : createdAt[f] < createdAt[e]}) < BatchLimit}

\* The due rows in the order of created_at, up to the limit.
DueBatch ==
  {e \in Due : Cardinality({f \in Due : createdAt[f] < createdAt[e]}) < BatchLimit}

BeginFlush ==
  /\ ~ flushing
  /\ enabled
  /\ flushing' = TRUE
  /\ using' = transport
  /\ batch' = DueBatch
  /\ result' = [e \in Events |-> "none"]
  /\ UNCHANGED <<row, createdAt, due, enabled, transport, up, faults, historyVars>>

First(e) == e \in batch /\ \A f \in batch : createdAt[e] <= createdAt[f]

\* What the session records of a send; the row changes at the flush's commit.
Settle(e, outcome) ==
  /\ flushing
  /\ First(e)
  /\ batch' = batch \ {e}
  /\ result' = [result EXCEPT ![e] = outcome]
  /\ UNCHANGED <<row, createdAt, due, enabled, transport, flushing, using, up, committed, unnoticed>>

\* The receiver takes the document, and over HTTP says so.
SendAccepted(e) ==
  /\ up /\ e \notin Refused
  /\ Settle(e, "sent")
  /\ received' = [received EXCEPT ![e] = @ + 1]
  /\ UNCHANGED <<faults, repeats>>

\* No receiver, or one that refuses the document, and an exception that says so.
SendFails(e) ==
  /\ ~ up \/ e \in Refused
  /\ Settle(e, "failed")
  /\ UNCHANGED <<faults, received, repeats>>

\* Over syslog it may go unnoticed: UDP has no answer, and TCP only buffers.
SendUnnoticed(e) ==
  /\ ~ up \/ e \in Refused
  /\ using = "syslog"
  /\ Settle(e, "unheard")
  /\ UNCHANGED <<faults, received, repeats>>

\* The document arrives, and the connection or its answer is lost after that.
AnswerLost(e) ==
  /\ up /\ e \notin Refused
  /\ Fault
  /\ Settle(e, "failed")
  /\ received' = [received EXCEPT ![e] = @ + 1]
  /\ repeats' = repeats + 1

\* Mutants: a status that nothing selects again; a success that is not recorded;
\* a failed row that is written off as sent.
ErrorStatus(e) ==
  IF result[e] = "none" THEN row[e] ELSE IF result[e] = "failed" THEN "error" ELSE "sent"
SentStaysDue(e) == IF result[e] = "failed" THEN "failed" ELSE row[e]
ForgetFailed(e) == IF result[e] = "none" THEN row[e] ELSE "sent"

\* The status the flush commits for a row.
Committed(e) ==
  IF result[e] = "none" THEN row[e] ELSE IF result[e] = "failed" THEN "failed" ELSE "sent"

\* One commit for the whole batch.  A failed row waits for its next attempt.
EndFlush ==
  /\ flushing
  /\ batch = {}
  /\ row' = [e \in Events |-> Committed(e)]
  /\ due' = due \ {e \in Events : result[e] = "failed"}
  /\ flushing' = FALSE
  /\ result' = [e \in Events |-> "none"]
  /\ unnoticed' = unnoticed \cup {e \in Events : result[e] = "unheard"}
  /\ UNCHANGED <<createdAt, enabled, transport, using, batch, up, faults, received, repeats, committed>>

\* min(2 ** min(attempts, 6), 60) minutes pass; attempts has no limit.
BackoffElapses(e) ==
  /\ row[e] = "failed"
  /\ e \notin due
  /\ due' = due \cup {e}
  /\ UNCHANGED <<row, createdAt, enabled, transport, flushVars, up, faults, historyVars>>

--------------------------------------------------------------------------------
(* The rest of the system. *)

\* Mutant: the purge goes by age alone.
AnyRow(e) == row[e] \in {"pending", "failed", "sent"}

\* What purge_old_audit_logs may delete, once it is 30 days old.
Purgeable(e) == row[e] = "sent"

Purge(e) ==
  /\ Purgeable(e)
  /\ row' = [row EXCEPT ![e] = "purged"]
  /\ UNCHANGED <<createdAt, due, enabled, transport, flushVars, up, faults, historyVars>>

\* update_siem_settings; a flush that is running keeps what it has read.
UpdateSettings ==
  /\ Fault
  /\ enabled' \in BOOLEAN
  /\ transport' \in Transports
  /\ UNCHANGED <<row, createdAt, due, flushVars, up, historyVars>>

\* The backend dies, or the commit fails: every open transaction rolls back.
Crash ==
  /\ Fault
  /\ row' = [e \in Events |-> IF row[e] = "open" THEN "aborted" ELSE row[e]]
  /\ flushing' = FALSE
  /\ batch' = {}
  /\ result' = [e \in Events |-> "none"]
  /\ repeats' = repeats + 1
  /\ UNCHANGED <<createdAt, due, enabled, transport, using, up, received, committed, unnoticed>>

Outage ==
  /\ up
  /\ Fault
  /\ up' = FALSE
  /\ UNCHANGED <<row, createdAt, due, enabled, transport, flushVars, historyVars>>

Recovery ==
  /\ ~ up
  /\ up' = TRUE
  /\ UNCHANGED <<row, createdAt, due, enabled, transport, flushVars, faults, historyVars>>

Send(e) == SendAccepted(e) \/ SendFails(e) \/ SendUnnoticed(e) \/ AnswerLost(e)

Flush == BeginFlush \/ EndFlush \/ \E e \in Events : Send(e)

Next ==
  \/ \E e \in Events : \/ Queue(e) \/ CommitEvent(e) \/ RollbackEvent(e)
                       \/ BackoffElapses(e) \/ Purge(e)
  \/ Flush
  \/ UpdateSettings \/ Crash \/ Outage \/ Recovery

Spec == Init /\ [][Next]_vars

\* The job is scheduled for ever, a backoff is a finite delay, an outage ends, and
\* so does every send: connecting, posting and draining have time-outs.  The TCP
\* sender's closing wait (siem.py:247) has none, so over a connection that never
\* finishes closing the flush would hang, and what is said under this fairness
\* would not hold.
Fairness ==
  /\ WF_vars(Flush)
  /\ \A e \in Events : WF_vars(BackoffElapses(e))
  /\ WF_vars(Recovery)

FairSpec == Spec /\ Fairness

--------------------------------------------------------------------------------
(* Properties. *)

\* A committed event stays in the outbox until the receiver has had it, whatever
\* outage, crash between the sends and their commit, purge or change of settings
\* comes in between; only a syslog send that no error reported can be lost.
OnlyUnnoticedLosses ==
  \A e \in committed : row[e] \in {"pending", "failed"} \/ received[e] > 0 \/ e \in unnoticed

\* "A temporary SIEM outage does not discard queued events" (README.md): what has
\* left the outbox has arrived.
NothingDiscarded ==
  \A e \in committed : row[e] \in {"pending", "failed"} \/ received[e] > 0

Held == {e \in Events : row[e] \in {"pending", "failed"}}

Outbox == INSTANCE AtLeastOnce WITH held <- Held, recorded <- committed, lost <- unnoticed

\* The outbox implements at-least-once delivery: an event becomes the outbox's duty
\* with its own transaction and stops being one in the commit of a flush that has
\* delivered it, or could not hear that it did not; and no delivery is repeated for
\* which no earlier success was left unrecorded, whatever crash, lost answer, purge
\* or change of the settings comes in between.
DeliversAtLeastOnce == Outbox!Spec

\* The receiver never sees an event whose transaction did not commit.
OnlyCommitted == \A e \in Events : received[e] > 0 => e \in committed

\* An event arrives more than once only if a success was never committed: one
\* repetition per lost answer or per flush that died before its single commit.
RepeatsExplained == \A e \in Events : received[e] <= 1 + repeats

\* Whatever fails on the way, and although refused documents stay in the queue for
\* ever, an event that can be delivered is delivered once forwarding stays enabled.
\* That needs fewer refused documents than a flush takes: being the oldest, they go
\* first whenever they are due.
EventuallyReceived ==
  <>[]enabled => \A e \in Events \ Refused :
    e \in committed ~> received[e] > 0 \/ e \in unnoticed
================================================================================
