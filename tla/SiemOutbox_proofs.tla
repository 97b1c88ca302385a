---------------------------- MODULE SiemOutbox_proofs ----------------------------
(***************************************************************************)
(* What the SIEM outbox guarantees for every set of events, every batch    *)
(* limit and every number of faults.                                       *)
(***************************************************************************)
EXTENDS SiemOutbox, FiniteSetTheorems, TLAPS

USE EventsAssumption, TransportsAssumption, BatchAssumption, FaultsAssumption

\* The outbox holds the committed events, and a flush works on rows still to send.
OutboxInv ==
  /\ \A e \in Events : e \in committed <=> row[e] \in {"pending", "failed", "sent", "purged"}
  /\ due \subseteq committed
  /\ \A e \in batch : row[e] \in {"pending", "failed"} /\ result[e] = "none"
  /\ \A e \in Events : result[e] # "none" => flushing /\ row[e] \in {"pending", "failed"}
  /\ \A e \in Events : received[e] > 0 => e \in committed

\* A row is sent, or about to become sent, because its document arrived or because
\* a syslog send went unnoticed.
ArrivedInv ==
  \A e \in Events :
    /\ row[e] \in {"sent", "purged"} => received[e] > 0 \/ e \in unnoticed
    /\ result[e] = "sent" => received[e] > 0

\* A row that will be sent again has used up one uncommitted success per arrival.
RepeatsInv ==
  /\ \A e \in Events : received[e] <= 1 + repeats
  /\ \A e \in Events :
       row[e] \in {"pending", "failed"} /\ result[e] \in {"none", "failed"} => received[e] <= repeats

--------------------------------------------------------------------------------
\* The rows a flush selects are due and still to be sent (the query of
\* flush_siem_deliveries).
LEMMA BatchIsDue ==
  ASSUME TypeOK
  PROVE  /\ DueBatch \subseteq Events
         /\ \A e \in DueBatch : e \in due /\ row[e] \in {"pending", "failed"}
  BY DEF DueBatch, Due, TypeOK

\* The creation order of the rows is a number (created_at of SiemDelivery).
LEMMA CreatedCount ==
  ASSUME TypeOK
  PROVE  Cardinality(Created) + 1 \in Nat
<1>1. Created \subseteq Events
  BY DEF Created
<1>2. IsFiniteSet(Created)
  BY <1>1, FS_Subset
<1>3. Cardinality(Created) \in Nat
  BY <1>2, FS_CardinalityType
<1>. QED  BY <1>3

\* Every state of the outbox has the types its columns and variables declare.
THEOREM TypeCorrect == Spec => []TypeOK
<1>1. Init => TypeOK
  <2>1. 0 \in Nat /\ 0 \in 0..MaxFaults
    OBVIOUS
  <2>2. "none" \in Status /\ "none" \in {"none", "sent", "unheard", "failed"}
    BY DEF Status
  <2>. QED  BY <2>1, <2>2, Zenon DEF Init, TypeOK
<1>2. TypeOK /\ [Next]_vars => TypeOK'
  <2>. SUFFICES ASSUME TypeOK, [Next]_vars PROVE TypeOK'
    OBVIOUS
  <2>0. \A f \in Nat : f < MaxFaults => f + 1 \in 0..MaxFaults
    OBVIOUS
  <2>. USE DEF TypeOK, Status, flushVars, historyVars
  <2>1. ASSUME NEW e \in Events, Queue(e) PROVE TypeOK'
    BY <2>1, CreatedCount DEF Queue
  <2>2. ASSUME NEW e \in Events, CommitEvent(e) PROVE TypeOK'
    BY <2>2 DEF CommitEvent
  <2>3. ASSUME NEW e \in Events, RollbackEvent(e) PROVE TypeOK'
    BY <2>3 DEF RollbackEvent
  <2>4. ASSUME NEW e \in Events, BackoffElapses(e) PROVE TypeOK'
    BY <2>4 DEF BackoffElapses
  <2>5. ASSUME NEW e \in Events, Purge(e) PROVE TypeOK'
    BY <2>5 DEF Purge
  <2>6. ASSUME BeginFlush PROVE TypeOK'
    BY <2>6, BatchIsDue DEF BeginFlush
  <2>7. ASSUME EndFlush PROVE TypeOK'
    BY <2>7 DEF EndFlush, Committed
  <2>8. ASSUME NEW e \in Events, Send(e) PROVE TypeOK'
    <3>1. CASE SendAccepted(e)
      BY <3>1 DEF SendAccepted, Settle
    <3>2. CASE SendFails(e)
      BY <3>2 DEF SendFails, Settle
    <3>3. CASE SendUnnoticed(e)
      BY <3>3 DEF SendUnnoticed, Settle
    <3>4. CASE AnswerLost(e)
      BY <3>4, <2>0 DEF AnswerLost, Settle, Fault
    <3>. QED  BY <2>8, <3>1, <3>2, <3>3, <3>4 DEF Send
  <2>9. ASSUME UpdateSettings PROVE TypeOK'
    BY <2>9, <2>0 DEF UpdateSettings, Fault
  <2>10. ASSUME Crash PROVE TypeOK'
    <3>1. row' \in [Events -> Status] /\ result' \in [Events -> {"none", "sent", "unheard", "failed"}]
      BY <2>10 DEF Crash
    <3>2. repeats' \in Nat /\ faults' \in 0..MaxFaults
      BY <2>10, <2>0 DEF Crash, Fault
    <3>3. flushing' \in BOOLEAN /\ batch' \subseteq Events
      BY <2>10 DEF Crash
    <3>4. UNCHANGED <<createdAt, due, enabled, transport, using, up, received, committed, unnoticed>>
      BY <2>10 DEF Crash
    <3>5. unnoticed' = unnoticed /\ unnoticed \subseteq Events
      BY <2>10 DEF Crash
    <3>. QED  BY <3>1, <3>2, <3>3, <3>4, <3>5
  <2>11. ASSUME Outage PROVE TypeOK'
    <3>1. faults' \in 0..MaxFaults
      BY <2>11, <2>0 DEF Outage, Fault
    <3>2. up' \in BOOLEAN
      BY <2>11 DEF Outage
    <3>3. UNCHANGED <<row, createdAt, due, enabled, transport, flushVars, historyVars>>
      BY <2>11 DEF Outage
    <3>. QED  BY <3>1, <3>2, <3>3
  <2>12. ASSUME Recovery PROVE TypeOK'
    BY <2>12 DEF Recovery
  <2>13. ASSUME UNCHANGED vars PROVE TypeOK'
    BY <2>13 DEF vars
  <2>. QED
    BY <2>1, <2>2, <2>3, <2>4, <2>5, <2>6, <2>7, <2>8, <2>9, <2>10, <2>11, <2>12, <2>13
       DEF Next, Flush
<1>. QED  BY <1>1, <1>2, PTL DEF Spec

--------------------------------------------------------------------------------
\* The outbox invariant is kept by every step of the application, the flush job
\* and the purge.
LEMMA OutboxStep ==
  ASSUME TypeOK, OutboxInv, [Next]_vars
  PROVE  OutboxInv'
<1>. USE DEF TypeOK, Status, OutboxInv, flushVars, historyVars
<1>1. ASSUME NEW e \in Events, Queue(e) PROVE OutboxInv'
  BY <1>1 DEF Queue
<1>2. ASSUME NEW e \in Events, CommitEvent(e) PROVE OutboxInv'
  BY <1>2 DEF CommitEvent
<1>3. ASSUME NEW e \in Events, RollbackEvent(e) PROVE OutboxInv'
  BY <1>3 DEF RollbackEvent
<1>4. ASSUME NEW e \in Events, BackoffElapses(e) PROVE OutboxInv'
  BY <1>4 DEF BackoffElapses
<1>5. ASSUME NEW e \in Events, Purge(e) PROVE OutboxInv'
  BY <1>5 DEF Purge, Purgeable
<1>6. ASSUME BeginFlush PROVE OutboxInv'
  BY <1>6, BatchIsDue DEF BeginFlush
<1>7. ASSUME EndFlush PROVE OutboxInv'
  BY <1>7 DEF EndFlush, Committed
<1>8. ASSUME NEW e \in Events, Send(e) PROVE OutboxInv'
  <2>1. e \in batch /\ flushing /\ row[e] \in {"pending", "failed"} /\ e \in committed
    BY <1>8 DEF Send, SendAccepted, SendFails, SendUnnoticed, AnswerLost, Settle, First
  <2>2. CASE SendAccepted(e)
    BY <2>1, <2>2 DEF SendAccepted, Settle
  <2>3. CASE SendFails(e)
    BY <2>1, <2>3 DEF SendFails, Settle
  <2>4. CASE SendUnnoticed(e)
    BY <2>1, <2>4 DEF SendUnnoticed, Settle
  <2>5. CASE AnswerLost(e)
    BY <2>1, <2>5 DEF AnswerLost, Settle
  <2>. QED  BY <1>8, <2>2, <2>3, <2>4, <2>5 DEF Send
<1>9. ASSUME Crash PROVE OutboxInv'
  BY <1>9 DEF Crash
<1>10. ASSUME UpdateSettings \/ Outage \/ Recovery \/ UNCHANGED vars PROVE OutboxInv'
  BY <1>10 DEF UpdateSettings, Outage, Recovery, vars
<1>. QED
  BY <1>1, <1>2, <1>3, <1>4, <1>5, <1>6, <1>7, <1>8, <1>9, <1>10 DEF Next, Flush

\* A repetition is paid for by a lost answer, a flush that died or a failed commit.
LEMMA RepeatsStep ==
  ASSUME TypeOK, OutboxInv, RepeatsInv, [Next]_vars
  PROVE  RepeatsInv'
<1>. USE DEF TypeOK, Status, RepeatsInv, flushVars, historyVars
<1>1. ASSUME NEW e \in Events, Queue(e) PROVE RepeatsInv'
  BY <1>1 DEF Queue
<1>2. ASSUME NEW e \in Events, CommitEvent(e) PROVE RepeatsInv'
  <2>1. received[e] = 0
    BY <1>2 DEF CommitEvent, OutboxInv
  <2>. QED  BY <1>2, <2>1 DEF CommitEvent
<1>3. ASSUME NEW e \in Events, RollbackEvent(e) PROVE RepeatsInv'
  BY <1>3 DEF RollbackEvent
<1>4. ASSUME NEW e \in Events, BackoffElapses(e) \/ Purge(e) PROVE RepeatsInv'
  BY <1>4 DEF BackoffElapses, Purge
<1>5. ASSUME BeginFlush PROVE RepeatsInv'
  <2>1. \A f \in Events : row[f] \in {"pending", "failed"} => received[f] <= repeats \/ result[f] \in {"sent", "unheard"}
    OBVIOUS
  <2>2. \A f \in Events : result[f] = "none"
    BY <1>5 DEF BeginFlush, OutboxInv
  <2>. QED  BY <1>5, <2>1, <2>2 DEF BeginFlush
<1>6. ASSUME EndFlush PROVE RepeatsInv'
  <2>1. received' = received /\ repeats' = repeats
    BY <1>6 DEF EndFlush
  <2>2. ASSUME NEW f \in Events, row'[f] \in {"pending", "failed"}
        PROVE  received[f] <= repeats
    <3>1. row'[f] = Committed(f) /\ result[f] \in {"none", "sent", "unheard", "failed"}
      BY <1>6 DEF EndFlush
    <3>2. result[f] \in {"none", "failed"} /\ row[f] \in {"pending", "failed"}
      BY <2>2, <3>1 DEF Committed, OutboxInv
    <3>. QED  BY <3>2
  <2>. QED  BY <2>1, <2>2
<1>7. ASSUME NEW e \in Events, Send(e) PROVE RepeatsInv'
  <2>1. e \in batch /\ row[e] \in {"pending", "failed"} /\ result[e] = "none"
    BY <1>7 DEF OutboxInv, Send, SendAccepted, SendFails, SendUnnoticed, AnswerLost, Settle, First
  <2>2. received[e] <= repeats
    BY <2>1
  <2>3. CASE SendAccepted(e)
    BY <2>2, <2>3 DEF SendAccepted, Settle
  <2>4. CASE SendFails(e) \/ SendUnnoticed(e)
    BY <2>2, <2>4 DEF SendFails, SendUnnoticed, Settle
  <2>5. CASE AnswerLost(e)
    BY <2>2, <2>5 DEF AnswerLost, Settle
  <2>. QED  BY <1>7, <2>3, <2>4, <2>5 DEF Send
<1>8. ASSUME Crash PROVE RepeatsInv'
  BY <1>8 DEF Crash
<1>9. ASSUME UpdateSettings \/ Outage \/ Recovery \/ UNCHANGED vars PROVE RepeatsInv'
  BY <1>9 DEF UpdateSettings, Outage, Recovery, vars
<1>. QED
  BY <1>1, <1>2, <1>3, <1>4, <1>5, <1>6, <1>7, <1>8, <1>9 DEF Next, Flush

\* The receiver gets nothing of a transaction that rolled back (queue_change_event
\* and queue_audit_logs add the row to the session of the event).
THEOREM CommittedFirst == Spec => []OnlyCommitted
<1>1. Init => OutboxInv
  BY DEF Init, OutboxInv
<1>2. OutboxInv => OnlyCommitted
  BY DEF OutboxInv, OnlyCommitted
<1>. QED  BY <1>1, <1>2, OutboxStep, TypeCorrect, PTL DEF Spec

\* However often sends, answers, flushes and commits fail, an event is repeated at
\* most once per success that was not committed (flush_siem_deliveries).
THEOREM RepeatsBounded == Spec => []RepeatsExplained
<1>1. Init => OutboxInv /\ RepeatsInv
  BY DEF Init, OutboxInv, RepeatsInv
<1>2. RepeatsInv => RepeatsExplained
  BY DEF RepeatsInv, RepeatsExplained
<1>. QED  BY <1>1, <1>2, OutboxStep, RepeatsStep, TypeCorrect, PTL DEF Spec

--------------------------------------------------------------------------------
\* A row becomes sent only by a send that succeeded, as far as the sender can tell.
LEMMA ArrivedStep ==
  ASSUME TypeOK, OutboxInv, ArrivedInv, [Next]_vars
  PROVE  ArrivedInv'
<1>. USE DEF TypeOK, Status, ArrivedInv, flushVars, historyVars
<1>1. ASSUME NEW e \in Events, Queue(e) \/ CommitEvent(e) \/ RollbackEvent(e) \/ BackoffElapses(e)
      PROVE  ArrivedInv'
  BY <1>1 DEF Queue, CommitEvent, RollbackEvent, BackoffElapses
<1>2. ASSUME NEW e \in Events, Purge(e) PROVE ArrivedInv'
  BY <1>2 DEF Purge, Purgeable
<1>3. ASSUME BeginFlush PROVE ArrivedInv'
  BY <1>3 DEF BeginFlush
<1>4. ASSUME EndFlush PROVE ArrivedInv'
  BY <1>4 DEF EndFlush, Committed
<1>5. ASSUME NEW e \in Events, Send(e) PROVE ArrivedInv'
  <2>1. CASE SendAccepted(e)
    BY <2>1 DEF SendAccepted, Settle
  <2>2. CASE SendFails(e)
    BY <2>2 DEF SendFails, Settle
  <2>3. CASE SendUnnoticed(e)
    BY <2>3 DEF SendUnnoticed, Settle
  <2>4. CASE AnswerLost(e)
    BY <2>4 DEF AnswerLost, Settle
  <2>. QED  BY <1>5, <2>1, <2>2, <2>3, <2>4 DEF Send
<1>6. ASSUME Crash PROVE ArrivedInv'
  BY <1>6 DEF Crash
<1>7. ASSUME UpdateSettings \/ Outage \/ Recovery \/ UNCHANGED vars PROVE ArrivedInv'
  BY <1>7 DEF UpdateSettings, Outage, Recovery, vars
<1>. QED  BY <1>1, <1>2, <1>3, <1>4, <1>5, <1>6, <1>7 DEF Next, Flush

\* No outage, crash, lost answer, purge or change of the settings discards a
\* committed event (flush_siem_deliveries, purge_old_audit_logs): it can only be lost
\* by a syslog send that reported no error.
THEOREM NoEventDiscarded == Spec => []OnlyUnnoticedLosses
<1>1. Init => OutboxInv /\ ArrivedInv
  BY DEF Init, OutboxInv, ArrivedInv
<1>2. TypeOK /\ OutboxInv /\ ArrivedInv => OnlyUnnoticedLosses
  BY DEF TypeOK, OutboxInv, ArrivedInv, OnlyUnnoticedLosses
<1>. QED  BY <1>1, <1>2, OutboxStep, ArrivedStep, TypeCorrect, PTL DEF Spec

\* Where HTTP is the only transport in use that is all README.md promises: nothing
\* that has left the outbox without arriving.
THEOREM HttpLosesNothing ==
  ASSUME Transports = {"http"}
  PROVE  Spec => []NothingDiscarded
<1>. DEFINE Heard == unnoticed = {} /\ \A e \in Events : result[e] # "unheard"
<1>1. Init => Heard
  BY DEF Init
<1>2. TypeOK /\ Heard /\ [Next]_vars => Heard'
  <2>. SUFFICES ASSUME TypeOK, Heard, [Next]_vars PROVE Heard'
    OBVIOUS
  <2>1. using = "http"
    BY DEF TypeOK
  <2>2. ASSUME BeginFlush \/ EndFlush \/ Crash PROVE Heard'
    BY <2>2 DEF BeginFlush, EndFlush, Crash, historyVars
  <2>3. ASSUME NEW e \in Events, Send(e) PROVE Heard'
    BY <2>1, <2>3 DEF Send, SendAccepted, SendFails, SendUnnoticed, AnswerLost, Settle, TypeOK
  <2>4. ASSUME NEW e \in Events,
               Queue(e) \/ CommitEvent(e) \/ RollbackEvent(e) \/ BackoffElapses(e) \/ Purge(e)
        PROVE  Heard'
    BY <2>4 DEF Queue, CommitEvent, RollbackEvent, BackoffElapses, Purge, flushVars, historyVars
  <2>5. ASSUME UpdateSettings \/ Outage \/ Recovery \/ UNCHANGED vars PROVE Heard'
    BY <2>5 DEF UpdateSettings, Outage, Recovery, vars, flushVars, historyVars
  <2>. QED  BY <2>2, <2>3, <2>4, <2>5 DEF Next, Flush
<1>3. Heard /\ OnlyUnnoticedLosses => NothingDiscarded
  BY DEF OnlyUnnoticedLosses, NothingDiscarded
<1>. QED  BY <1>1, <1>2, <1>3, TypeCorrect, NoEventDiscarded, PTL DEF Spec
--------------------------------------------------------------------------------
(* The outbox implements AtLeastOnce.                                        *)

\* A step of the application: only a commit adds to the outbox, and nothing but a
\* flush that dies touches the rest (queue_change_event, get_db, purge).
LEMMA RecordingMaps ==
  ASSUME TypeOK, OutboxInv,
         \/ \E e \in Events : \/ Queue(e) \/ CommitEvent(e) \/ RollbackEvent(e)
                              \/ BackoffElapses(e) \/ Purge(e)
         \/ UpdateSettings \/ Crash \/ Outage \/ Recovery \/ BeginFlush
  PROVE  [Outbox!Next]_Outbox!vars
<1>. USE DEF TypeOK, flushVars, historyVars, Held, Outbox!vars
<1>1. ASSUME NEW e \in Events, CommitEvent(e) PROVE Outbox!Next
  <2>1. e \notin committed /\ committed' = committed \cup {e}
    BY <1>1 DEF CommitEvent, OutboxInv
  <2>2. Held' = Held \cup {e}
    BY <1>1 DEF CommitEvent
  <2>3. UNCHANGED <<received, repeats, unnoticed>>
    BY <1>1 DEF CommitEvent
  <2>4. Outbox!Record(e)
    BY <2>1, <2>2, <2>3 DEF Outbox!Record
  <2>. QED
    BY <2>4 DEF Outbox!Next
<1>2. ASSUME Crash PROVE Outbox!Next
  <2>1. Held' = Held
    BY <1>2 DEF Crash
  <2>2. repeats' = repeats + 1 /\ UNCHANGED <<received, committed, unnoticed>>
    BY <1>2 DEF Crash
  <2>. QED
    BY <2>1, <2>2 DEF Outbox!Next, Outbox!Interrupt
<1>3. ASSUME NEW e \in Events, Queue(e) \/ RollbackEvent(e) \/ BackoffElapses(e) \/ Purge(e)
      PROVE  UNCHANGED Outbox!vars
  <2>1. Held' = Held
    BY <1>3 DEF Queue, RollbackEvent, BackoffElapses, Purge, Purgeable
  <2>2. UNCHANGED historyVars
    BY <1>3 DEF Queue, RollbackEvent, BackoffElapses, Purge
  <2>. QED
    BY <2>1, <2>2
<1>4. ASSUME UpdateSettings \/ Outage \/ Recovery \/ BeginFlush PROVE UNCHANGED Outbox!vars
  <2>1. UNCHANGED <<row, historyVars>>
    BY <1>4 DEF UpdateSettings, Outage, Recovery, BeginFlush
  <2>. QED
    BY <2>1
<1>. QED
  BY <1>1, <1>2, <1>3, <1>4

\* A send that the receiver took is a delivery, and the repetition it may be is paid
\* for; one that failed changes nothing that the promise speaks of.
LEMMA SendMaps ==
  ASSUME TypeOK, OutboxInv, RepeatsInv, NEW e \in Events, Send(e)
  PROVE  [Outbox!Next]_Outbox!vars
<1>. USE DEF TypeOK, Held, Outbox!vars
<1>1. e \in batch /\ UNCHANGED <<row, committed, unnoticed>>
  BY DEF Send, SendAccepted, SendFails, SendUnnoticed, AnswerLost, Settle, First
<1>2. e \in Held /\ received[e] <= repeats /\ Held' = Held
  BY <1>1 DEF OutboxInv, RepeatsInv
<1>3. CASE SendFails(e) \/ SendUnnoticed(e)
  BY <1>1, <1>2, <1>3 DEF SendFails, SendUnnoticed
<1>4. CASE SendAccepted(e) \/ AnswerLost(e)
  <2>1. received' = [received EXCEPT ![e] = @ + 1] /\ repeats' \in {repeats, repeats + 1}
    BY <1>4 DEF SendAccepted, AnswerLost
  <2>2. Outbox!Deliver(e)
    BY <2>1, <1>1, <1>2 DEF Outbox!Deliver
  <2>. QED
    BY <2>2 DEF Outbox!Next
<1>. QED
  BY <1>3, <1>4 DEF Send

\* The commit of a flush lets go of the rows that were received, and of those that a
\* syslog send took without an answer.
LEMMA FlushMaps ==
  ASSUME TypeOK, OutboxInv, ArrivedInv, EndFlush
  PROVE  [Outbox!Next]_Outbox!vars
<1>. DEFINE gone == {e \in Events : result[e] \in {"sent", "unheard"}}
            unheard == {e \in Events : result[e] = "unheard"}
<1>1. \A e \in Events : result[e] \in {"none", "sent", "unheard", "failed"}
  BY DEF TypeOK
<1>2. gone \subseteq Held
  BY DEF OutboxInv, Held
<1>3. Held' = Held \ gone
  <2>1. \A e \in Events : row'[e] = Committed(e)
    BY DEF EndFlush
  <2>2. \A e \in Events : Committed(e) \in {"pending", "failed"} <=> e \in Held /\ e \notin gone
    BY <1>1 DEF Committed, Held, OutboxInv
  <2>. QED
    BY <2>1, <2>2 DEF Held
<1>4. UNCHANGED <<committed, received, repeats>> /\ unnoticed' = unnoticed \cup unheard
  BY DEF EndFlush
<1>5. unheard \in SUBSET gone /\ \A e \in gone : received[e] > 0 \/ e \in unnoticed'
  BY <1>4 DEF ArrivedInv
<1>. HIDE DEF gone, unheard
<1>6. CASE gone = {}
  BY <1>3, <1>4, <1>5, <1>6 DEF Outbox!vars
<1>7. CASE gone # {}
  <2>1. Outbox!LetGo(gone)
    BY <1>3, <1>4, <1>5, <1>7 DEF Outbox!LetGo
  <2>. QED
    BY <2>1, <1>2 DEF Outbox!Next
<1>. QED
  BY <1>6, <1>7

\* The outbox with its flush job, its transactions and its failures delivers every
\* committed event at least once, and again only when a success was not recorded
\* (services/siem.py).
THEOREM AtLeastOnceDelivery == Spec => DeliversAtLeastOnce
<1>. DEFINE Inv == TypeOK /\ OutboxInv /\ ArrivedInv /\ RepeatsInv
<1>1. Init => OutboxInv /\ ArrivedInv /\ RepeatsInv
  BY DEF Init, OutboxInv, ArrivedInv, RepeatsInv
<1>2. Init => Outbox!Init
  BY DEF Init, Outbox!Init, Held
<1>3. Inv /\ [Next]_vars => [Outbox!Next]_Outbox!vars
  <2>1. ASSUME UNCHANGED vars PROVE UNCHANGED Outbox!vars
    BY <2>1 DEF vars, historyVars, Outbox!vars, Held
  <2>. QED
    BY <2>1, RecordingMaps, SendMaps, FlushMaps DEF Next, Flush
<1>4. Inv /\ [Next]_vars => (OutboxInv /\ ArrivedInv /\ RepeatsInv)'
  BY OutboxStep, ArrivedStep, RepeatsStep
<1>. QED
  BY <1>1, <1>2, <1>3, <1>4, TypeCorrect, PTL DEF Spec, DeliversAtLeastOnce, Outbox!Spec
================================================================================
