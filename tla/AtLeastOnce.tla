------------------------------ MODULE AtLeastOnce ------------------------------
(***************************************************************************)
(* What an outbox promises: an event that was recorded is held until it    *)
(* has been received, and is received again only when a sender was         *)
(* interrupted or did not hear the answer.  A transport without answers    *)
(* may lose an event that it let go of.                                    *)
(***************************************************************************)
EXTENDS Naturals

CONSTANT Events

VARIABLES
  held,      \* the events the outbox still has to deliver
  recorded,  \* the events the application has committed
  received,  \* per event: how often the receiver got it
  repeats,   \* successes of which the sender may not know
  lost       \* events let go of although no success was heard

vars == <<held, recorded, received, repeats, lost>>

Init ==
  /\ held = {} /\ recorded = {} /\ lost = {}
  /\ received = [e \in Events |-> 0]
  /\ repeats = 0

\* The application commits an event, and with it the duty to deliver it.
Record(e) ==
  /\ e \notin recorded
  /\ recorded' = recorded \cup {e} /\ held' = held \cup {e}
  /\ UNCHANGED <<received, repeats, lost>>

\* The receiver gets an event, once more than successes went unheard at most; this
\* success may go unheard too.
Deliver(e) ==
  /\ e \in held /\ received[e] <= repeats
  /\ received' = [received EXCEPT ![e] = @ + 1]
  /\ repeats' \in {repeats, repeats + 1}
  /\ UNCHANGED <<held, recorded, lost>>

\* The sender dies before it has recorded what it sent.
Interrupt ==
  /\ repeats' = repeats + 1
  /\ UNCHANGED <<held, recorded, received, lost>>

\* The sender lets go of what was received, and of what it could not hear about.
LetGo(gone) ==
  /\ gone # {} /\ held' = held \ gone
  /\ lost' \in {lost \cup unheard : unheard \in SUBSET gone}
  /\ \A e \in gone : received[e] > 0 \/ e \in lost'
  /\ UNCHANGED <<recorded, received, repeats>>

Next ==
  \/ \E e \in Events : Record(e) \/ Deliver(e)
  \/ Interrupt
  \/ \E gone \in SUBSET held : LetGo(gone)

Spec == Init /\ [][Next]_vars
================================================================================
