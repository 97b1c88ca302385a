----------------------------- MODULE FloatingPanels -----------------------------
(***************************************************************************)
(* The floating panels: the store of open panels, at most MaxPanels of     *)
(* them, and the window of each, which plays a closing animation before it *)
(* asks the store to close it.  A window lives as long as its panel is in  *)
(* the store; its content is mounted while it is not minimized, and with   *)
(* it goes whatever was typed there.                                       *)
(***************************************************************************)
EXTENDS Naturals, Sequences, SequencesExt

CONSTANTS PanelIds,    \* a type and the id of an endpoint or user
          MaxPanels

ASSUME PanelLimit == MaxPanels \in Nat \ {0}

VARIABLES panels,     \* the store: a sequence of [id, minimized]
          timers,     \* the panels whose closing timer runs
          dismissed,  \* the panels whose cross was clicked in this window, and
                      \* that were not opened since
          reopened,   \* those that were opened again while their window closes
          typed       \* the panels with something typed and not saved

panelVars == <<panels, timers, dismissed, reopened, typed>>

IdsOf(ps) == {ps[i].id : i \in DOMAIN ps}
OpenIds == IdsOf(panels)
Minimized(id) == \E i \in DOMAIN panels : panels[i].id = id /\ panels[i].minimized

PanelsInit ==
  panels = <<>> /\ timers = {} /\ dismissed = {} /\ reopened = {} /\ typed = {}

\* Mutant: the timer of a window that is gone still fires.
UnmountKeepsTimers(ps, ts) ==
  /\ panels' = ps /\ timers' = ts
  /\ dismissed' = dismissed \cap IdsOf(ps) /\ reopened' = reopened \cap IdsOf(ps)

(* Windows of panels that leave the store unmount, and clear their timers.  *)
Unmount(ps, ts) ==
  /\ panels' = ps /\ timers' = ts \cap IdsOf(ps)
  /\ dismissed' = dismissed \cap IdsOf(ps) /\ reopened' = reopened \cap IdsOf(ps)

\* Mutant: the limit is checked after the panel was added.
RoomForOneMore == IF Len(panels) > MaxPanels THEN Tail(panels) ELSE panels

(* At the limit the oldest goes.                                            *)
Room == IF Len(panels) >= MaxPanels THEN Tail(panels) ELSE panels

(* openPanel of one that is open restores it.  It stays in its window: a    *)
(* closing animation that runs there is not called off.                     *)
RestorePanel(id) ==
  /\ id \in OpenIds
  /\ panels' = [i \in DOMAIN panels |->
       [panels[i] EXCEPT !.minimized = @ /\ panels[i].id # id]]
  /\ dismissed' = dismissed \ {id} /\ reopened' = reopened \cup (dismissed \cap {id})
  /\ UNCHANGED <<timers, typed>>

OpenPanel(id) ==
  \/ RestorePanel(id)
  \/ /\ id \notin OpenIds
     /\ Unmount(Append(Room, [id |-> id, minimized |-> FALSE]), timers)
     /\ typed' = typed \cap IdsOf(panels')

(* The cross, once: the window closes when its animation has ended.         *)
Dismiss(id) ==
  /\ id \in OpenIds \ (dismissed \cup reopened)
  /\ dismissed' = dismissed \cup {id} /\ timers' = timers \cup {id}
  /\ UNCHANGED <<panels, reopened, typed>>

(* The timer fires: closePanel, whose filter drops the panel with that id,   *)
(* the only one (PanelsFit), or nothing.                                    *)
ClosePanel(id) ==
  /\ id \in timers
  /\ Unmount(RemoveFirstMatch(panels, LAMBDA p : p.id = id), timers \ {id})
  /\ typed' = typed \ {id}

ToggleMinimize(id) ==
  /\ id \in OpenIds
  /\ panels' = [i \in DOMAIN panels |->
       IF panels[i].id = id THEN [panels[i] EXCEPT !.minimized = ~@] ELSE panels[i]]
  /\ typed' = typed \ {id}
  /\ UNCHANGED <<timers, dismissed, reopened>>

(* A note, a risk override or a scope begun in the panel.                   *)
TypeInPanel(id) ==
  /\ id \in OpenIds /\ ~Minimized(id)
  /\ typed' = typed \cup {id}
  /\ UNCHANGED <<panels, timers, dismissed, reopened>>

PanelsNext ==
  \E id \in PanelIds :
    OpenPanel(id) \/ Dismiss(id) \/ ClosePanel(id) \/ ToggleMinimize(id) \/ TypeInPanel(id)

PanelsSpec == PanelsInit /\ [][PanelsNext]_panelVars

-----------------------------------------------------------------------------
(* Safety: the store never holds more panels than fit, nor one twice (two   *)
(* windows with one key), and drafts belong to contents that are mounted.   *)
PanelsFit ==
  /\ Len(panels) <= MaxPanels
  /\ IsInjective([i \in DOMAIN panels |-> panels[i].id])
  /\ timers \subseteq OpenIds /\ \A id \in typed : id \in OpenIds /\ ~Minimized(id)

(* Safety: a panel that is wanted goes away only as the oldest, when one    *)
(* more is opened at the limit: the user clicked its cross in this very     *)
(* window and did not open it again since.  One exception: a panel opened   *)
(* again while its window still plays the closing animation goes with it,   *)
(* because the timer is neither called off nor asks.  One opened again      *)
(* after it went is in a window of its own, which no older timer closes.    *)
OnlyDismissedClose ==
  [][\A id \in OpenIds \ IdsOf(panels') :
       \/ id \in dismissed
       \/ id \in reopened
       \/ Len(panels) = MaxPanels /\ id = panels[1].id]_panelVars

=============================================================================
