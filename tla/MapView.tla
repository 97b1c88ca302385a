-------------------------------- MODULE MapView --------------------------------
(***************************************************************************)
(* The Network Map page: what is selected, and the 3D scene that follows   *)
(* the selection from one animation frame to the next.  The answer of the  *)
(* map query is replaced by polls, by collectors and by other users while  *)
(* devices are selected, or the poll fails and the scene makes way for an  *)
(* error until the next one.                                               *)
(*                                                                         *)
(* The scene keeps one group of objects per floor it has shown; the ones   *)
(* that are leaving fade out over some frames, and only the objects of     *)
(* the one in front answer to the pointer.  An attachment is drawn with    *)
(* its switch or access point, but counted on a floor of its own: the      *)
(* override of its port may differ from the floor of the switch.  The      *)
(* browser is taken to have WebGL.                                         *)
(***************************************************************************)
EXTENDS Naturals, FiniteSets

CONSTANTS MaxFloor,   \* floors are 1..MaxFloor, bottom to top
          Equipment, Attachments,
          MaxDrawn,   \* attachments drawn of one switch (32 in the code)
          Nothing,    \* null
          MaxGroups   \* bound: groups of objects in the scene

ASSUME FloorsExist == MaxFloor \in Nat \ {0} /\ MaxGroups \in Nat \ {0} /\ MaxDrawn \in Nat
ASSUME NothingIsNoDevice == Nothing \notin (1..MaxFloor) \cup Equipment \cup Attachments
ASSUME DevicesAreFinite ==
  IsFiniteSet(Equipment) /\ IsFiniteSet(Attachments) /\ Equipment \cap Attachments = {}
\* A signature: a floor, the selection, and how many devices there are.
ASSUME NothingIsNoSignature ==
  \A f \in 1..MaxFloor, e \in Equipment \cup {Nothing}, a \in Attachments \cup {Nothing},
     m \in 0..Cardinality(Equipment), n \in 0..Cardinality(Attachments) :
       Nothing # <<f, e, a, m, n>>

VARIABLES placed,      \* the answer: equipment -> its floor, or Nothing
          attached,    \* the answer: attachment -> its equipment; Nothing if it is not in it
          located,     \* the answer: attachment -> its own floor, or Nothing
          managed,     \* the answer: the floors that are managed
          floor, equipment, attachment,   \* the selection, or Nothing
          scene,       \* "closed", "loading", "running" or "error"
          groups,      \* the groups in the scene
          active,      \* activeFloorId
          signature    \* detailSignature

answer == <<placed, attached, located, managed>>
mapVars == <<answer, floor, equipment, attachment, scene, groups, active, signature>>

Floors == 1..MaxFloor

Placements == [Equipment -> Floors \cup {Nothing}]
Attached == [Attachments -> Equipment \cup {Nothing}]
Locations == [Attachments -> Floors \cup {Nothing}]

(* build_map_payload: an attachment is on the floor of its equipment, or on *)
(* the one that its port is overridden to.                                  *)
IsAnswer(p, t, l) ==
  /\ p \in Placements /\ t \in Attached /\ l \in Locations
  /\ \A a \in Attachments :
       /\ t[a] = Nothing => l[a] = Nothing
       /\ t[a] # Nothing /\ l[a] = Nothing => p[t[a]] = Nothing

MapInit ==
  /\ placed \in Placements /\ attached \in Attached /\ located \in Locations
  /\ managed \in SUBSET Floors /\ IsAnswer(placed, attached, located)
  /\ floor = Nothing /\ equipment = Nothing /\ attachment = Nothing
  /\ scene = "closed" /\ groups = {} /\ active = Nothing /\ signature = Nothing

(* After an error, any answer brings the scene back, with what was selected.*)
AnswerShown ==
  /\ scene' = (IF scene = "error" THEN "loading" ELSE scene)
  /\ UNCHANGED <<floor, equipment, attachment, groups, active, signature>>

(* Another answer, with other devices on the floors.                        *)
MapArrives ==
  /\ \E p \in Placements, t \in Attached, l \in Locations :
       IsAnswer(p, t, l) /\ placed' = p /\ attached' = t /\ located' = l
  /\ AnswerShown /\ UNCHANGED managed

(* A floor is put into the managed ones, or taken out: here, which writes   *)
(* the cached answer, or by another administrator.                          *)
ToggleManaged(f) ==
  /\ managed' = (IF f \in managed THEN managed \ {f} ELSE managed \cup {f})
  /\ AnswerShown /\ UNCHANGED <<placed, attached, located>>

Select(f, e, a) == floor' = f /\ equipment' = e /\ attachment' = a
StaysInScene == UNCHANGED <<answer, scene, groups, active, signature>>

(* A floor of the directory or of the building picture.                     *)
SelectFloor(f) == Select(f, Nothing, Nothing) /\ StaysInScene
Overview == Select(Nothing, Nothing, Nothing) /\ StaysInScene

(* The list of the floor's infrastructure.                                  *)
SelectEquipment(e) ==
  /\ floor \in managed /\ placed[e] = floor
  /\ Select(floor, e, Nothing) /\ StaysInScene

(* selectAttachment, also of one that has left the answer.                  *)
SelectAttachment(a) ==
  /\ Select(IF located[a] # Nothing THEN located[a] ELSE floor, attached[a], a)
  /\ StaysInScene

(* The search results and the list of the floor.                            *)
ListedAttachment(a) == located[a] \in managed /\ SelectAttachment(a)

(* The arrows beside the floor's name keep the devices selected.            *)
StepFloor ==
  /\ floor # Nothing
  /\ floor' \in {f \in {floor - 1, floor + 1} : f \in Floors}
  /\ UNCHANGED <<equipment, attachment>> /\ StaysInScene

CloseDrawer ==
  /\ \/ equipment # Nothing
     \/ attachment # Nothing /\ attached[attachment] # Nothing
  /\ Select(floor, Nothing, Nothing) /\ StaysInScene

-----------------------------------------------------------------------------
(* The scene.                                                               *)

OpenMap ==
  /\ scene = "closed" /\ scene' = "loading"
  /\ Select(Nothing, Nothing, Nothing)
  /\ UNCHANGED <<answer, groups, active, signature>>

NoScene == groups' = {} /\ active' = Nothing /\ signature' = Nothing

(* The libraries and the floor model have loaded.                           *)
SceneStarts ==
  /\ scene = "loading" /\ scene' = "running" /\ NoScene
  /\ UNCHANGED <<answer, floor, equipment, attachment>>

(* The page is left, or has an error to show in place of the scene, whose   *)
(* cleanup stops the frames: only the page forgets what is selected.        *)
SceneEnds ==
  /\ \/ scene # "closed" /\ scene' = "closed"
     \/ scene \in {"loading", "running"} /\ scene' = "error"
  /\ NoScene
  /\ UNCHANGED <<answer, floor, equipment, attachment>>

PlacedOn(f) == {e \in Equipment : placed[e] = f}
LocatedOn(f) == {a \in Attachments : located[a] = f}
AttachedTo(e) == {a \in Attachments : attached[a] = e}

\* Mutant: devices that come and go are not noticed.
SignatureOfSelection == IF floor = Nothing THEN Nothing ELSE <<floor, equipment, attachment>>

(* The selection and the number of devices: what the scene is built for.    *)
Signature ==
  IF floor = Nothing THEN Nothing
  ELSE <<floor, equipment, attachment,
         Cardinality(PlacedOn(floor)), Cardinality(LocatedOn(floor))>>

(* slice(0, 32).                                                            *)
FirstOf(S) ==
  IF Cardinality(S) <= MaxDrawn THEN S
  ELSE CHOOSE T \in SUBSET S : Cardinality(T) = MaxDrawn

(* The equipment of a managed floor, each with attachments of its own.      *)
DrawnOn(f) ==
  IF f \in managed THEN PlacedOn(f) \cup UNION {FirstOf(AttachedTo(e)) : e \in PlacedOn(f)}
  ELSE {}

(* Of a floor without overridden ports or full switches, the attachments    *)
(* that are drawn are those that are counted.                               *)
Even(f) ==
  /\ f \in managed
  /\ LocatedOn(f) = UNION {AttachedTo(e) : e \in PlacedOn(f)}
  /\ \A e \in PlacedOn(f) : Cardinality(AttachedTo(e)) <= MaxDrawn

(* Groups that leave: no object of theirs answers to the pointer.           *)
Fading == {[g EXCEPT !.leaving = TRUE, !.shows = {}, !.even = FALSE] : g \in groups}

(* even: only for what is claimed of a group.                               *)
Built == [floor |-> floor, shows |-> DrawnOn(floor), leaving |-> FALSE, even |-> Even(floor)]

\* Mutant: the group that was in front is not marked.
BuildDetailBeside == groups \cup {Built}

(* buildDetail: a group for the floor as it is now; the others leave.       *)
BuildDetail == Fading \cup {Built}

(* One frame: a changed selection builds or dismisses, groups that have     *)
(* faded are disposed.                                                      *)
Animate ==
  /\ scene = "running"
  /\ \E faded \in SUBSET Fading :
       /\ groups' = (IF floor # Nothing /\ (active # floor \/ signature # Signature)
                       THEN BuildDetail
                     ELSE IF floor = Nothing /\ active # Nothing THEN Fading ELSE groups)
                    \ faded
       /\ Cardinality(groups') <= MaxGroups
  /\ active' = floor /\ signature' = Signature
  /\ UNCHANGED <<answer, floor, equipment, attachment, scene>>

InFront == UNION {g.shows : g \in {h \in groups : ~h.leaving}}

(* A click on a device of the group in front.  It may have left the answer. *)
ClickDevice(d) ==
  /\ scene = "running" /\ d \in InFront
  /\ IF d \in Equipment THEN Select(floor, d, Nothing) /\ StaysInScene ELSE SelectAttachment(d)

MapNext ==
  \/ MapArrives
  \/ \E f \in Floors : ToggleManaged(f)
  \/ scene \in {"loading", "running"} /\
       \/ \E f \in Floors : SelectFloor(f)
       \/ \E e \in Equipment : SelectEquipment(e)
       \/ \E a \in Attachments : ListedAttachment(a)
       \/ Overview \/ StepFloor \/ CloseDrawer
  \/ OpenMap \/ SceneStarts \/ SceneEnds \/ Animate
  \/ \E d \in Equipment \cup Attachments : ClickDevice(d)

MapSpec == MapInit /\ [][MapNext]_mapVars

-----------------------------------------------------------------------------
(* Safety: at most one group is in front, and it is the floor the last      *)
(* frame was drawn for: devices of a floor that is fading out are not hit.  *)
OneFloorInFront ==
  \A g, h \in groups : ~g.leaving /\ ~h.leaving => g = h /\ g.floor = active

(* Safety: a frame drawn for the present selection and counts shows the     *)
(* selected floor, and as many devices as the answer has there, if the      *)
(* floor was even when the group was built and is even now: no step of      *)
(* another kind leaves an older group in front, also after an error.  It is *)
(* a claim about numbers because the signature is: devices replaced by as   *)
(* many others, or moved on their floor, leave the older ones drawn.  And   *)
(* it is not made of other floors: putting a floor into the managed ones or *)
(* taking it out changes what should be drawn but not the signature, and an *)
(* override is counted where it points and drawn where its switch is.       *)
SceneFollows ==
  scene = "running" /\ signature = Signature =>
    IF floor = Nothing THEN \A g \in groups : g.leaving
    ELSE \E g \in groups :
           /\ ~g.leaving /\ g.floor = floor
           /\ g.even /\ Even(floor) => Cardinality(g.shows) = Cardinality(DrawnOn(floor))

=============================================================================
