----------------------------- MODULE MapView_proofs -----------------------------
(***************************************************************************)
(* What the 3D scene keeps to while the selection and the map's answer     *)
(* change between its frames, for any floors and devices.                  *)
(***************************************************************************)
EXTENDS MapView, FiniteSetTheorems, FunctionTheorems, TLAPS

Device == Equipment \cup Attachments
Group == [floor: Floors, shows: SUBSET Device, leaving: BOOLEAN, even: BOOLEAN]

SelectionOK ==
  /\ IsAnswer(placed, attached, located) /\ managed \subseteq Floors
  /\ floor \in Floors \cup {Nothing}
  /\ equipment \in Equipment \cup {Nothing} /\ attachment \in Attachments \cup {Nothing}

\* The signature of a floor with m pieces of equipment and n attachments.
SignatureOf(f, e, a, m, n) ==
  /\ e \in Equipment \cup {Nothing} /\ a \in Attachments \cup {Nothing}
  /\ m \in 0..Cardinality(Equipment) /\ n \in 0..Cardinality(Attachments)
  /\ signature = <<f, e, a, m, n>>

\* A group in front, with m + n devices if the floor was even.
FrontHas(f, m, n) ==
  \E g \in groups :
    ~g.leaving /\ g.floor = f /\ (g.even => Cardinality(g.shows) = m + n)

\* What the last frame left: nothing in front, or the floor it was drawn for.
FrameInv ==
  \/ active = Nothing /\ signature = Nothing /\ \A g \in groups : g.leaving
  \/ /\ active \in Floors
     /\ \E e, a, m, n : SignatureOf(active, e, a, m, n) /\ FrontHas(active, m, n)

SceneInv == groups \subseteq Group /\ OneFloorInFront /\ FrameInv

MapInv == SelectionOK /\ SceneInv

-----------------------------------------------------------------------------
\* The devices drawn of an even floor are its equipment and the attachments
\* counted on it.
LEMMA FloorCounts ==
  ASSUME SelectionOK, NEW f \in Floors
  PROVE  /\ Cardinality(PlacedOn(f)) \in 0..Cardinality(Equipment)
         /\ Cardinality(LocatedOn(f)) \in 0..Cardinality(Attachments)
         /\ Even(f) =>
              Cardinality(DrawnOn(f)) = Cardinality(PlacedOn(f)) + Cardinality(LocatedOn(f))
<1>. DEFINE E == PlacedOn(f)
            A == LocatedOn(f)
<1>0. E \subseteq Equipment /\ A \subseteq Attachments
  BY DEF PlacedOn, LocatedOn
<1>. HIDE DEF E, A
<1>1. /\ IsFiniteSet(E) /\ Cardinality(E) <= Cardinality(Equipment)
      /\ IsFiniteSet(A) /\ Cardinality(A) <= Cardinality(Attachments)
  BY <1>0, DevicesAreFinite, FS_Subset
<1>2. /\ Cardinality(E) \in Nat /\ Cardinality(A) \in Nat
      /\ Cardinality(Equipment) \in Nat /\ Cardinality(Attachments) \in Nat
  BY <1>1, DevicesAreFinite, FS_CardinalityType
<1>3. E \cap A = {}
  BY <1>0, DevicesAreFinite
<1>4. ASSUME Even(f) PROVE DrawnOn(f) = E \cup A
  <2>1. \A e \in PlacedOn(f) : FirstOf(AttachedTo(e)) = AttachedTo(e)
    BY <1>4 DEF Even, FirstOf
  <2>2. A = UNION {FirstOf(AttachedTo(e)) : e \in PlacedOn(f)}
    BY <1>4, <2>1 DEF Even, A
  <2>. QED  BY <1>4, <2>2 DEF DrawnOn, Even, E
<1>5. Cardinality(E \cup A) = Cardinality(E) + Cardinality(A)
  <2>1. Cardinality(E \cup A) = Cardinality(E) + Cardinality(A) - Cardinality(E \cap A)
    BY <1>1, FS_Union
  <2>2. Cardinality(E \cap A) = 0
    BY <1>3, FS_EmptySet
  <2>. QED  BY <2>1, <2>2, <1>2
<1>. QED  BY <1>1, <1>2, <1>4, <1>5 DEF E, A

LEMMA MapStart == MapInit => MapInv
<1>. SUFFICES ASSUME MapInit PROVE MapInv
  OBVIOUS
<1>1. SelectionOK
  BY DEF MapInit, SelectionOK
<1>2. SceneInv
  BY DEF MapInit, SceneInv, OneFloorInFront, FrameInv
<1>. QED  BY <1>1, <1>2 DEF MapInv

\* Steps of the page and of the answer leave the scene alone.
LEMMA SceneAlone ==
  ASSUME SceneInv, UNCHANGED <<groups, active, signature>>
  PROVE  SceneInv'
  BY DEF SceneInv, OneFloorInFront, FrameInv, SignatureOf, FrontHas

\* Every selection is of a floor and devices, or of nothing.
LEMMA Selections ==
  ASSUME SelectionOK, NEW f \in Floors \cup {Nothing}, NEW e \in Equipment \cup {Nothing},
         NEW a \in Attachments \cup {Nothing}, Select(f, e, a), UNCHANGED answer
  PROVE  SelectionOK'
  BY DEF SelectionOK, Select, answer

LEMMA AttachmentSelected ==
  ASSUME SelectionOK, NEW a \in Attachments, SelectAttachment(a)
  PROVE  SelectionOK' /\ UNCHANGED <<groups, active, signature>>
<1>1. attached[a] \in Equipment \cup {Nothing} /\ located[a] \in Floors \cup {Nothing}
  BY DEF SelectionOK, IsAnswer, Attached, Locations
<1>2. (IF located[a] # Nothing THEN located[a] ELSE floor) \in Floors \cup {Nothing}
  BY <1>1 DEF SelectionOK
<1>. QED  BY <1>1, <1>2, Selections DEF SelectAttachment, StaysInScene

\* A finite set has subsets of every size below its own: the slice exists.
LEMMA SliceExists ==
  ASSUME NEW S, IsFiniteSet(S), MaxDrawn < Cardinality(S)
  PROVE  \E T \in SUBSET S : Cardinality(T) = MaxDrawn
<1>1. Cardinality(S) \in Nat /\ MaxDrawn \in Nat /\ ExistsBijection(1..Cardinality(S), S)
  BY FS_CardinalityType, FloorsExist
<1>. DEFINE n == Cardinality(S)
<1>2. PICK F : F \in Bijection(1..n, S)
  BY <1>1 DEF ExistsBijection
<1>3. 1..MaxDrawn \subseteq 1..n
  BY <1>1
<1>. HIDE DEF n
<1>. DEFINE T == Range(Restrict(F, 1..MaxDrawn))
<1>4. Restrict(F, 1..MaxDrawn) \in Bijection(1..MaxDrawn, T)
  BY <1>2, <1>3, Fun_BijRestrict
<1>5. Cardinality(T) = MaxDrawn
  <2>. HIDE DEF T
  <2>1. ExistsBijection(1..MaxDrawn, T)
    BY <1>4 DEF ExistsBijection
  <2>. QED  BY <1>1, <2>1, FS_CountingElements
<1>6. T \subseteq S
  BY <1>2, <1>3 DEF Restrict, Range, Bijection, Injection
<1>. QED  BY <1>5, <1>6

\* What is drawn of a floor are devices.
LEMMA DrawnAreDevices == \A f : DrawnOn(f) \subseteq Device
<1>1. ASSUME NEW e PROVE FirstOf(AttachedTo(e)) \subseteq Attachments
  <2>1. AttachedTo(e) \subseteq Attachments /\ IsFiniteSet(AttachedTo(e))
    <3>1. AttachedTo(e) \subseteq Attachments
      BY DEF AttachedTo
    <3>. QED  BY <3>1, DevicesAreFinite, FS_Subset
  <2>2. CASE Cardinality(AttachedTo(e)) <= MaxDrawn
    BY <2>1, <2>2 DEF FirstOf
  <2>3. CASE ~(Cardinality(AttachedTo(e)) <= MaxDrawn)
    <3>1. MaxDrawn < Cardinality(AttachedTo(e))
      BY <2>1, <2>3, FS_CardinalityType, FloorsExist
    <3>2. \E T \in SUBSET AttachedTo(e) : Cardinality(T) = MaxDrawn
      BY <2>1, <3>1, SliceExists
    <3>3. FirstOf(AttachedTo(e)) \in SUBSET AttachedTo(e)
      BY <2>3, <3>2 DEF FirstOf
    <3>. QED  BY <2>1, <3>3
  <2>. QED  BY <2>2, <2>3
<1>2. \A f : PlacedOn(f) \subseteq Equipment
  BY DEF PlacedOn
<1>. QED  BY <1>1, <1>2 DEF DrawnOn, Device

\* A frame: what leaves is not in front, and a new group is the floor's.
LEMMA FrameStep ==
  ASSUME MapInv, Animate
  PROVE  SceneInv'
<1>. DEFINE kept == IF floor # Nothing /\ (active # floor \/ signature # Signature)
                      THEN BuildDetail
                    ELSE IF floor = Nothing /\ active # Nothing THEN Fading ELSE groups
<1>1. PICK faded \in SUBSET Fading : groups' = kept \ faded
  BY DEF Animate
<1>2. active' = floor /\ signature' = Signature
  BY DEF Animate
<1>. HIDE DEF kept
<1>3. groups \subseteq Group /\ OneFloorInFront /\ FrameInv /\ SelectionOK
  BY DEF MapInv, SceneInv
<1>4. Fading \subseteq Group /\ \A g \in Fading : g.leaving
  BY <1>3 DEF Fading, Group
<1>5. \A g \in kept : ~g.leaving => g \in groups'
  BY <1>1, <1>4
<1>6. CASE floor # Nothing /\ (active # floor \/ signature # Signature)
  <2>1. floor \in Floors
    BY <1>3, <1>6 DEF SelectionOK
  <2>2. kept = Fading \cup {Built}
    BY <1>6 DEF kept, BuildDetail
  <2>3. /\ Built \in Group /\ ~Built.leaving /\ Built.floor = floor
        /\ Built.shows = DrawnOn(floor) /\ Built.even = Even(floor)
    <3>1. DrawnOn(floor) \subseteq Device
      BY DrawnAreDevices
    <3>2. Even(floor) \in BOOLEAN
      BY DEF Even
    <3>. QED  BY <2>1, <3>1, <3>2 DEF Group, Built
  <2>4. groups' \subseteq Group
    BY <1>1, <1>4, <2>2, <2>3
  <2>5. \A g \in groups' : ~g.leaving => g = Built
    BY <1>1, <1>4, <2>2
  <2>6. OneFloorInFront'
    BY <1>2, <2>3, <2>5 DEF OneFloorInFront
  <2>7. PICK m \in 0..Cardinality(Equipment), n \in 0..Cardinality(Attachments) :
          /\ signature' = <<floor, equipment, attachment, m, n>>
          /\ Even(floor) => Cardinality(DrawnOn(floor)) = m + n
    BY <1>2, <1>3, <1>6, <2>1, FloorCounts DEF Signature
  <2>8. PICK f, e, a : f = floor /\ e = equipment /\ a = attachment
    OBVIOUS
  <2>9. Built \in groups'
    BY <1>5, <2>2, <2>3
  <2>10. FrontHas(f, m, n)'
    BY <2>3, <2>7, <2>8, <2>9 DEF FrontHas
  <2>11. SignatureOf(f, e, a, m, n)'
    BY <1>3, <2>7, <2>8 DEF SignatureOf, SelectionOK
  <2>12. FrameInv'
    BY <1>2, <2>1, <2>8, <2>10, <2>11 DEF FrameInv
  <2>. QED  BY <2>4, <2>6, <2>12 DEF SceneInv
<1>7. CASE floor = Nothing
  <2>1. signature' = Nothing
    BY <1>2, <1>7 DEF Signature
  <2>2. kept \subseteq Group /\ \A g \in kept : g.leaving
    <3>1. CASE active # Nothing
      BY <1>4, <1>7, <3>1 DEF kept
    <3>2. CASE active = Nothing
      <4>1. Nothing \notin Floors
        BY NothingIsNoDevice DEF Floors
      <4>2. \A g \in groups : g.leaving
        BY <1>3, <3>2, <4>1 DEF FrameInv
      <4>. QED  BY <1>3, <1>7, <3>2, <4>2 DEF kept
    <3>. QED  BY <3>1, <3>2
  <2>3. groups' \subseteq Group /\ \A g \in groups' : g.leaving
    BY <1>1, <2>2
  <2>. QED  BY <1>2, <1>7, <2>1, <2>3 DEF SceneInv, OneFloorInFront, FrameInv
<1>8. CASE floor # Nothing /\ active = floor /\ signature = Signature
  <2>1. kept = groups
    BY <1>8 DEF kept
  <2>2. groups' \subseteq groups /\ active' = active /\ signature' = signature
    BY <1>1, <1>2, <1>8, <2>1
  <2>3. active \in Floors
    BY <1>3, <1>8 DEF SelectionOK
  <2>4. PICK e, a, m, n : SignatureOf(active, e, a, m, n) /\ FrontHas(active, m, n)
    BY <1>3, <1>8, <2>3 DEF FrameInv
  <2>5. FrontHas(active, m, n)'
    BY <1>5, <2>1, <2>2, <2>4 DEF FrontHas
  <2>6. SignatureOf(active, e, a, m, n)'
    BY <2>2, <2>4 DEF SignatureOf
  <2>7. FrameInv'
    BY <2>2, <2>3, <2>5, <2>6 DEF FrameInv
  <2>8. groups' \subseteq Group /\ OneFloorInFront'
    BY <1>3, <2>2 DEF OneFloorInFront
  <2>. QED  BY <2>7, <2>8 DEF SceneInv
<1>. QED  BY <1>6, <1>7, <1>8

LEMMA MapStep ==
  ASSUME MapInv, [MapNext]_mapVars
  PROVE  MapInv'
<1>0. SelectionOK /\ SceneInv
  BY DEF MapInv
<1>1. CASE UNCHANGED mapVars
  BY <1>0, <1>1, SceneAlone DEF mapVars, answer, MapInv, SelectionOK
<1>2. CASE MapArrives
  <2>1. SelectionOK'
    BY <1>0, <1>2 DEF MapArrives, AnswerShown, SelectionOK
  <2>. QED  BY <1>0, <1>2, <2>1, SceneAlone DEF MapArrives, AnswerShown, MapInv
<1>3. ASSUME NEW f \in Floors, SelectFloor(f) PROVE MapInv'
  BY <1>0, <1>3, SceneAlone, Selections DEF SelectFloor, StaysInScene, MapInv
<1>4. CASE Overview
  BY <1>0, <1>4, SceneAlone, Selections DEF Overview, StaysInScene, MapInv
<1>5. ASSUME NEW e \in Equipment, Select(floor, e, Nothing), StaysInScene PROVE MapInv'
  <2>1. floor \in Floors \cup {Nothing}
    BY <1>0 DEF SelectionOK
  <2>. QED  BY <1>0, <1>5, <2>1, SceneAlone, Selections DEF StaysInScene, MapInv
<1>6. ASSUME NEW e \in Equipment, SelectEquipment(e) PROVE MapInv'
  BY <1>5, <1>6 DEF SelectEquipment
<1>7. ASSUME NEW a \in Attachments, SelectAttachment(a) PROVE MapInv'
  BY <1>0, <1>7, AttachmentSelected, SceneAlone DEF MapInv
<1>8. CASE StepFloor
  <2>1. floor' \in Floors /\ UNCHANGED <<equipment, attachment, answer>>
    BY <1>8 DEF StepFloor, StaysInScene
  <2>2. SelectionOK'
    BY <1>0, <2>1 DEF SelectionOK, answer
  <2>. QED  BY <1>0, <1>8, <2>2, SceneAlone DEF StepFloor, StaysInScene, MapInv
<1>9. CASE CloseDrawer
  <2>1. floor \in Floors \cup {Nothing}
    BY <1>0 DEF SelectionOK
  <2>. QED  BY <1>0, <1>9, <2>1, SceneAlone, Selections DEF CloseDrawer, StaysInScene, MapInv
<1>10. CASE OpenMap
  BY <1>0, <1>10, SceneAlone, Selections DEF OpenMap, MapInv
<1>11. CASE SceneStarts \/ SceneEnds
  <2>1. /\ groups' = {} /\ active' = Nothing /\ signature' = Nothing
        /\ UNCHANGED <<answer, floor, equipment, attachment>>
    BY <1>11 DEF SceneStarts, SceneEnds, NoScene
  <2>2. SelectionOK'
    BY <1>0, <2>1 DEF SelectionOK, answer
  <2>3. SceneInv'
    BY <2>1 DEF SceneInv, OneFloorInFront, FrameInv
  <2>. QED  BY <2>2, <2>3 DEF MapInv
<1>12. CASE Animate
  <2>1. SelectionOK'
    BY <1>0, <1>12 DEF Animate, SelectionOK, answer
  <2>. QED  BY <1>12, <2>1, FrameStep DEF MapInv
<1>13. ASSUME NEW d \in Equipment \cup Attachments, ClickDevice(d) PROVE MapInv'
  <2>1. CASE d \in Equipment
    BY <1>5, <1>13, <2>1 DEF ClickDevice
  <2>2. CASE d \notin Equipment
    BY <1>7, <1>13, <2>2 DEF ClickDevice
  <2>. QED  BY <2>1, <2>2
<1>14. ASSUME NEW f \in Floors, ToggleManaged(f) PROVE MapInv'
  <2>1. SelectionOK'
    BY <1>0, <1>14 DEF ToggleManaged, AnswerShown, SelectionOK
  <2>. QED  BY <1>0, <1>14, <2>1, SceneAlone DEF ToggleManaged, AnswerShown, MapInv
<1>. QED
  BY <1>1, <1>2, <1>3, <1>4, <1>6, <1>7, <1>8, <1>9, <1>10, <1>11, <1>12, <1>13, <1>14
  DEF MapNext, ListedAttachment

-----------------------------------------------------------------------------
\* Devices of a floor that is fading out are not hit by a click (buildDetail marks
\* every older group, animate keeps the last one in front).
THEOREM OneFloor == MapSpec => []OneFloorInFront
<1>1. MapInv => OneFloorInFront
  BY DEF MapInv, SceneInv
<1>. QED  BY <1>1, MapStart, MapStep, PTL DEF MapSpec

\* Once a frame was drawn for the present selection and counts, the scene shows
\* that floor, and of a floor that was and is even as many devices as the answer
\* has (animate compares the signature, buildDetail draws by equipment).
THEOREM SceneKeepsUp == MapSpec => []SceneFollows
<1>1. MapInv => SceneFollows
  <2>. SUFFICES ASSUME MapInv, signature = Signature
                PROVE  IF floor = Nothing THEN \A g \in groups : g.leaving
                       ELSE \E g \in groups :
                              /\ ~g.leaving /\ g.floor = floor
                              /\ g.even /\ Even(floor) =>
                                   Cardinality(g.shows) = Cardinality(DrawnOn(floor))
    BY DEF SceneFollows
  <2>1. SelectionOK /\ FrameInv
    BY DEF MapInv, SceneInv
  <2>2. CASE floor = Nothing
    <3>1. signature = Nothing
      BY <2>2 DEF Signature
    <3>2. \A e, a, m, n : ~(active \in Floors /\ SignatureOf(active, e, a, m, n))
      BY <3>1, NothingIsNoSignature DEF SignatureOf, Floors
    <3>. QED  BY <2>1, <2>2, <3>2 DEF FrameInv
  <2>3. CASE floor # Nothing
    <3>1. floor \in Floors
      BY <2>1, <2>3 DEF SelectionOK
    <3>. DEFINE m == Cardinality(PlacedOn(floor))
                n == Cardinality(LocatedOn(floor))
    <3>2. /\ m \in 0..Cardinality(Equipment) /\ n \in 0..Cardinality(Attachments)
          /\ Even(floor) => Cardinality(DrawnOn(floor)) = m + n
      BY <2>1, <3>1, FloorCounts
    <3>3. signature = <<floor, equipment, attachment, m, n>>
      BY <2>3 DEF Signature
    <3>. HIDE DEF m, n
    <3>4. signature # Nothing
      BY <2>1, <3>1, <3>2, <3>3, NothingIsNoSignature DEF SelectionOK, Floors
    <3>5. PICK e1, a1, m1, n1 : SignatureOf(active, e1, a1, m1, n1) /\ FrontHas(active, m1, n1)
      BY <2>1, <3>4 DEF FrameInv
    <3>6. active = floor /\ m1 = m /\ n1 = n
      BY <3>3, <3>5 DEF SignatureOf
    <3>. QED  BY <2>3, <3>2, <3>5, <3>6 DEF FrontHas
  <2>. QED  BY <2>2, <2>3
<1>. QED  BY <1>1, MapStart, MapStep, PTL DEF MapSpec

=============================================================================
