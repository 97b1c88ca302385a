SPECIFICATION Spec
CONSTANTS
  Sources = {wlc}
  Types = {t1}
  MaxSequence = 2
  Slots = {r1, r2}
  NoSlot = NoSlot
  NoType = NoType
  NoSource = NoSource
  BatchLimit = 2
  MaxFaults = 3
SYMMETRY SlotSymmetry
PROPERTY StaleRejected
