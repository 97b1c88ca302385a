SPECIFICATION Spec
CONSTANTS
  Sources = {wlc}
  Types = {t1, t2}
  MaxSequence = 2
  Slots = {r1, r2}
  NoSlot = NoSlot
  NoType = NoType
  NoSource = NoSource
  BatchLimit = 2
  MaxFaults = 2
SYMMETRY SlotSymmetry
INVARIANTS NothingLost OneCurrentRun DeadOnlyWhenRefused
PROPERTY NeverReinstalled
