SPECIFICATION FairSpec
CONSTANTS
  Sources = {wlc}
  Types = {t1}
  MaxSequence = 2
  Slots = {r1}
  NoSlot = NoSlot
  NoType = NoType
  NoSource = NoSource
  BatchLimit = 2
  MaxFaults = 2
INVARIANT TypeOK
PROPERTIES ShowsLatest EventuallySettled
