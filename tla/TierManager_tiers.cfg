\* Three request pages and a layer block compete for two slots; the last
\* page admitted is hot, a mark protects for one tick, a group may become
\* excluded, image pages go first, and a payload may be too large.
SPECIFICATION Spec
CONSTANTS
  PageKeys <- MCThree
  ViewKeys <- MCView
  Slots = {s1, s2}
  Group <- MCGroup
  MmOrigin <- MCMm
  Capacity = 0
  MaxTracked = 3
  Slack = 0
  HotRing = 1
  ActiveTtl = 1
  VisionFirst = TRUE
  Payloads <- MCFull
  Oversize <- MCMayRaise
  CopyRaises <- MCView
  NoSlot = NoSlot
  MaxTicks = 1
  MaxAdmits = 3
INVARIANTS
  TypeOK
  SlotsOwnedOnce
  BytesArePages
  SlotIffDemoted
  EveryPageReclaimable
PROPERTIES
  CapHolds
  ProtectedStays
  VisionDrainsFirst
SYMMETRY MCSymmetry
CHECK_DEADLOCK FALSE
