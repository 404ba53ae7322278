\* Three frames for four pages: misses evict.  One frame may be lost to a failed
\* read or write, and two pinned by the callers: PinLimit + MaxFaults frames.
SPECIFICATION Spec
CONSTANTS
  Frames = {f1, f2, f3}
  PageIDs = {p1, p2, p3, p4}
  Data = {zero, a}
  Zero = zero
  NoFrame = NoFrame
  NoPage = NoPage
  PinLimit = 2
  PinMax = 65535
  HoldLimit = 2
  MaxFaults = 1
SYMMETRY Symmetry
INVARIANTS TypeOK PinSafety CleanMatchesDisk Reclaimable
PROPERTIES ServedWhileRoom StoreSpec
CHECK_DEADLOCK FALSE
