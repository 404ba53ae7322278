\* Two frames, of which the callers may pin both or a failure may take one: sweeps
\* end without a victim.
SPECIFICATION Spec
CONSTANTS
  Frames = {f1, f2}
  PageIDs = {p1, p2, p3}
  Data = {zero, a}
  Zero = zero
  NoFrame = NoFrame
  NoPage = NoPage
  PinLimit = 2
  PinMax = 65535
  HoldLimit = 2
  MaxFaults = 1
SYMMETRY Symmetry
INVARIANT QueueSound
CHECK_DEADLOCK FALSE
