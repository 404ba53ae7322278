\* Chunks of two bytes: payloads end in a leaf, in an overflow page, or just where one ends.
SPECIFICATION Spec
CONSTANTS
  Leaves = {1, 2}
  Overflows = {3, 4, 5, 6, 7, 8}
  Lengths = {1, 2, 3, 5, 6}
  LeafParts = {1, 2}
  ReadSizes = {1, 3}
  CHUNK = 2
  MaxTuples = 2
INVARIANTS ReadsBack OnePinned
PROPERTY StreamsEnd
