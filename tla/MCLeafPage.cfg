\* Pages of four tuples, in the proportions that follow from PAGE_SIZE (constants.h).
SPECIFICATION Spec
CONSTANTS
  Keys = {1, 2, 3}
  Size <- MCSize
  LEAF_SPACE = 16
  SLOT_SIZE = 1
  TUPLE_MIN = 2
  MIN_LEAF_PAGE_DATA = 3
  MAX_LEAF_PAGE_DATA = 4
  LEAF_UNDERFLOW_THRESHOLD = 6
  MaxTuples = 5
INVARIANTS Accounting KeysAreWhole SearchesAgree SearchFinds MergesFit
PROPERTY ContentsKept
