\* usedspace starts with any value: the stack of CheckUnderflow is not initialised.
SPECIFICATION Spec
CONSTANTS
  Keys = {1, 2, 3, 4, 5, 6}
  Sizes = {1}
  PageIDs = {1, 2, 3, 4, 5, 6, 7, 8, 9, 10}
  LEAF_SPACE = 2
  SLOT_SIZE = 0
  MIN_LEAF_PAGE_DATA = 1
  MAX_LEAF_PAGE_DATA = 1
  LEAF_UNDERFLOW_THRESHOLD = 0
  NUM_KEY_SLOTS = 2
  INTERNAL_UNDERFLOW_THRESHOLD = 0
  WORD = 16
  Residues = {0, 1, 2, 3, 4, 5, 6, 7, 8, 9, 10, 11, 12, 13, 14, 15}
VIEW View
INVARIANT NoMergeOverflows
