\* Internal pages of two keys, leaves of two tuples: trees of up to three levels.
SPECIFICATION Spec
CONSTANTS
  Keys = {1, 2, 3, 4, 5, 6}
  Sizes = {1}
  PageIDs = {1, 2, 3, 4, 5, 6, 7, 8, 9, 10}
  LEAF_SPACE = 2
  SLOT_SIZE = 0
  MIN_LEAF_PAGE_DATA = 1
  MAX_LEAF_PAGE_DATA = 1
  LEAF_UNDERFLOW_THRESHOLD = 0
  NUM_KEY_SLOTS = 2
  INTERNAL_UNDERFLOW_THRESHOLD = 0
  WORD = 16
  Residues = {0}
VIEW View
INVARIANTS TypeOK ChainInOrder SearchTree KeysFit InternalOccupied PinsMatchUse ModifiedArePinned
PROPERTY CallsReturn
