\* Tuples of several sizes, the largest of which never stay in their leaf whole.
SPECIFICATION Spec
CONSTANTS
  Keys = {1, 2, 3, 4, 5}
  Sizes = {2, 3, 4}
  PageIDs = {1, 2, 3, 4, 5, 6, 7, 8, 9, 10}
  LEAF_SPACE = 7
  SLOT_SIZE = 1
  MIN_LEAF_PAGE_DATA = 2
  MAX_LEAF_PAGE_DATA = 3
  LEAF_UNDERFLOW_THRESHOLD = 2
  NUM_KEY_SLOTS = 2
  INTERNAL_UNDERFLOW_THRESHOLD = 0
  WORD = 16
  Residues = {0}
VIEW View
INVARIANT TuplesFit
PROPERTY ImplementsDictionary
