\* One failed write of page 0 is enough to hand a page out twice.
SPECIFICATION Spec
CONSTANTS
  MaxPages = 4
  MaxFaults = 1
PROPERTY PageIDsUnique
