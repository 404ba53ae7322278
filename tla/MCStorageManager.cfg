\* Two meta pages and three to hand out; three system calls may fail, so that even
\* a format of which nothing reaches the file happens.
SPECIFICATION Spec
CONSTANTS
  MaxPages = 5
  MaxFaults = 3
PROPERTIES FreshPages DatabaseKept
