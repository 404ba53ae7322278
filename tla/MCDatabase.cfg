\* Two meta pages and four of trees, in any number of processes.
SPECIFICATION Spec
CONSTANT MaxPages = 6
INVARIANTS TreeFound StartsUnlessTorn RootIsKept
