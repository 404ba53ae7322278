------------------------------- MODULE MCBTree -------------------------------
(***************************************************************************)
(* BTree for TLC.  The code never looks at which identifier a page has, at *)
(* left_pid, or at a page that dropped out of the tree: states that differ *)
(* in these alone behave alike, and View takes them for one.  cur and the  *)
(* stack follow from the key of the request and their depth; the pins and  *)
(* changes of pages the call does not work on are counted, there are none  *)
(* unless an invariant fails.  Where one state has a step its like has the *)
(* same, and pc and the request are in the view: what holds of all states, *)
(* or of the pc along all behaviours (CallsReturn), shows in their views.  *)
(***************************************************************************)
EXTENDS BTree

\* The part of the tree below a page, without identifiers.
Below(top) ==
  LET shape[p \in PageIDs] ==
        IF pages[p] = Free THEN <<>> ELSE
        IF IsLeaf(p) THEN pages[p].tuples
        ELSE <<pages[p].keys, [n \in DOMAIN pages[p].children |-> shape[pages[p].children[n]]]>>
  IN  IF top = NoPage THEN <<>> ELSE shape[top]

View ==
  <<Below(root), request, pc, answer, Below(cur), Below(to_write_page),
    IF report.type = "split" THEN <<report.boundary_key, Below(report.new_page_id)>> ELSE report,
    [n \in DOMAIN stack |-> <<pins[stack[n]], stack[n] \in unsaved>>],
    FoldFunction(+, 0, pins), Cardinality(unsaved)>>
=============================================================================
