SPECIFICATION RowsSpec
CONSTANTS
  Unset = Unset
  Legs = {l1, l2}
  Types = {t1, t2, t3}
  Edits = {e1, e2, e3}
SYMMETRY Symmetry
INVARIANTS EditsKept EditsInForce NoGhosts
