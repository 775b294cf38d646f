SPECIFICATION Spec
CONSTANTS
  None = None
  source = source
  dest = dest
  group = group
  swapped = swapped
  Assets = {source, dest}
  Bridges = {group}
  Swaps = {swapped}
  Legs <- MCLegs
  MaxEvents = 4
INVARIANTS Conserved PairsMove GasOnce
CHECK_DEADLOCK FALSE
