SPECIFICATION Spec
CONSTANTS
  None = None
  A = A
  B = B
  sent = sent
  received = received
  bridged = bridged
  arrived = arrived
  Wallets = {A, B}
  Legs = {sent, received, bridged, arrived}
  Data <- MCData
  Stables = {"USDT", "USDC"}
  Window = 6
  MaxEdits = 1
INVARIANTS EditsFinal Healed MovesAreProven
CHECK_DEADLOCK FALSE
