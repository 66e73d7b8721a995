SPECIFICATION Spec
CONSTANTS
  NoEscrow = NoEscrow
  Orders = {o1}
  p1 = p1
  Products = {p1}
  ProductOf <- MCProductOf
  Quantity <- MCQuantity
  EscrowIds = {e1, e2}
  Requests = {r1, r2}
  Tasks = {"complete"}
  InitialStock = 1
  MaxMishaps = 0
  Env = {"overlap"}
SYMMETRY Symmetry
INVARIANTS
  MilestonesReached
  EscrowKnown
  PayoutsEarned
  SettlementBacked
  PaidByBuyer
