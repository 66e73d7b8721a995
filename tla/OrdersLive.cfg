SPECIFICATION FairSpec
CONSTANTS
  NoEscrow = NoEscrow
  Orders = {o1}
  p1 = p1
  Products = {p1}
  ProductOf <- MCProductOf
  Quantity <- MCQuantity
  EscrowIds = {e1, e2}
  Requests = {r1}
  Tasks = {"deliver", "complete"}
  InitialStock = 1
  MaxMishaps = 1
  Env = {"overlap", "lostReply", "adminPaid"}
INVARIANT
  IInv
PROPERTIES
  ShippedMovesOn
  DeliveredSettles
  PaymentNoticed
