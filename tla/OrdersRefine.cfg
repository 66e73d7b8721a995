SPECIFICATION Spec
CONSTANTS
  NoEscrow = NoEscrow
  Orders = {o1, o2}
  p1 = p1
  Products = {p1}
  ProductOf <- MCProductOf
  Quantity <- MCQuantity
  EscrowIds = {e1, e2}
  Requests = {r1}
  Tasks = {"deliver", "complete"}
  InitialStock = 1
  MaxMishaps = 1
  Env = {"lostReply", "adminDelete"}
PROPERTIES
  ImplementsSettlement
