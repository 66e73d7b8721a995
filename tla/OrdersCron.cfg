SPECIFICATION Spec
CONSTANTS
  NoEscrow = NoEscrow
  Orders = {o1}
  p1 = p1
  Products = {p1}
  ProductOf <- MCProductOf
  Quantity <- MCQuantity
  EscrowIds = {e1}
  Requests = {r1}
  Tasks = {"deliver"}
  InitialStock = 1
  MaxMishaps = 0
  Env = {"overlap"}
PROPERTY
  CronSparesDisputed
