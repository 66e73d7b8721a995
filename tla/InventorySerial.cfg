SPECIFICATION Spec
CONSTANTS
  Nothing = Nothing
  p1 = p1
  Products = {p1}
  Offers = {f1, f2}
  ProductOf <- MCProductOf
  OrderIds = {o1, o2, o3}
  Requests = {r1, r2}
  Quantities = {1, 2}
  OfferQuantities = {0, 1, 2}
  StockValues <- MCStockValues
  InitialStock = 2
  Env = {}
INVARIANTS
  IInv
  StockAccounted
  NoDeleteWithOrders
PROPERTIES
  NoOversell
  OffersHonest
CHECK_DEADLOCK FALSE
