SPECIFICATION Spec
CONSTANTS
  Nothing = Nothing
  Buyers = {b1}
  Seller = s
  OrderIds = {o1, o2}
  ChatIds = {c1, c2}
  Numbers = {10}
  Texts = {9}
  Handlers = {h1, h2}
  MaxCount <- MCMaxCount
  Env = {"overlap", "fails"}
SYMMETRY Symmetry
INVARIANTS
  IInv
  RatingInRange
  ReviewsCounted
  OneChatPerBuyer
