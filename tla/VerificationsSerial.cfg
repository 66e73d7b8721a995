SPECIFICATION Spec
CONSTANTS
  Nothing = Nothing
  Users = {u1}
  VerIds = {v1, v2}
  RiskLevels = {"low", "high", "very_high"}
  Handlers = {h1, h2}
  Env = {"fails", "byHand"}
SYMMETRY Symmetry
INVARIANTS
  ProcessedOnce
PROPERTIES
  GoodLinkReturned
  VerdictFinal
