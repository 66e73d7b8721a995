SPECIFICATION Spec
CONSTANTS
  Nothing = Nothing
  Founders = {f1}
  Invited = {i1}
  MiddeskStatus = {"open", "in_audit", "approved"}
  Handlers = {h1, h2, h3}
  Env = {"overlap", "fails"}
SYMMETRY Symmetry
INVARIANTS
  IInv
  WrittenInOrder
  OrgStatusEarned
  OrgFollowsRow
