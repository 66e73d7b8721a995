SPECIFICATION FairSpec
CONSTANTS
  Members = {m1}
  Permission <- MCPermission
  Requested <- MCRequested
  Tokens <- MCTokens
  Handlers = {h1, h2}
  Env = {"overlap", "fails"}
INVARIANTS
  IInv
  CacheTrue
  BlockedBoth
PROPERTIES
  OnlyOwnersPromote
  AdminsSpared
  CacheHeals
