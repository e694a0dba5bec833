\* Two splits at once leave the children of both.
SPECIFICATION SplitSpec
CONSTANTS
  Workers = {w1, w2}
  Bank = {p1}
  KidIds = {k1, k2, k3, k4}
  Amounts <- WholeCents
  PartLists <- Divisions
  None = None
SYMMETRY Symmetry
PROPERTIES SumsToParent
\* Nothing is left to do once the bank has removed every transaction.
CHECK_DEADLOCK FALSE
