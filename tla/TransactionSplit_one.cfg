\* One split request at a time, beside the synchronisation.
SPECIFICATION SplitSpec
CONSTANTS
  Workers = {w1}
  Bank = {p1, p2}
  KidIds = {k1, k2, k3, k4, k5}
  Amounts <- WholeCents
  PartLists <- Divisions
  None = None
SYMMETRY Symmetry
INVARIANTS SplitTypeOK CountedOnce NothingLost NoOrphans
PROPERTIES SumsToParent
\* Nothing is left to do once the bank has removed every transaction.
CHECK_DEADLOCK FALSE
