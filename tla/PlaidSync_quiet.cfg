\* Accounts archived and unarchived between syncs, and the book that results.
SPECIFICATION QuietSpec
CONSTANTS
  k1 = k1  k2 = k2
  a1 = a1  a2 = a2
  t1 = t1  t2 = t2  t3 = t3
  Items = {k1, k2}
  Connected = {k1, k2}
  Accts = {a1, a2}
  Txns = {t1, t2}
  Workers = {w1}
  Togglable = {a1, a2}
  PageSize = 2
  MaxVersion = 1
  MaxFaults = 1
  ItemOf <- MC_ItemOf
  AcctOf <- MC_AcctOf
PROPERTIES CursorFrozen CatchesUp
