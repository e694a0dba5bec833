\* An item archived in the middle of a sync loses its frozen cursor.
SPECIFICATION Spec
CONSTANTS
  k1 = k1  k2 = k2
  a1 = a1  a2 = a2
  t1 = t1  t2 = t2  t3 = t3
  Items = {k1}
  Connected = {k1}
  Accts = {a1, a2}
  Txns = {t1, t2}
  Workers = {w1}
  Togglable = {a1, a2}
  PageSize = 2
  MaxVersion = 0
  MaxFaults = 0
  ItemOf <- MC_ItemOf
  AcctOf <- MC_AcctOf
PROPERTIES CursorFrozen
