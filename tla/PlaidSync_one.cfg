\* One sync at a time; failed calls, exceptions and crashes; an account archived at any moment.
SPECIFICATION Spec
CONSTANTS
  k1 = k1  k2 = k2
  a1 = a1  a2 = a2
  t1 = t1  t2 = t2  t3 = t3
  Items = {k1}
  Connected = {k1}
  Accts = {a1, a2}
  Txns = {t1, t2}
  Workers = {w1}
  Togglable = {a1}
  PageSize = 2
  MaxVersion = 1
  MaxFaults = 1
  ItemOf <- MC_ItemOf
  AcctOf <- MC_AcctOf
INVARIANTS TypeOK NoGap OneRow Mirror
PROPERTIES CrashSurfaces KeepsBook
