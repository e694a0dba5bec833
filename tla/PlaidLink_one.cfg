\* One request at a time connects banks, in between syncs.
SPECIFICATION LinkSpec
CONSTANTS
  k1 = k1  k2 = k2  k3 = k3
  a1 = a1  a2 = a2  a3 = a3
  t1 = t1  t2 = t2  t3 = t3
  Items = {k1, k2, k3}
  Connected = {k1}
  Accts = {a1, a2, a3}
  Txns = {t3}
  Workers = {w1}
  Togglable = {}
  PageSize = 1
  MaxVersion = 0
  MaxFaults = 1
  ItemOf <- MC_ItemOf
  AcctOf <- MC_AcctOf
  RealOf <- Again_RealOf
INVARIANTS LinkTypeOK RealAccountOnce HistoryImported
PROPERTIES ItemsIsolated
