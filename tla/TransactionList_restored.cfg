\* The page of transactions left between a new search and its answer, and opened again.
SPECIFICATION TLSpec
CONSTANTS
  None = None
  PerPage = 1
  StartTransactions <- TwoTransactions
  MaxTransactions = 3
  MaxSent = 3
  MaxMounts = 2
PROPERTIES RestoredFits
\* The browser is left alone once it has sent MaxSent requests.
CHECK_DEADLOCK FALSE
