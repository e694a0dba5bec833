\* Each list page of the browser, with requests answered in any order.
SPECIFICATION WebSpec
CONSTANTS
  None = None
  PerPage = 1
  StartTransactions <- TwoTransactions
  MaxTransactions = 3
  MaxSent = 3
  MaxMounts = 2
  MerchantCount = 2
  MaxMerchantsSent = 3
  SpendTags = {a, b}
  NoReport = NoReport
  MaxSpendSent = 3
  WebUsers = {u, v}
  NoUser = NoUser
  MaxWebSent = 3
INVARIANTS
  WebTypeOK ListsSettled SearchesAsked GroupAsChosen ReportsSound SessionSound
PROPERTIES PagesAppear
\* A page is left alone once it has sent its last request and been answered.
CHECK_DEADLOCK FALSE
