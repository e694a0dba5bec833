\* Each page that changes one thing of the server's, with answers in any order.
SPECIFICATION ScreenSpec
CONSTANTS
  NoMerchant = NoMerchant
  MaxPageSent = 6
  MaxUnderWay = 3
  a = a
  b = b
  c = c
  StartForests <- ThreeDeepOrTwo
  Tags = {a, b, c}
  Things = {}
  None = None
  Closed = Closed
  Ranges = {1, 2}
  MaxAsked = 3
  BankAccounts = {x, y}
  NoAccount = NoAccount
  MaxActs = 2
  TxTags = {g}
  NotOpen = NotOpen
  Amount = 1
  TypedAmounts = {1}
  MaxRemainder = 1
  MaxRows = 3
  MaxTxSent = 3
  Streams = {s1, s2}
  NoStream = NoStream
  Joinable = {t1}
  Workers = {post, sync}
  Decisions = {d1, d2}
  StartRows <- OneSuggested
  Post = post
  MaxStreamActs = 4
  s1 = s1
SYMMETRY Alike
INVARIANTS ScreenTypeOK ScreensSettled MerchantEditsKept DrawnSound StreamsSound
PROPERTIES ChangesAsProved SplitsAccepted NeverSuggestedAgain
\* A page is left alone once it has sent its last request and been answered.
CHECK_DEADLOCK FALSE
