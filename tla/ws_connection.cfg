SPECIFICATION ClientSpec
CONSTANTS
  maxQueuedBytes = 4
  Sizes = {1, 2, 3}
  MaxMessages = 5
  MaxFragments = 3
  kMaxNestingDepth = 2
  Word = 65536
  Urls <- MCUrls
  PortTexts <- GoodPorts
  Texts <- MCTexts
INVARIANTS
  ClosedOnce
  NoLostWakeup
  ByeBeforeClose
  UrlsRoundTrip
  ServerTextsUnderstood
PROPERTIES
  CloseEnds
CHECK_DEADLOCK FALSE
