CONSTANTS
  Letters <- TwoLetters
  MaxSize = 3
  DEFAULT_RPC_SZ = 30
  Longs <- TwoLongs
  Headers <- TwoHeaders
  Copies = 30
SPECIFICATION FileSpec
INVARIANTS PutArrives
PROPERTIES WritesText
