SPECIFICATION FairSpec
CONSTANTS
  a = a
  b = b
  p1 = p1
  p2 = p2
  p3 = p3
  big = big
  bin = bin
  r = r
  c1 = c1
  c2 = c2
  Texts <- MCTexts
  IntOf <- MCIntOf
  BoolOf <- MCBoolOf
  Unusable <- MCUnusable
  Setups <- MCSetups
  Connects <- MCConnects
  Topics <- MCTopics
  Binary <- MCBinary
  Messages <- MCMessages
  TopicOf <- MCTopicOf
  KindOf <- MCKindOf
  TooLarge <- MCTooLarge
  ReplyTo <- MCReplyTo
  Capacity = 0
INVARIANTS TypeOK ConfiguredAsGiven StraysExplained OnceInOrder
PROPERTIES TakenArrives RouterGoesOn
\* Nothing more may be published, and a connection may stay down.
CHECK_DEADLOCK FALSE
