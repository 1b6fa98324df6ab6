SPECIFICATION Spec
CONSTANTS
  front = front
  cart = cart
  NotJson = NotJson
  NoDoc = NoDoc
  Blocks <- MCBlocks
  Docs <- GoodDocs
  MaxPushes = 1
  MaxFailures = 0
PROPERTIES
  FileIsShown
CHECK_DEADLOCK FALSE
