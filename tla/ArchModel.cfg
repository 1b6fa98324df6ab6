SPECIFICATION Spec
CONSTANTS
  front = front
  cart = cart
  NotJson = NotJson
  NoDoc = NoDoc
  Blocks <- MCBlocks
  Docs <- MCDocs
  MaxPushes = 1
  MaxFailures = 1
INVARIANTS
  TypeOK
  ArchitectureIsSource
  NoLostBlocks
PROPERTIES
  AnnouncedIsWhole
  FileIsBuilt
  FollowerSpec
CHECK_DEADLOCK FALSE
