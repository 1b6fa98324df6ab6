SPECIFICATION Spec
CONSTANTS
  LinkedIDs <- MCLinkedIDs
  Heartbeat = Heartbeat
  Notified = Notified
  MaxFailures = 2
INVARIANTS
  TypeOK
PROPERTIES
  OnePassSuffices
  ModelsAreFollowed
CHECK_DEADLOCK FALSE
