SPECIFICATION FairSpec
CONSTANTS
  c1 = c1
  o1 = o1
  Commands = {c1}
  Orders = {o1}
  OrderOf <- OneCommand
  NoCommand = NoCommand
  NoSession = NoSession
  NoEvent = NoEvent
  NoAnswer = NoAnswer
  MaxCrashes = 2
INVARIANTS
  MotorOnce
  CommitIsWhole
PROPERTIES
  KeepsContract
  JournaledIsReported
CHECK_DEADLOCK FALSE
