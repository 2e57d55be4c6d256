SPECIFICATION Spec
CONSTANTS
  HeaderSize = 2
  MaxLength = 1
  AnswerLengths = {0, 1}
  MaxRequests = 2
  SendSpace = 2
INVARIANTS
  TypeOK
  FramedRight
  AnswersInOrder
  NoLostWakeup
