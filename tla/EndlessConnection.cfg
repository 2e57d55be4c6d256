SPECIFICATION Endless
CONSTANTS
  HeaderSize = 2
  MaxLength = 1
  AnswerLengths = {0, 1}
  MaxRequests = 2
  SendSpace = 2
PROPERTIES
  RequestsAnswered
  StopEndsThread
  CloseEndsThread
