CONSTANTS
  None = None
  d1 = d1
  d2 = d2
  Indexes = {0, 1, 2, 3}
  MaxListed = 2
  Managers <- MCManagers
  Directories <- MCDirectories
  Unknown <- MCUnknown
  NotFound <- MCNotFound
  Slash <- MCSlash
SPECIFICATION Spec
INVARIANTS TypeOK LookupsAgree EndsExplained AnswersParse
\* The request ends with its answer, or the game with a fault.
CHECK_DEADLOCK FALSE
