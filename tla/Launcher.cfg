CONSTANTS
  Threads = {t1, t2, t3}
  Images <- MCImages
  Folders <- MCFolders
SPECIFICATION Spec
INVARIANTS TypeOK PreloadExact ModsInitialised
PROPERTIES CallsReturn
\* Where kernel32 is the last import the game ends in preload, and where a mod
\* throws it ends there.
CHECK_DEADLOCK FALSE
