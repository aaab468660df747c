SPECIFICATION ScriptsSpec
CONSTANTS
  NumPatches = 3
  NumBuilds = 4
  Checks = {e1, e2}
  Changers = {c1, c2}
  Set = {1, 4}
  MaxRuns = 3
  Roots = {r1, r2}
  Times = {3}
  Base = 3
  Counts = {1, 4}
  MaxLines = 2
  MaxSessions = 2
  TOTAL_IF = 2
  MaxNotes = 3
  Commits = 4
  NUM_TRIES = 3
INVARIANTS ScriptsInv ApartIsExact ComparesEach StatusFiles ConfFiles
PROPERTY ScriptsEnd
CHECK_DEADLOCK FALSE
