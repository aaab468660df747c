SPECIFICATION LookupSpec
CONSTANTS
  Dirs = {d1, d2}
  Cwd = cwd
  Empty = empty
  Long = long
  MaxPath = 3
  MaxArgs = 2
INVARIANTS LookupInv RunsFirst ResolvesFirst WhichAnswers
