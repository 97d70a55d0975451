SPECIFICATION FairSpec
CONSTANTS
  a = a
  b = b
  c = c
  home = home
  away = away
  m = m
  n = n
  Missing = Missing
  Files = {a, b, c}
  Directories = {home, away}
  Names = {m, n}
  Cwd = home
  Entry = a
  Dir <- TheDirectories
  Lookup <- TheLookup
  MaxImports = 2
  MaxCompiles = 2
INVARIANT TypeOK
INVARIANT ImportsAreShared
PROPERTY LoadingEnds
CHECK_DEADLOCK FALSE
