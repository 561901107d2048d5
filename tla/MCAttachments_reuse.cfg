SPECIFICATION DownSpec
CONSTANTS
  None = None
  Files = {a, b}
  Names = {n1}
  Uploaders = {s1, s2}
  Deleters = {t1}
  Readers = {}
INVARIANT KeptConsistent
CHECK_DEADLOCK FALSE
