SPECIFICATION DownSpec
CONSTANTS
  None = None
  Files = {a, b, c}
  Names = {n1, n2}
  Uploaders = {s1, s2}
  Deleters = {t1, t2}
  Readers = {r1}
SYMMETRY Symmetry
INVARIANT TypeOK DownloadIsOwn RowHasItsFile NoOrphan
CHECK_DEADLOCK FALSE
