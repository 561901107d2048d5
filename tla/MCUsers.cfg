SPECIFICATION Spec
CONSTANTS
  Nobody = Nobody
  Ids = {i1, i2}
  Addresses = {a1, a2}
  Values = {v1, v2}
  Browsers = {b1, b2}
  Requests = {r1, r2}
  MaxRequests = 4
SYMMETRY Symmetry
INVARIANT TypeOK AsTold SessionProven
PROPERTY PasswordFromOld
CHECK_DEADLOCK FALSE
