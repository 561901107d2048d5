SPECIFICATION Spec
CONSTANTS
  big = big
  odd = odd
  blank = blank
  junk = junk
  bob = bob
  eve = eve
  nobody = nobody
  ann = ann
  joe = joe
  a = a
  b = b
  g = g
  z = z
  x = x
  y = y
  Nobody = Nobody
  Messages = {big, odd, blank, junk}
  Files = {a, b, g, z}
  Names = {x, y}
  Empty = {z}
  Quoted = {}
  Foreign = {pdf}
  pdf = pdf
  Broken = {}
  NameOf <- MCNameOf
  FromOf <- MCFromOf
  RcptOf <- MCRcptOf
  PartsOf <- MCPartsOf
  Senders = {ann, joe}
  Addresses = {bob, eve, nobody}
  Accounts = {bob, eve}
  Ids = {i1, i2, i3}
  Connections = {c1, c2}
SYMMETRY Symmetry
INVARIANT TypeOK EnvelopeKept DeliveredIsStored BouncedIsGone StoredOnce StoredHasFiles NoOrphan
CHECK_DEADLOCK FALSE
