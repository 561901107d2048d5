SPECIFICATION Spec
CONSTANTS
  wide = wide
  local = local
  short = short
  blank = blank
  wrong = wrong
  bob = bob
  out = out
  nobody = nobody
  a = a
  b = b
  c = c
  z = z
  x = x
  y = y
  Nobody = Nobody
  Letters = {wide, local, short, blank, wrong}
  Files = {a, b, c, z}
  Names = {x, y}
  Empty = {z}
  NameOf <- MCNameOf
  ToOf <- MCToOf
  Quoted = {x}
  TextOf <- MCTextOf
  FilesOf <- MCFilesOf
  Addresses = {bob, out, nobody}
  Inside = {bob}
  Outside = {out}
  Ids = {i1, i2, i3}
  Slots = {s1, s2}
SYMMETRY Symmetry
INVARIANT TypeOK StoredHasFiles OkIsDone HandedIsStored SentOnce
CHECK_DEADLOCK FALSE
