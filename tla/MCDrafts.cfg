SPECIFICATION Spec
CONSTANTS
  Nobody = Nobody
  Partial = Partial
  Ids = {d1, d2, d3}
  Users = {u1}
  Outsiders = {}
  Texts = {Partial, x}
  Creators = {c1, c2}
  Editors = {e1}
  Senders = {s1, s2}
  MaxPerUser = 1
SYMMETRY Symmetry
INVARIANT TypeOK SentAsRead DraftOverrun
PROPERTY DraftLifeSpec
