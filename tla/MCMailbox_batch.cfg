SPECIFICATION Spec
CONSTANTS
  u1 = u1
  m1 = m1
  Nobody = Nobody
  Users = {u1}
  Emails = {m1, m2}
  SenderOf <- MCMixedSenders
  Trashers = {t1, t2}
  Blockers = {}
  Unblockers = {}
SYMMETRY Symmetry
INVARIANT SelfMailInStep
PROPERTY LifeSpec
