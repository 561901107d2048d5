SPECIFICATION FairFilterSpec
CONSTANTS
  u1 = u1
  Nobody = Nobody
  Users = {u1}
  Emails = {m1}
  SenderOf <- MCSenderOf
  Trashers = {t1}
  Blockers = {b1}
  Unblockers = {x1}
INVARIANT TypeOK SpamExclusive BlockedIsSpam
PROPERTY RequestsEnd
