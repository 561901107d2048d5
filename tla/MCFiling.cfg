SPECIFICATION FilingSpec
CONSTANTS
  Nobody = Nobody
  Users = {u1}
  Emails = {m1}
  SenderOf <- MCInternal
  Trashers = {t1}
  Blockers = {}
  Unblockers = {}
  Folders = {f1, f2, f3}
  Names = {n1, n2, n3}
  Creators = {c1, c2}
  MaxCustomFolders = 1
  Filers = {s1, s2}
  MaxBatch = 2
CONSTRAINT FoldersFirst
SYMMETRY Symmetry
INVARIANT FilingTypeOK FiledIsReceived InboxOrFolder FolderOverrun
