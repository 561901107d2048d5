------------------------- MODULE AttachmentsProofs -------------------------
(***************************************************************************)
(* Proofs about Attachments, for any files, names and request slots: the   *)
(* types, that a row of the table has its file, that the storage holds     *)
(* nothing that no row and no request stands behind, and that a download   *)
(* gives the file of its row.                                              *)
(***************************************************************************)
EXTENDS Downloads, TLAPS

(* An upload under way has a file of its own, which no other one has.       *)
OwnFile ==
  \A s \in Uploaders : up[s].step # "idle" =>
    /\ up[s].file \in used /\ up[s].name \in Names
    /\ \A r \in Uploaders \ {s} :
         up[r].step # "idle" => up[r].file # up[s].file

(* Before its insert the file has no row, and no request deletes it; when   *)
(* an upload that failed has a row all the same, its commit was lost.       *)
NoRowYet ==
  \A s \in Uploaders :
    /\ up[s].step \in {"upload", "stored"} =>
         /\ \A p \in rows : p[1] # up[s].file
         /\ \A t \in Deleters : \A p \in del[t].left : p[1] # up[s].file
    /\ up[s].step = "clean" =>
         \A p \in rows : p[1] = up[s].file =>
           p[2] = up[s].name /\ up[s].name \in doubtful

(* A deletion past its transaction has no rows left, an idle one nothing.   *)
RowsGone ==
  \A t \in Deleters :
    /\ del[t].step = "idle" => del[t].left = {}
    /\ del[t].step = "deleted" => del[t].left \cap rows = {}

Structure == TypeOK /\ OwnFile /\ NoRowYet /\ RowsGone

-----------------------------------------------------------------------------
(* What the requests know of files and rows is inductive by itself.         *)
LEMMA StructureInit == Init => Structure
  BY DEF Init, Structure, TypeOK, OwnFile, NoRowYet, RowsGone, IdleUp, IdleDel

LEMMA StructureStep == Structure /\ Next => Structure'
<1> SUFFICES ASSUME Structure, Next PROVE Structure'
  OBVIOUS
<1> USE DEF Structure, TypeOK, OwnFile, NoRowYet, RowsGone
<1>0. shared' \subseteq Names
  BY DEF Next, Record
<1>1. ASSUME NEW s \in Uploaders, NEW f \in Files, NEW n \in Names,
             UploadAttachment(s, f, n)
      PROVE  Structure'
  <2>1. TypeOK'
    BY <1>0, <1>1 DEF UploadAttachment
  <2>2. OwnFile' /\ NoRowYet' /\ RowsGone'
    BY <1>1 DEF UploadAttachment
  <2>3. QED BY <2>1, <2>2
<1>2. ASSUME NEW s \in Uploaders, PutObject(s)
      PROVE  Structure'
  BY <1>0, <1>2 DEF PutObject, Holds, Stage
<1>3. ASSUME NEW s \in Uploaders, PutFails(s)
      PROVE  Structure'
  BY <1>0, <1>3 DEF PutFails, EndUpload, IdleUp
<1>4. ASSUME NEW s \in Uploaders, InsertAttachment(s)
      PROVE  Structure'
  <2>1. TypeOK'
    BY <1>0, <1>4 DEF InsertAttachment, EndUpload, IdleUp
  <2>2. OwnFile' /\ NoRowYet' /\ RowsGone'
    BY <1>4 DEF InsertAttachment, EndUpload, IdleUp
  <2>3. QED BY <2>1, <2>2
<1>5. ASSUME NEW s \in Uploaders, InsertFails(s)
      PROVE  Structure'
  BY <1>0, <1>5 DEF InsertFails, Stage
<1>6. ASSUME NEW s \in Uploaders, CommitLost(s)
      PROVE  Structure'
  <2>1. TypeOK'
    BY <1>0, <1>6 DEF CommitLost, Stage
  <2>2. OwnFile' /\ NoRowYet' /\ RowsGone'
    BY <1>6 DEF CommitLost, Stage
  <2>3. QED BY <2>1, <2>2
<1>7. ASSUME NEW s \in Uploaders, RemoveUploaded(s)
      PROVE  Structure'
  BY <1>0, <1>7 DEF RemoveUploaded, Holds, EndUpload, IdleUp
<1>8. ASSUME NEW s \in Uploaders, UploadStops(s)
      PROVE  Structure'
  BY <1>0, <1>8 DEF UploadStops, EndUpload, IdleUp
<1>9. ASSUME NEW t \in Deleters, NEW P \in SUBSET rows, DeleteAttachments(t, P)
      PROVE  Structure'
  BY <1>0, <1>9 DEF DeleteAttachments
<1>10. ASSUME NEW t \in Deleters, DeleteRows(t)
       PROVE  Structure'
  BY <1>0, <1>10 DEF DeleteRows
<1>11. ASSUME NEW t \in Deleters, NEW p \in Files \X Names, DeleteObject(t, p)
       PROVE  Structure'
  <2>1. del' = [del EXCEPT ![t] = del'[t]]
        /\ del'[t].left \subseteq del[t].left
        /\ del'[t] \in {IdleDel, [step |-> "deleted", left |-> del[t].left \ {p}]}
    BY <1>11 DEF DeleteObject, Done, IdleDel
  <2>2. TypeOK'
    BY <1>0, <1>11, <2>1 DEF DeleteObject, Holds, IdleDel
  <2>3. OwnFile' /\ NoRowYet' /\ RowsGone'
    BY <1>11, <2>1 DEF DeleteObject, IdleDel
  <2>4. QED BY <2>2, <2>3
<1>12. ASSUME NEW t \in Deleters, DeleteStops(t)
       PROVE  Structure'
  BY <1>0, <1>12 DEF DeleteStops, IdleDel, NamesOf
<1>13. ASSUME RemoveMail
       PROVE  Structure'
  <2>1. NamesOf(rows) \subseteq Names
    BY DEF NamesOf
  <2>2. TypeOK'
    BY <1>0, <1>13, <2>1 DEF RemoveMail
  <2>3. OwnFile' /\ NoRowYet' /\ RowsGone'
    BY <1>13 DEF RemoveMail
  <2>4. QED BY <2>2, <2>3
<1>14. QED
  BY <1>1, <1>2, <1>3, <1>4, <1>5, <1>6, <1>7, <1>8, <1>9, <1>10, <1>11,
     <1>12, <1>13 DEF Next, Upload, Remove

-----------------------------------------------------------------------------
(* A name that was never shared is claimed by one upload at most: the       *)
(* history takes in every name that two claim.                              *)
OneClaim == \A n \in Names \ shared : \A f, g \in Claims(n) : f = g

(* Between PutObject and the insert the storage holds the file.             *)
StoredFile ==
  \A s \in Uploaders :
    up[s].step = "stored" /\ up[s].name \notin shared => object[up[s].name] = up[s].file

FileInv == Structure /\ OneClaim /\ StoredFile /\ RowHasItsFile

LEMMA FileInit == Init => FileInv
<1> SUFFICES ASSUME Init PROVE FileInv
  OBVIOUS
<1>1. Structure
  BY StructureInit
<1>2. OneClaim /\ StoredFile /\ RowHasItsFile
  BY DEF Init, OneClaim, Claims, StoredFile, RowHasItsFile, IdleUp, IdleDel
<1>3. QED BY <1>1, <1>2 DEF FileInv

(* The rows, the uploads and the deletions of a name are its claims.        *)
LEMMA ClaimsOf ==
  ASSUME Structure
  PROVE  /\ \A p \in rows : p[1] \in Claims(p[2]) /\ p[2] \in Names
         /\ \A s \in Uploaders : up[s].step # "idle" =>
              up[s].file \in Claims(up[s].name) /\ up[s].name \in Names
         /\ \A t \in Deleters : \A p \in del[t].left :
              p[1] \in Claims(p[2]) /\ p[2] \in Names
<1> USE DEF Structure, TypeOK, OwnFile, Claims
<1>1. ASSUME NEW p \in used \X Names
      PROVE  p[1] \in Files /\ p[2] \in Names /\ p = <<p[1], p[2]>>
  OBVIOUS
<1>2. \A p \in rows : p[1] \in Claims(p[2]) /\ p[2] \in Names
  BY <1>1
<1>3. \A s \in Uploaders : up[s].step # "idle" =>
        up[s].file \in Claims(up[s].name) /\ up[s].name \in Names
  OBVIOUS
<1>4. \A t \in Deleters : \A p \in del[t].left :
        p[1] \in Claims(p[2]) /\ p[2] \in Names
  <2> TAKE t \in Deleters
  <2> TAKE p \in del[t].left
  <2>1. p \in used \X Names
    OBVIOUS
  <2>2. p[1] \in Files /\ p[2] \in Names /\ <<p[1], p[2]>> \in del[t].left
    BY <1>1, <2>1
  <2>3. QED BY <2>2
<1>5. QED BY <1>2, <1>3, <1>4

(* A step changes the object of one name at most, and then no other upload  *)
(* of that name, unless it is shared, has a row or waits for its insert.    *)
LEMMA FileStep == FileInv /\ Next => FileInv'
<1> SUFFICES ASSUME FileInv, Next PROVE FileInv'
  OBVIOUS
<1>1. Structure /\ Structure' /\ OneClaim /\ StoredFile /\ RowHasItsFile
  BY StructureStep DEF FileInv
<1>2. OneClaim'
  BY DEF Next, Record, OneClaim
<1>3. shared \subseteq shared'
  BY DEF Next, Record
<1>4. /\ \A p \in rows, n \in Names \ shared : \A f \in Claims(n) : p[2] = n => p[1] = f
      /\ \A s \in Uploaders, n \in Names \ shared : \A f \in Claims(n) :
           up[s].step # "idle" /\ up[s].name = n => up[s].file = f
  BY <1>1, ClaimsOf DEF OneClaim
<1>5. StoredFile' /\ RowHasItsFile'
  <2> USE <1>1, <1>3, <1>4, ClaimsOf
      DEF Structure, TypeOK, OwnFile, NoRowYet, RowsGone, StoredFile, RowHasItsFile
  <2>1. ASSUME NEW s \in Uploaders, NEW f \in Files, NEW n \in Names,
               UploadAttachment(s, f, n)
        PROVE  StoredFile' /\ RowHasItsFile'
    BY <2>1 DEF UploadAttachment
  <2>2. ASSUME NEW s \in Uploaders, PutObject(s)
        PROVE  StoredFile' /\ RowHasItsFile'
    BY <2>2 DEF PutObject, Holds, Stage
  <2>3. ASSUME NEW s \in Uploaders, PutFails(s)
        PROVE  StoredFile' /\ RowHasItsFile'
    BY <2>3 DEF PutFails, EndUpload, IdleUp
  <2>4. ASSUME NEW s \in Uploaders, InsertAttachment(s)
        PROVE  StoredFile' /\ RowHasItsFile'
    BY <2>4 DEF InsertAttachment, EndUpload, IdleUp
  <2>5. ASSUME NEW s \in Uploaders, InsertFails(s)
        PROVE  StoredFile' /\ RowHasItsFile'
    BY <2>5 DEF InsertFails, Stage
  <2>6. ASSUME NEW s \in Uploaders, CommitLost(s)
        PROVE  StoredFile' /\ RowHasItsFile'
    BY <2>6 DEF CommitLost, Stage
  <2>7. ASSUME NEW s \in Uploaders, RemoveUploaded(s)
        PROVE  StoredFile' /\ RowHasItsFile'
    BY <2>7 DEF RemoveUploaded, Holds, EndUpload, IdleUp
  <2>8. ASSUME NEW s \in Uploaders, UploadStops(s)
        PROVE  StoredFile' /\ RowHasItsFile'
    BY <2>8 DEF UploadStops, EndUpload, IdleUp
  <2>9. ASSUME NEW t \in Deleters, NEW P \in SUBSET rows, DeleteAttachments(t, P)
        PROVE  StoredFile' /\ RowHasItsFile'
    BY <2>9 DEF DeleteAttachments
  <2>10. ASSUME NEW t \in Deleters, DeleteRows(t)
         PROVE  StoredFile' /\ RowHasItsFile'
    BY <2>10 DEF DeleteRows
  <2>11. ASSUME NEW t \in Deleters, NEW p \in Files \X Names, DeleteObject(t, p)
         PROVE  StoredFile' /\ RowHasItsFile'
    <3>1. p \in del[t].left /\ p \notin rows /\ rows' = rows /\ up' = up
          /\ doubtful' = doubtful
      BY <2>11 DEF DeleteObject
    <3>2. object' = object \/ object' = [object EXCEPT ![p[2]] = None]
      BY <2>11 DEF DeleteObject, Holds
    <3>3. ASSUME NEW q \in rows, p[2] \notin shared
          PROVE  q[2] # p[2]
      <4>1. q = <<q[1], q[2]>> /\ p = <<p[1], p[2]>>
        OBVIOUS
      <4>2. p[1] \in Claims(p[2]) /\ p[2] \in Names
        BY <3>1, ClaimsOf
      <4>3. q[2] = p[2] => q[1] = p[1]
        BY <3>3, <4>2
      <4>4. SUFFICES ASSUME q[2] = p[2] PROVE FALSE
        OBVIOUS
      <4>5. q = p
        BY ONLY <4>1, <4>3, <4>4
      <4>6. QED BY ONLY <3>1, <3>3, <4>5
    <3>4. ASSUME NEW s \in Uploaders, up[s].step = "stored", p[2] \notin shared
          PROVE  up[s].name # p[2]
      <4>1. p[1] \in Claims(p[2]) /\ p[2] \in Names
        BY <3>1, ClaimsOf
      <4>2. up[s].name = p[2] => up[s].file = p[1]
        BY <3>4, <4>1
      <4>3. QED BY <3>1, <3>4, <4>2
    <3>5. StoredFile'
      BY <3>1, <3>2, <3>4
    <3>6. RowHasItsFile'
      BY <3>1, <3>2, <3>3
    <3>7. QED BY <3>5, <3>6
  <2>12. ASSUME NEW t \in Deleters, DeleteStops(t)
         PROVE  StoredFile' /\ RowHasItsFile'
    BY <2>12 DEF DeleteStops
  <2>13. ASSUME RemoveMail
         PROVE  StoredFile' /\ RowHasItsFile'
    BY <2>13 DEF RemoveMail
  <2>14. QED
    BY <2>1, <2>2, <2>3, <2>4, <2>5, <2>6, <2>7, <2>8, <2>9, <2>10, <2>11,
       <2>12, <2>13 DEF Next, Upload, Remove
<1>6. QED BY <1>1, <1>2, <1>5 DEF FileInv

(* An attachment of the table can be downloaded and is the file that was    *)
(* uploaded, whatever uploads, deletions, failures and stops interleave,    *)
(* unless its name was shared or the answer of its commit was lost.         *)
THEOREM RowHasItsFileAlways == Spec => []RowHasItsFile
<1>1. FileInv /\ UNCHANGED vars => FileInv'
  BY DEF FileInv, Structure, TypeOK, OwnFile, NoRowYet, RowsGone, OneClaim,
         Claims, StoredFile, RowHasItsFile, vars
<1>2. FileInv => RowHasItsFile
  BY DEF FileInv
<1>3. QED BY FileInit, FileStep, <1>1, <1>2, PTL DEF Spec

(* The types of the variables, the rows of an existing mail, one row for an *)
(* upload: in every reachable state.                                        *)
THEOREM AttachmentTypes == Spec => []TypeOK
<1>1. Structure /\ UNCHANGED vars => Structure'
  BY DEF Structure, TypeOK, OwnFile, NoRowYet, RowsGone, vars
<1>2. Structure => TypeOK
  BY DEF Structure
<1>3. QED BY StructureInit, StructureStep, <1>1, <1>2, PTL DEF Spec

-----------------------------------------------------------------------------
(* Who stands behind an object: a row, an upload that has stored it, or a   *)
(* deletion that is going to remove it.                                     *)
Behind(n) ==
  \/ \E p \in rows : p[2] = n
  \/ \E s \in Uploaders : up[s].step \in {"stored", "clean"} /\ up[s].name = n
  \/ \E t \in Deleters : del[t].step = "deleted" /\ \E p \in del[t].left : p[2] = n

ObjectBehind == \A n \in Names \ leaked : object[n] # None => Behind(n)

LEMMA BehindStep == Structure /\ ObjectBehind /\ Next => ObjectBehind'
<1> SUFFICES ASSUME Structure, ObjectBehind, Next PROVE ObjectBehind'
  OBVIOUS
<1> USE DEF Structure, TypeOK, ObjectBehind, Behind
<1>1. ASSUME NEW s \in Uploaders, NEW f \in Files, NEW n \in Names,
             UploadAttachment(s, f, n)
      PROVE  ObjectBehind'
  BY <1>1 DEF UploadAttachment
<1>2. ASSUME NEW s \in Uploaders, PutObject(s)
      PROVE  ObjectBehind'
  BY <1>2 DEF PutObject, Holds, Stage
<1>3. ASSUME NEW s \in Uploaders, PutFails(s)
      PROVE  ObjectBehind'
  BY <1>3 DEF PutFails, EndUpload, IdleUp
<1>4. ASSUME NEW s \in Uploaders, InsertAttachment(s)
      PROVE  ObjectBehind'
  <2>1. <<up[s].file, up[s].name>> \in rows' /\ rows \subseteq rows'
        /\ object' = object /\ leaked' = leaked /\ del' = del
        /\ \A r \in Uploaders \ {s} : up'[r] = up[r]
    BY <1>4 DEF InsertAttachment, EndUpload
  <2>2. ASSUME NEW n \in Names, Behind(n) PROVE Behind(n)'
    <3>1. CASE \E p \in rows : p[2] = n
      BY <2>1, <3>1
    <3>2. CASE up[s].name = n
      BY <2>1, <3>2
    <3>3. CASE \E r \in Uploaders \ {s} :
                 up[r].step \in {"stored", "clean"} /\ up[r].name = n
      BY <2>1, <3>3
    <3>4. CASE \E t \in Deleters :
                 del[t].step = "deleted" /\ \E p \in del[t].left : p[2] = n
      BY <2>1, <3>4
    <3>5. QED BY <2>2, <3>1, <3>2, <3>3, <3>4
  <2>3. QED BY <2>1, <2>2
<1>5. ASSUME NEW s \in Uploaders, InsertFails(s)
      PROVE  ObjectBehind'
  BY <1>5 DEF InsertFails, Stage
<1>6. ASSUME NEW s \in Uploaders, CommitLost(s)
      PROVE  ObjectBehind'
  BY <1>6 DEF CommitLost, Stage
<1>7. ASSUME NEW s \in Uploaders, RemoveUploaded(s)
      PROVE  ObjectBehind'
  BY <1>7 DEF RemoveUploaded, Holds, EndUpload, IdleUp
<1>8. ASSUME NEW s \in Uploaders, UploadStops(s)
      PROVE  ObjectBehind'
  BY <1>8 DEF UploadStops, EndUpload, IdleUp
<1>9. ASSUME NEW t \in Deleters, NEW P \in SUBSET rows, DeleteAttachments(t, P)
      PROVE  ObjectBehind'
  BY <1>9 DEF DeleteAttachments
<1>10. ASSUME NEW t \in Deleters, DeleteRows(t)
       PROVE  ObjectBehind'
  BY <1>10 DEF DeleteRows
<1>11. ASSUME NEW t \in Deleters, NEW p \in Files \X Names, DeleteObject(t, p)
       PROVE  ObjectBehind'
  BY <1>11 DEF DeleteObject, Done, Holds, IdleDel
<1>12. ASSUME NEW t \in Deleters, DeleteStops(t)
       PROVE  ObjectBehind'
  BY <1>12 DEF DeleteStops, IdleDel, NamesOf
<1>13. ASSUME RemoveMail
       PROVE  ObjectBehind'
  BY <1>13 DEF RemoveMail, NamesOf
<1>14. QED
  BY <1>1, <1>2, <1>3, <1>4, <1>5, <1>6, <1>7, <1>8, <1>9, <1>10, <1>11,
     <1>12, <1>13 DEF Next, Upload, Remove

(* The storage holds no object that neither a row nor a request refers to,  *)
(* but for those that a refusal of the storage, a stop or the removal of    *)
(* the whole draft left behind.                                             *)
THEOREM NoOrphanAlways == Spec => []NoOrphan
<1>1. Init => Structure /\ ObjectBehind
  BY StructureInit DEF Init, ObjectBehind
<1>2. Structure /\ ObjectBehind /\ [Next]_vars => (Structure /\ ObjectBehind)'
  <2>1. Structure /\ ObjectBehind /\ UNCHANGED vars => (Structure /\ ObjectBehind)'
    BY DEF Structure, TypeOK, OwnFile, NoRowYet, RowsGone, ObjectBehind, Behind, vars
  <2>2. QED BY <2>1, StructureStep, BehindStep
<1>3. Structure /\ ObjectBehind => NoOrphan
  <2> SUFFICES ASSUME Structure, ObjectBehind,
                      NEW n \in Names \ leaked, object[n] # None
               PROVE  Claims(n) # {}
    BY DEF NoOrphan
  <2>1. Behind(n)
    BY DEF ObjectBehind
  <2>2. QED BY <2>1, ClaimsOf DEF Behind
<1>4. QED BY <1>1, <1>2, <1>3, PTL DEF Spec

-----------------------------------------------------------------------------
(* Downloads only read: what holds of the attachments holds beside them.    *)
THEOREM DownloadsOnlyRead == DownSpec => Spec
<1>1. DownInit => Init
  BY DEF DownInit
<1>2. [DownNext]_downVars => [Next]_vars
  BY DEF DownNext, downVars, DownloadAttachment, GetObject, Closes, Meanwhile
<1>3. QED BY <1>1, <1>2, PTL DEF DownSpec, Spec

(* The row that a download has read, and its key.                           *)
RowRead ==
  /\ down = [d \in Readers |-> down[d]]
  /\ \A d \in Readers : down[d].step # "idle" =>
       down[d].row[2] \in Names /\ down[d].key = down[d].row[2]

(* Of an unshared name only the file of the row and the files uploaded      *)
(* since have a claim, and no other file can be the object.                 *)
ClaimedSince(d) ==
  LET n == down[d].key  own == {down[d].row[1]} \cup down[d].since IN
    down[d].step = "found" /\ n \notin shared \cup doubtful =>
      Claims(n) \subseteq own /\ object[n] \in {None} \cup own

Announced(d) ==
  down[d].step = "open" /\ down[d].row[2] \notin shared \cup doubtful =>
    \/ down[d].body = down[d].row[1]
    \/ down[d].row \notin rows /\ down[d].body \in down[d].since

DownInv == FileInv /\ RowRead /\ \A d \in Readers : ClaimedSince(d) /\ Announced(d)

(* A step changes the object of a name into that of a claim, or removes it. *)
LEMMA ObjectOfClaim ==
  ASSUME Structure, Next, NEW n \in Names
  PROVE  object'[n] \in {object[n], None} \cup Claims(n)
<1>1. \A s \in Uploaders : up[s].step # "idle" => up[s].file \in Claims(up[s].name)
  BY ClaimsOf
<1>2. object \in [Names -> used \cup {None}]
  BY DEF Structure, TypeOK
<1>3. ASSUME NEW s \in Uploaders, PutObject(s) \/ PutFails(s) \/ RemoveUploaded(s)
      PROVE  object'[n] \in {object[n], None} \cup Claims(n)
  <2>1. up[s].file \in Claims(up[s].name)
    BY <1>1, <1>3 DEF PutObject, PutFails, RemoveUploaded
  <2>2. \/ object' = object
        \/ object' = [object EXCEPT ![up[s].name] = up[s].file]
        \/ object' = [object EXCEPT ![up[s].name] = None]
    BY <1>3 DEF PutObject, PutFails, RemoveUploaded, Holds
  <2>3. QED BY <1>2, <2>1, <2>2
<1>4. ASSUME NEW t \in Deleters, NEW p \in Files \X Names, DeleteObject(t, p)
      PROVE  object'[n] \in {object[n], None} \cup Claims(n)
  BY <1>2, <1>4 DEF DeleteObject, Holds
<1>5. ASSUME object' = object
      PROVE  object'[n] \in {object[n], None} \cup Claims(n)
  BY <1>5
<1>6. QED
  BY <1>3, <1>4, <1>5 DEF Next, Upload, Remove, UploadAttachment, InsertAttachment,
     InsertFails, CommitLost, UploadStops, DeleteAttachments, DeleteRows, DeleteStops,
     RemoveMail

(* The histories only grow.                                                 *)
LEMMA DoubtStays == Next => shared \subseteq shared' /\ doubtful \subseteq doubtful'
  BY DEF Next, Record, Upload, Remove, UploadAttachment, PutObject, PutFails,
     InsertAttachment, InsertFails, CommitLost, RemoveUploaded, UploadStops,
     DeleteAttachments, DeleteRows, DeleteObject, DeleteStops, RemoveMail

(* While a download has its row but not yet the object, the others go on.   *)
LEMMA MeanwhileStep == DownInv /\ Meanwhile => DownInv'
<1> SUFFICES ASSUME DownInv, Meanwhile PROVE DownInv'
  OBVIOUS
<1>1. FileInv /\ FileInv' /\ Structure
  BY FileStep DEF DownInv, Meanwhile, FileInv
<1>2. Next /\ \A d \in Readers : down[d].step # "open"
  BY DEF Meanwhile
<1>3. ASSUME NEW d \in Readers, down[d].step # "found"
      PROVE  down'[d] = down[d]
  BY <1>3 DEF Meanwhile
<1>4. ASSUME NEW d \in Readers, down[d].step = "found", NEW n \in Names, n = down[d].key
      PROVE  /\ down'[d].step = "found" /\ down'[d].row = down[d].row
             /\ down'[d].key = n
             /\ down'[d].since = down[d].since \cup Claims(n)'
  <2>1. down'[d] = [step |-> "found", row |-> down[d].row, key |-> n, body |-> None,
                    since |-> down[d].since \cup UNION {Claims(m)' : m \in {n}}]
    BY <1>4 DEF Meanwhile
  <2>2. UNION {Claims(m)' : m \in {n}} = Claims(n)'
    OBVIOUS
  <2>3. QED BY <2>1, <2>2
<1>5. RowRead'
  <2>1. down' = [d \in Readers |-> down'[d]]
    BY DEF Meanwhile
  <2>2. QED BY <1>3, <1>4, <2>1 DEF DownInv, RowRead
<1>6. ASSUME NEW d \in Readers
      PROVE  ClaimedSince(d)'
  <2>1. CASE down[d].step # "found"
    BY <1>3, <2>1 DEF ClaimedSince
  <2>2. CASE down[d].step = "found"
    <3>1. PICK n \in Names : n = down[d].key
      BY <2>2 DEF DownInv, RowRead
    <3> DEFINE own == {down[d].row[1]} \cup down[d].since
    <3> SUFFICES ASSUME n \notin shared' \cup doubtful'
                 PROVE  /\ Claims(n)' \subseteq own \cup Claims(n)'
                        /\ object'[n] \in {None} \cup own \cup Claims(n)'
      BY <1>4, <2>2, <3>1 DEF ClaimedSince
    <3>2. Claims(n) \subseteq own /\ object[n] \in {None} \cup own
      BY <1>2, <2>2, <3>1, DoubtStays DEF DownInv, ClaimedSince
    <3>3. object'[n] \in {object[n], None} \cup Claims(n)
      BY <1>1, <1>2, <3>1, ObjectOfClaim
    <3> QED BY <3>2, <3>3
  <2> QED BY <2>1, <2>2
<1>7. ASSUME NEW d \in Readers
      PROVE  Announced(d)'
  <2>1. down'[d].step # "open"
    BY <1>2, <1>3 DEF Meanwhile
  <2> QED BY <2>1 DEF Announced
<1> QED BY <1>1, <1>5, <1>6, <1>7 DEF DownInv

(* A request of a download changes its own state only.                      *)
LEMMA DownloadStep ==
  ASSUME DownInv, NEW d \in Readers, UNCHANGED vars, NEW r,
         down' = [down EXCEPT ![d] = r],
         r.step # "idle" => r.row[2] \in Names /\ r.key = r.row[2],
         ClaimedSince(d)', Announced(d)'
  PROVE  DownInv'
<1>1. FileInv'
  BY DEF DownInv, FileInv, Structure, TypeOK, OwnFile, NoRowYet, RowsGone, OneClaim,
         Claims, StoredFile, RowHasItsFile, vars
<1>2. down'[d] = r /\ \A e \in Readers \ {d} : down'[e] = down[e]
  BY DEF DownInv, RowRead
<1>3. RowRead'
  <2>1. down' = [e \in Readers |-> down'[e]]
    BY DEF DownInv, RowRead
  <2>2. QED BY <1>2, <2>1 DEF DownInv, RowRead
<1>4. ASSUME NEW e \in Readers \ {d}
      PROVE  ClaimedSince(e)' /\ Announced(e)'
  <2>1. Claims(down[e].key)' = Claims(down[e].key)
    BY DEF Claims, vars
  <2>2. ClaimedSince(e) /\ Announced(e)
    BY DEF DownInv
  <2>3. QED BY <1>2, <2>1, <2>2 DEF ClaimedSince, Announced, vars
<1> QED BY <1>1, <1>3, <1>4 DEF DownInv

LEMMA DownInvStep == DownInv /\ [DownNext]_downVars => DownInv'
<1> SUFFICES ASSUME DownInv, [DownNext]_downVars PROVE DownInv'
  OBVIOUS
<1>0. /\ Structure /\ OneClaim /\ RowHasItsFile
      /\ down = [d \in Readers |-> down[d]]
  BY DEF DownInv, FileInv, RowRead
<1>1. ASSUME NEW d \in Readers, NEW p \in rows, DownloadAttachment(d, p)
      PROVE  DownInv'
  <2>1. PICK r : /\ r = [step |-> "found", row |-> p, key |-> p[2], body |-> None, since |-> {}]
                 /\ down' = [down EXCEPT ![d] = r]
    BY <1>1 DEF DownloadAttachment, GetAttachmentByID, Found
  <2>2. UNCHANGED vars /\ down'[d] = r
    BY <1>0, <1>1, <2>1 DEF DownloadAttachment
  <2>3. p[2] \in Names /\ p[1] \in Claims(p[2])
    BY <1>0, ClaimsOf
  <2>4. Claims(p[2])' = Claims(p[2])
    BY <2>2 DEF Claims, vars
  <2>5. ClaimedSince(d)'
    <3> SUFFICES ASSUME p[2] \notin shared \cup doubtful
                 PROVE  Claims(p[2]) \subseteq {p[1]} /\ object[p[2]] = p[1]
      BY <2>1, <2>2, <2>4 DEF ClaimedSince, vars
    <3> QED BY <1>0, <2>3 DEF OneClaim, RowHasItsFile
  <2>6. Announced(d)'
    BY <2>1, <2>2 DEF Announced
  <2>7. r.step # "idle" => r.row[2] \in Names /\ r.key = r.row[2]
    BY <2>1, <2>3
  <2> QED BY <2>1, <2>2, <2>5, <2>6, <2>7, DownloadStep
<1>2. ASSUME NEW d \in Readers, GetObject(d), object[down[d].key] # None
      PROVE  DownInv'
  <2>1. PICK r : /\ r = [step |-> "open", row |-> down[d].row, key |-> down[d].key,
                         body |-> object[down[d].key], since |-> down[d].since]
                 /\ down' = [down EXCEPT ![d] = r]
    BY <1>0, <1>2 DEF GetObject
  <2>2. UNCHANGED vars /\ down'[d] = r /\ down[d].step = "found"
    BY <1>0, <1>2, <2>1 DEF GetObject
  <2>3. down[d].row[2] \in Names /\ down[d].key = down[d].row[2]
    BY <2>2 DEF DownInv, RowRead
  <2>4. ClaimedSince(d)'
    BY <2>1, <2>2 DEF ClaimedSince
  <2>5. Announced(d)'
    <3> SUFFICES ASSUME down[d].key \notin shared \cup doubtful
                 PROVE  \/ object[down[d].key] = down[d].row[1]
                        \/ down[d].row \notin rows /\ object[down[d].key] \in down[d].since
      BY <2>1, <2>2, <2>3 DEF Announced, vars
    <3>1. ClaimedSince(d)
      BY DEF DownInv
    <3>2. object[down[d].key] \in {None, down[d].row[1]} \cup down[d].since
      BY <2>2, <3>1 DEF ClaimedSince
    <3>3. down[d].row \in rows => object[down[d].key] = down[d].row[1]
      BY <1>0, <2>3 DEF RowHasItsFile
    <3> QED BY <1>2, <3>2, <3>3
  <2>6. r.step # "idle" => r.row[2] \in Names /\ r.key = r.row[2]
    BY <2>1, <2>3
  <2> QED BY <2>1, <2>2, <2>4, <2>5, <2>6, DownloadStep
<1>3. ASSUME NEW d \in Readers, Closes(d) \/ (GetObject(d) /\ object[down[d].key] = None)
      PROVE  DownInv'
  <2>1. /\ down' = [down EXCEPT ![d] = IdleDown]
        /\ UNCHANGED vars
    BY <1>0, <1>3 DEF Closes, GetObject
  <2>2. down'[d] = IdleDown /\ IdleDown.step = "idle"
    BY <1>0, <2>1 DEF IdleDown
  <2>3. ClaimedSince(d)' /\ Announced(d)'
    BY <2>2 DEF ClaimedSince, Announced
  <2> QED BY <2>1, <2>2, <2>3, DownloadStep
<1>4. CASE UNCHANGED downVars
  <2>1. FileInv'
    BY <1>4 DEF DownInv, FileInv, Structure, TypeOK, OwnFile, NoRowYet, RowsGone, OneClaim,
           Claims, StoredFile, RowHasItsFile, vars, downVars
  <2>2. RowRead' /\ \A d \in Readers : ClaimedSince(d)' /\ Announced(d)'
    BY <1>4 DEF DownInv, RowRead, ClaimedSince, Announced, Claims, vars, downVars
  <2> QED BY <2>1, <2>2 DEF DownInv
<1>5. CASE DownNext
  <2>1. ASSUME NEW d \in Readers, GetObject(d)
        PROVE  DownInv'
    BY <1>2, <1>3, <2>1
  <2>2. ASSUME NEW d \in Readers, Closes(d)
        PROVE  DownInv'
    BY <1>3, <2>2
  <2> QED BY <1>1, <1>5, <2>1, <2>2, MeanwhileStep DEF DownNext
<1> QED
  BY <1>4, <1>5

(* Whoever downloads an attachment gets the file of its row or an error,    *)
(* unless the attachment was deleted after its row was read, and then he    *)
(* gets a file that was uploaded under the name since.                      *)
THEOREM DownloadIsOwnAlways == DownSpec => []DownloadIsOwn
<1>1. DownInit => DownInv
  <2> SUFFICES ASSUME DownInit PROVE DownInv
    OBVIOUS
  <2>1. FileInv
    BY FileInit DEF DownInit
  <2>2. RowRead /\ \A d \in Readers : ClaimedSince(d) /\ Announced(d)
    BY DEF DownInit, RowRead, ClaimedSince, Announced, IdleDown
  <2> QED BY <2>1, <2>2 DEF DownInv
<1>2. DownInv => DownloadIsOwn
  BY DEF DownInv, Announced, DownloadIsOwn
<1>3. QED BY <1>1, <1>2, DownInvStep, PTL DEF DownSpec

=============================================================================
