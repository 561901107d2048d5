---------------------------- MODULE Attachments ----------------------------
(***************************************************************************)
(* The attachments of one mail, a draft: rows of attachments, and the      *)
(* objects of the storage, whose key is made of the mail and the file name. *)
(* UploadAttachment stores the object, then inserts the row, and removes   *)
(* the object again if that fails; DeleteAttachments deletes the rows,     *)
(* then the objects.  Nothing makes file names of a mail distinct, so two  *)
(* attachments may share an object: the history variable "shared" notes    *)
(* the names for which that happened, "doubtful" the names with a commit   *)
(* whose answer was lost, and "leaked" the objects that were left behind.  *)
(***************************************************************************)
CONSTANTS
  Files,       \* the uploads: the bytes of a file, and the id of its row
  Names,       \* file names
  None,        \* no object; the file and the name of an idle request
  Uploaders, Deleters   \* request slots

VARIABLES
  present,   \* the row of the mail in the table emails exists
  rows,      \* attachments: pairs of an upload and its file name
  object,    \* for each name, the bytes that the storage holds
  used,      \* the uploads made so far
  up, del,   \* for each slot, the request it runs
  shared, doubtful, leaked

vars == <<present, rows, object, used, up, del, shared, doubtful, leaked>>

IdleUp  == [step |-> "idle", file |-> None, name |-> None]
IdleDel == [step |-> "idle", left |-> {}]

NamesOf(P) == {p[2] : p \in P}

(* The uploads that have a row, or an upload or a deletion under way, under *)
(* the name n.                                                              *)
Claims(n) ==
  {f \in Files :
     \/ <<f, n>> \in rows
     \/ \E s \in Uploaders : up[s].step # "idle" /\ up[s].file = f /\ up[s].name = n
     \/ \E t \in Deleters : <<f, n>> \in del[t].left}

Init ==
  /\ present = TRUE
  /\ rows = {}
  /\ object = [n \in Names |-> None]
  /\ used = {}
  /\ up = [s \in Uploaders |-> IdleUp]
  /\ del = [t \in Deleters |-> IdleDel]
  /\ shared = {} /\ doubtful = {} /\ leaked = {}

-----------------------------------------------------------------------------
Stage(s, step) ==
  up' = [up EXCEPT ![s] = [step |-> step, file |-> @.file, name |-> @.name]]
EndUpload(s) == up' = [up EXCEPT ![s] = IdleUp]

(* The storage holds f under the name n: what was left behind is replaced. *)
Holds(n, f) ==
  /\ object' = [object EXCEPT ![n] = f]
  /\ leaked' = leaked \ {n}

(* CheckEmailAccess finds the mail, and the upload begins. *)
UploadAttachment(s, f, n) ==
  /\ up[s].step = "idle"
  /\ present /\ f \notin used
  /\ used' = used \cup {f}
  /\ up' = [up EXCEPT ![s] = [step |-> "upload", file |-> f, name |-> n]]
  /\ UNCHANGED <<present, rows, object, del, doubtful, leaked>>

(* PutObject replaces an object that has the key already. *)
PutObject(s) ==
  /\ up[s].step = "upload"
  /\ Holds(up[s].name, up[s].file)
  /\ Stage(s, "stored")
  /\ UNCHANGED <<present, rows, used, del, doubtful>>

(* PutObject reports an error, and the request ends at once; the object may *)
(* have been written.                                                       *)
PutFails(s) ==
  /\ up[s].step = "upload"
  /\ EndUpload(s)
  /\ \/ UNCHANGED <<object, leaked>>
     \/ /\ object' = [object EXCEPT ![up[s].name] = up[s].file]
        /\ leaked' = leaked \cup {up[s].name}
  /\ UNCHANGED <<present, rows, used, del, doubtful>>

(* Mutant: without the foreign key, a row may outlive its mail. *)
InsertUnbound(s) ==
  /\ up[s].step = "stored"
  /\ rows' = rows \cup {<<up[s].file, up[s].name>>}
  /\ EndUpload(s)
  /\ UNCHANGED <<present, object, used, del, doubtful, leaked>>

(* The transaction with the INSERT; the foreign key needs the mail. *)
InsertAttachment(s) ==
  /\ up[s].step = "stored"
  /\ present
  /\ rows' = rows \cup {<<up[s].file, up[s].name>>}
  /\ EndUpload(s)
  /\ UNCHANGED <<present, object, used, del, doubtful, leaked>>

(* Mutant: the error is returned before the object is removed. *)
InsertFailsDirty(s) ==
  /\ up[s].step = "stored"
  /\ EndUpload(s)
  /\ UNCHANGED <<present, rows, object, used, del, doubtful, leaked>>

(* BeginTx, the INSERT or the commit fails. *)
InsertFails(s) ==
  /\ up[s].step = "stored"
  /\ Stage(s, "clean")
  /\ UNCHANGED <<present, rows, object, used, del, doubtful, leaked>>

(* The commit succeeds, but the service sees an error instead of its answer. *)
CommitLost(s) ==
  /\ up[s].step = "stored"
  /\ present
  /\ rows' = rows \cup {<<up[s].file, up[s].name>>}
  /\ doubtful' = doubtful \cup {up[s].name}
  /\ Stage(s, "clean")
  /\ UNCHANGED <<present, object, used, del, leaked>>

(* The object of a failed upload is removed, whoever else it belongs to. *)
RemoveUploaded(s) ==
  /\ up[s].step = "clean"
  /\ Holds(up[s].name, None)
  /\ EndUpload(s)
  /\ UNCHANGED <<present, rows, used, del, doubtful>>

(* The service stops, or the removal fails; its error is ignored. *)
UploadStops(s) ==
  /\ up[s].step # "idle"
  /\ leaked' = leaked \cup {n \in {up[s].name} : up[s].step \in {"stored", "clean"}}
  /\ EndUpload(s)
  /\ UNCHANGED <<present, rows, object, used, del, doubtful>>

-----------------------------------------------------------------------------
(* CheckEmailAccess, and the names of the ids are read; an id that is no    *)
(* attachment of the mail ends the request.                                 *)
DeleteAttachments(t, P) ==
  /\ del[t].step = "idle"
  /\ present /\ P \subseteq rows
  /\ del' = [del EXCEPT ![t] = [step |-> "resolved", left |-> P]]
  /\ UNCHANGED <<present, rows, object, used, up, doubtful, leaked>>

(* Mutant: the commit is forgotten, and the deferred rollback undoes it. *)
DeleteUncommitted(t) ==
  /\ del[t].step = "resolved"
  /\ del' = [del EXCEPT ![t] = [step |-> "deleted", left |-> @.left]]
  /\ UNCHANGED <<present, rows, object, used, up, doubtful, leaked>>

(* The transaction with the DELETE; rows that are gone already are skipped. *)
DeleteRows(t) ==
  /\ del[t].step = "resolved"
  /\ rows' = rows \ del[t].left
  /\ del' = [del EXCEPT ![t] = [step |-> "deleted", left |-> @.left]]
  /\ UNCHANGED <<present, object, used, up, doubtful, leaked>>

Done(t, p) ==
  del' = [del EXCEPT ![t] =
    IF @.left = {p} THEN IdleDel ELSE [step |-> "deleted", left |-> @.left \ {p}]]

(* The objects go one by one; an error is ignored. *)
DeleteObject(t, p) ==
  /\ del[t].step = "deleted" /\ p \in del[t].left
  /\ Done(t, p)
  /\ \/ Holds(p[2], None)
     \/ /\ object' = object
        /\ leaked' = leaked \cup {p[2]}
  /\ UNCHANGED <<present, rows, used, up, doubtful>>

(* A statement fails, or the service stops. *)
DeleteStops(t) ==
  /\ del[t].step # "idle"
  /\ leaked' = leaked \cup {n \in NamesOf(del[t].left) : del[t].step = "deleted"}
  /\ del' = [del EXCEPT ![t] = IdleDel]
  /\ UNCHANGED <<present, rows, object, used, up, doubtful>>

(* DeleteDrafts: the rows go with the mail, the objects stay. *)
RemoveMail ==
  /\ present
  /\ present' = FALSE
  /\ rows' = {}
  /\ leaked' = leaked \cup NamesOf(rows)
  /\ UNCHANGED <<object, used, up, del, doubtful>>

-----------------------------------------------------------------------------
Upload ==
  \E s \in Uploaders :
    \/ \E f \in Files, n \in Names : UploadAttachment(s, f, n)
    \/ PutObject(s)
    \/ PutFails(s)
    \/ InsertAttachment(s)
    \/ InsertFails(s)
    \/ CommitLost(s)
    \/ RemoveUploaded(s)
    \/ UploadStops(s)

Remove ==
  \E t \in Deleters :
    \/ \E P \in SUBSET rows \ {{}} : DeleteAttachments(t, P)
    \/ DeleteRows(t)
    \/ \E p \in Files \X Names : DeleteObject(t, p)
    \/ DeleteStops(t)

(* The history records the names that two uploads claim. *)
Record ==
  shared' = shared \cup {n \in Names : \E f, g \in Claims(n)' : f # g}

Next == (Upload \/ Remove \/ RemoveMail) /\ Record

Spec == Init /\ [][Next]_vars

-----------------------------------------------------------------------------
(* Types; an attachment belongs to a mail that exists and to an upload that *)
(* was made, and has one name.                                              *)
TypeOK ==
  /\ present \in BOOLEAN
  /\ present \/ rows = {}
  /\ rows \subseteq used \X Names
  /\ \A p, q \in rows : p[1] = q[1] => p = q
  /\ object \in [Names -> used \cup {None}]
  /\ used \subseteq Files
  /\ up \in [Uploaders -> [step : {"idle", "upload", "stored", "clean"},
                           file : used \cup {None}, name : Names \cup {None}]]
  /\ del \in [Deleters -> [step : {"idle", "resolved", "deleted"},
                           left : SUBSET (used \X Names)]]
  /\ shared \subseteq Names /\ doubtful \subseteq Names /\ leaked \subseteq Names

(* An attachment of the table can be downloaded, and is the file that was   *)
(* uploaded, unless its name was shared by two uploads whose lives overlap, *)
(* or the commit of its row was reported as failed.  The life of an upload  *)
(* lasts until the deletion of its object: a deletion that has not come to  *)
(* its end removes the object of a file uploaded anew.                      *)
RowHasItsFile ==
  \A p \in rows :
    p[2] \notin shared \cup doubtful => object[p[2]] = p[1]

(* The storage holds no object that nothing refers to: if the insert fails  *)
(* the object is removed, and so it is after the deletion of the row, unless *)
(* the storage refuses, the service stops or the whole draft is removed.    *)
NoOrphan ==
  \A n \in Names \ leaked : object[n] # None => Claims(n) # {}

(* What the comment of UploadAttachment says: the object and the row are    *)
(* kept consistent when an insert fails.  It fails for a file name that the *)
(* mail has already.                                                        *)
KeptConsistent ==
  \A p \in rows : p[2] \notin doubtful => object[p[2]] # None

=============================================================================
