----------------------------- MODULE Downloads -----------------------------
(***************************************************************************)
(* Attachments with their downloads.  DownloadAttachment reads the row of  *)
(* the attachment, and then opens the object that the row leads to by its  *)
(* key: between the two the attachment can be deleted, and another file    *)
(* can be uploaded under the same name, which has the same key.  The name, *)
(* the type and the length that the answer announces are those of the row. *)
(***************************************************************************)
EXTENDS Attachments

CONSTANT Readers   \* request slots

VARIABLE down      \* for each slot, the download it runs

downVars == <<vars, down>>

(* "since" is a history: the uploads that have claimed the name of the row  *)
(* since the row was read.                                                  *)
IdleDown == [step |-> "idle", row |-> None, key |-> None, body |-> None, since |-> {}]

DownInit == Init /\ down = [d \in Readers |-> IdleDown]

-----------------------------------------------------------------------------
Found(d, p, key) ==
  down' = [down EXCEPT ![d] =
    [step |-> "found", row |-> p, key |-> key, body |-> None, since |-> {}]]

(* Mutant: the row is looked for by the mail only, not by its id. *)
GetAttachmentOfMail(d, p) ==
  /\ present /\ p \in rows
  /\ \E q \in rows : Found(d, p, q[2])

(* The row, if it is an attachment of this mail. *)
GetAttachmentByID(d, p) ==
  /\ present /\ p \in rows
  /\ Found(d, p, p[2])

(* CheckEmailAccess and the lookup; without access, or without such a row,  *)
(* the request ends with an error.                                          *)
DownloadAttachment(d, p) ==
  /\ down[d].step = "idle"
  /\ GetAttachmentByID(d, p)
  /\ UNCHANGED vars

(* The storage opens the object as it is now; if there is none it answers   *)
(* with an error.                                                           *)
GetObject(d) ==
  /\ down[d].step = "found"
  /\ down' = [down EXCEPT ![d] =
       IF object[@.key] = None THEN IdleDown
       ELSE [step |-> "open", row |-> @.row, key |-> @.key,
             body |-> object[@.key], since |-> @.since]]
  /\ UNCHANGED vars

(* The body has been copied to its end, or a call fails, or the user turns  *)
(* away, or the service stops.                                              *)
Closes(d) ==
  /\ down[d].step # "idle"
  /\ down' = [down EXCEPT ![d] = IdleDown]
  /\ UNCHANGED vars

(* The other requests go on, and the history records who claims the name.   *)
(* They do so beside a body that is open too, but an object that is being   *)
(* read stays what it was, so that its download can as well end first.      *)
Meanwhile ==
  /\ Next /\ \A d \in Readers : down[d].step # "open"
  /\ down' = [d \in Readers |->
       IF down[d].step # "found" THEN down[d]
       ELSE [step |-> "found", row |-> down[d].row, key |-> down[d].key, body |-> None,
             since |-> down[d].since \cup UNION {Claims(n)' : n \in {down[d].key}}]]

DownNext ==
  \/ \E d \in Readers :
       \/ \E p \in rows : DownloadAttachment(d, p)
       \/ GetObject(d)
       \/ Closes(d)
  \/ Meanwhile

DownSpec == DownInit /\ [][DownNext]_downVars

-----------------------------------------------------------------------------
(* Who downloads an attachment gets the file of its row or an error, unless *)
(* the attachment was deleted after its row was read: then he may get a     *)
(* file that was uploaded under the name since, announced as the old one.   *)
(* The exceptions are names that two uploads claimed at the same time, and  *)
(* names with a commit that was reported as failed.                         *)
DownloadIsOwn ==
  \A d \in Readers :
    down[d].step = "open" /\ down[d].row[2] \notin shared \cup doubtful =>
      \/ down[d].body = down[d].row[1]
      \/ down[d].row \notin rows /\ down[d].body \in down[d].since

=============================================================================
