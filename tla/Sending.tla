------------------------------ MODULE Sending ------------------------------
(***************************************************************************)
(* SendEmail and ForwardEmail.  sendEmailTx writes the mail and its rows   *)
(* in a transaction, stores each file and inserts its row, commits, and    *)
(* then hands the mail to Postfix if it has recipients outside.  The       *)
(* letter is what the user wants to send: he sends it again when no        *)
(* positive answer came.  An open transaction that nobody can see takes no *)
(* step of its own: the mail appears when it commits.                      *)
(***************************************************************************)
EXTENDS FiniteSets, Storage, Message

CONSTANTS
  Ids,       \* ids of the table emails
  Letters,   \* what a user wants to send
  ToOf,      \* the recipients of a letter
  TextOf,    \* the text of a letter, or NoText
  FilesOf,   \* the files of a letter
  Addresses, \* mail addresses
  Inside,    \* the addresses of users
  Outside,   \* the addresses of other domains; the rest is of no one
  Slots,     \* requests that the service handles at the same time
  Nobody     \* no mail; the letter, the id and the file of an idle request

ASSUME LettersAssumption ==
  /\ ToOf \in [Letters -> SUBSET Addresses]
  /\ FilesOf \in [Letters -> SUBSET Files]
  /\ \A l \in Letters : IsFiniteSet(FilesOf[l])
ASSUME InsideAssumption ==
  Inside \subseteq Addresses /\ Outside \subseteq Addresses \ Inside
(* A part of a form that has no file name is no file. *)
ASSUME NamesAssumption == NoName \notin Names
ASSUME NobodyAssumption == Nobody \notin Ids \cup Letters \cup Files

VARIABLES
  mail,     \* for each id, the letter of the committed mail
  objects,  \* the storage
  handed,   \* the mails that Postfix has accepted
  used,     \* the ids that were drawn
  req,      \* for each slot, the request
  gone,     \* the requests whose user has turned away
  ok,       \* the mails whose request was answered positively
  unsure    \* history: the mails that may be done without an answer saying so

vars == <<mail, objects, handed, used, req, gone, ok, unsure>>

Idle == [step |-> "idle", letter |-> Nobody, id |-> Nobody, left |-> {}, file |-> Nobody]

Stored == {i \in Ids : mail[i] # Nobody}

(* The recipients that have an account. *)
GetUsersByEmails(R) == R \cap Inside

(* The others get the mail from Postfix. *)
collectExternal(R) == R \ GetUsersByEmails(R)

(* The mail for Postfix, with the files in some order. *)
InOrder(F) == CHOOSE s \in [1 .. Cardinality(F) -> F] : {s[k] : k \in DOMAIN s} = F

Built ==
  [l \in Letters |->
     LET files == InOrder(FilesOf[l])
     IN  build(TextOf[l], NoText,
               [k \in DOMAIN files |-> [data |-> files[k], name |-> NameOf[files[k]]]])]

(* A local address that is nobody's ends the request, an empty list too. *)
resolveRecipients(R) == R # {} /\ collectExternal(R) \subseteq Outside

Init ==
  /\ mail = [i \in Ids |-> Nobody]
  /\ objects = {}
  /\ handed = {} /\ used = {}
  /\ req = [s \in Slots |-> Idle]
  /\ gone = {} /\ ok = {} /\ unsure = {}

-----------------------------------------------------------------------------
(* The user sends l, for the first time or again: an earlier request has    *)
(* ended or he has turned away from it, and no positive answer has come.    *)
Wants(l) ==
  /\ \A s \in Slots : req[s].letter = l => s \in gone
  /\ \A i \in ok \cap Stored : mail[i] = l => i \in unsure

(* The transaction begins, and the mail with its rows is inserted. *)
sendEmailTx(s, l, i) ==
  /\ resolveRecipients(ToOf[l])
  /\ used' = used \cup {i}
  /\ req' = [req EXCEPT ![s] =
       [step |-> "open", letter |-> l, id |-> i, left |-> FilesOf[l], file |-> Nobody]]
  /\ gone' = gone \ {s}
  /\ UNCHANGED <<mail, objects, handed, ok, unsure>>

(* Mutant: the id of another mail. *)
SendEmailAnew(s, l, i) ==
  /\ req[s].step = "idle" /\ Wants(l)
  /\ sendEmailTx(s, l, i)

SendEmail(s, l, i) ==
  /\ req[s].step = "idle" /\ Wants(l) /\ i \notin used
  /\ sendEmailTx(s, l, i)

(* The text of a mail that the user has is sent on, without its files. *)
ForwardEmail(s, l, i) ==
  /\ FilesOf[l] = {} /\ Stored # {}
  /\ SendEmail(s, l, i)

Stage(s, step, F, f) ==
  req' = [req EXCEPT ![s] =
    [step |-> step, letter |-> @.letter, id |-> @.id, left |-> F, file |-> f]]

UploadAttachment(s, f) ==
  /\ req[s].step = "open" /\ f \in req[s].left
  /\ objects' = UploadObject(objects, req[s].id, f)
  /\ Stage(s, "uploaded", req[s].left \ {f}, f)
  /\ UNCHANGED <<mail, handed, used, gone, ok, unsure>>

InsertAttachment(s) ==
  /\ req[s].step = "uploaded" /\ req[s].file \notin Empty
  /\ Stage(s, "open", req[s].left, Nobody)
  /\ UNCHANGED <<mail, objects, handed, used, gone, ok, unsure>>

(* The request ends. *)
Ends(s) ==
  /\ req' = [req EXCEPT ![s] = Idle]
  /\ gone' = gone \ {s}

(* Mutant: an upload that fails is passed over. *)
UploadSkipped(s, f) ==
  /\ req[s].step = "open" /\ f \in req[s].left
  /\ Stage(s, "open", req[s].left \ {f}, Nobody)
  /\ UNCHANGED <<mail, objects, handed, used, gone, ok, unsure>>

(* The storage answers with an error, with or without having the object. *)
UploadFails(s, f) ==
  /\ req[s].step = "open" /\ f \in req[s].left
  /\ objects' \in {objects, UploadObject(objects, req[s].id, f)}
  /\ Ends(s)
  /\ UNCHANGED <<mail, handed, used, ok, unsure>>

(* The object of this file is removed, if the storage does it; the objects  *)
(* of the files before it stay.                                             *)
InsertAttachmentFails(s) ==
  /\ req[s].step = "uploaded"
  /\ objects' \in {objects, DeleteObject(objects, req[s].id, req[s].file)}
  /\ Ends(s)
  /\ UNCHANGED <<mail, handed, used, ok, unsure>>

(* A statement or the commit fails, and the deferred rollback undoes it. *)
SendFails(s) ==
  /\ req[s].step = "open"
  /\ Ends(s)
  /\ UNCHANGED <<mail, objects, handed, used, ok, unsure>>

AllUploaded(s) == req[s].step = "open" /\ req[s].left = {}
Committed(s) == mail' = [mail EXCEPT ![req[s].id] = req[s].letter]
External(s) == collectExternal(ToOf[req[s].letter])

Commit(s) ==
  /\ AllUploaded(s)
  /\ Committed(s)
  /\ Stage(s, IF External(s) = {} THEN "done" ELSE "committed", {}, Nobody)
  /\ UNCHANGED <<objects, handed, used, gone, ok, unsure>>

(* The commit is done, but an error is seen instead of its answer. *)
CommitLost(s) ==
  /\ AllUploaded(s)
  /\ Committed(s)
  /\ unsure' = unsure \cup {req[s].id}
  /\ Ends(s)
  /\ UNCHANGED <<objects, handed, used, ok>>

(* Mutant: the mail goes out before the commit. *)
HandOverEarly(s) ==
  /\ req[s].step \in {"open", "committed"} /\ External(s) # {}
  /\ handed' = handed \cup {req[s].id}
  /\ Stage(s, IF req[s].step = "open" THEN "open" ELSE "done", req[s].left, Nobody)
  /\ UNCHANGED <<mail, objects, used, gone, ok, unsure>>

(* One SMTP transaction for all recipients outside. *)
HandOver(s) ==
  /\ req[s].step = "committed"
  /\ handed' = handed \cup {req[s].id}
  /\ Stage(s, "done", {}, Nobody)
  /\ UNCHANGED <<mail, objects, used, gone, ok, unsure>>

(* Postfix has the mail, but its answer is lost. *)
HandOverLost(s) ==
  /\ req[s].step = "committed"
  /\ handed' = handed \cup {req[s].id}
  /\ unsure' = unsure \cup {req[s].id}
  /\ Ends(s)
  /\ UNCHANGED <<mail, objects, used, ok>>

(* Mutant: the error is only logged. *)
HandOverLogged(s) ==
  /\ req[s].step = "committed"
  /\ Stage(s, "done", {}, Nobody)
  /\ UNCHANGED <<mail, objects, handed, used, gone, ok, unsure>>

(* Mutant: one transaction for each address, and the second one fails. *)
HandOverPartly(s) ==
  /\ req[s].step = "committed"
  /\ handed' = handed \cup {req[s].id}
  /\ Ends(s)
  /\ UNCHANGED <<mail, objects, used, ok, unsure>>

(* Postfix is away, or rejects an address; the mail stays as it is. *)
HandOverFails(s) ==
  /\ req[s].step = "committed"
  /\ Ends(s)
  /\ UNCHANGED <<mail, objects, handed, used, ok, unsure>>

Answers(s) ==
  /\ req[s].step = "done"
  /\ ok' = ok \cup {req[s].id}
  /\ Ends(s)
  /\ UNCHANGED <<mail, objects, handed, used, unsure>>

(* The user closes the page, or the connection breaks; the request goes on  *)
(* until its next statement notices, or to its end.                         *)
GivesUp(s) ==
  /\ req[s].step # "idle" /\ s \notin gone
  /\ gone' = gone \cup {s}
  /\ unsure' = unsure \cup {req[s].id}
  /\ UNCHANGED <<mail, objects, handed, used, req, ok>>

(* The service stops. *)
Stops(s) ==
  /\ req[s].step # "idle"
  /\ unsure' = unsure \cup {req[s].id}
  /\ Ends(s)
  /\ UNCHANGED <<mail, objects, handed, used, ok>>

-----------------------------------------------------------------------------
Next ==
  \E s \in Slots :
    \/ \E l \in Letters, i \in Ids : SendEmail(s, l, i) \/ ForwardEmail(s, l, i)
    \/ \E f \in Files : UploadAttachment(s, f) \/ UploadFails(s, f)
    \/ InsertAttachment(s)
    \/ InsertAttachmentFails(s)
    \/ SendFails(s)
    \/ Commit(s)
    \/ CommitLost(s)
    \/ HandOver(s)
    \/ HandOverLost(s)
    \/ HandOverFails(s)
    \/ Answers(s)
    \/ GivesUp(s)
    \/ Stops(s)

Spec == Init /\ [][Next]_vars

-----------------------------------------------------------------------------
(* Types; a request works on an id of its own, whose mail appears with the  *)
(* commit.                                                                  *)
TypeOK ==
  /\ mail \in [Ids -> Letters \cup {Nobody}]
  /\ objects \subseteq Ids \X Files
  /\ handed \subseteq used /\ ok \subseteq used /\ unsure \subseteq used
  /\ used \subseteq Ids /\ gone \subseteq Slots
  /\ req \in [Slots -> [step : {"idle", "open", "uploaded", "committed", "done"},
                        letter : Letters \cup {Nobody}, id : used \cup {Nobody},
                        left : SUBSET Files, file : Files \cup {Nobody}]]
  /\ \A s \in Slots : req[s].step \in {"open", "uploaded"} => mail[req[s].id] = Nobody
  /\ \A s, t \in Slots : req[s].id = req[t].id => s = t \/ req[s].step = "idle"

(* A mail that is in the mailboxes has all its files in the storage, also   *)
(* when other requests for the same letter failed and removed theirs.       *)
StoredHasFiles ==
  \A i \in Stored : Downloads(objects, i, FilesOf[mail[i]])

(* A positive answer means that the mail is in the mailboxes of all its     *)
(* recipients, and that Postfix has it for the others.                      *)
OkIsDone ==
  \A i \in ok :
    i \in Stored /\ (ToOf[mail[i]] \subseteq Inside \/ i \in handed)

Arrives ==
  [l \in Letters |->
     LET read == extractContent(Built[l]) IN
       /\ read.body = TextOf[l]
       /\ {a.data : a \in read.files} = FilesOf[l]
       /\ \A a \in read.files : NameOf[a.data] \in {a.name} \cup Quoted]

(* Postfix gets no mail that is not committed, and none that has no         *)
(* recipient outside; and who reads it as this program reads a mail finds   *)
(* the text and every file of the letter.                                   *)
HandedIsStored ==
  \A i \in handed :
    /\ i \in Stored /\ ToOf[mail[i]] \cap Outside # {}
    /\ Arrives[mail[i]]

(* A letter sent again after an error is not delivered twice: users have it *)
(* twice only if it also goes outside, where a refusal of Postfix comes too *)
(* late to take the mail back; Postfix gets it once.  The exception is a    *)
(* mail that was done although no answer said so.                           *)
SentOnce ==
  \A i, j \in Stored \ unsure :
    i # j /\ mail[i] = mail[j] =>
      /\ ToOf[mail[i]] \cap Outside # {}
      /\ ~ ({i, j} \subseteq handed)

=============================================================================
