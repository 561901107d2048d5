----------------------------- MODULE Receiving -----------------------------
(***************************************************************************)
(* Mail from Postfix.  A connection is a Session of the LMTP server that   *)
(* carries one mail after the other: MAIL and RCPT collect the envelope,   *)
(* DATA runs ReceiveExternalEmail, and the LMTP library calls Reset after  *)
(* each mail.  DATA works in a context of its own: it goes on when the     *)
(* connection breaks, while Postfix, which has no answer, tries again.     *)
(* Every error of the service is answered as a permanent one, so that      *)
(* Postfix returns the mail to its sender.                                 *)
(***************************************************************************)
EXTENDS FiniteSets, Storage, Message

CONSTANTS
  Ids,        \* ids of the table emails
  Messages,   \* the mails that Postfix has for this host
  FromOf,     \* the sender of a message
  RcptOf,     \* its recipients
  PartsOf,    \* its parts
  Broken,     \* the messages that are no MIME messages or break off
  Foreign,    \* the texts in another encoding than that of the database
  Senders,    \* addresses outside
  Addresses,  \* addresses of this host
  Accounts,   \* the addresses that are users
  Connections,
  Nobody      \* no mail, no message, no sender, no file

ASSUME MessagesAssumption ==
  /\ FromOf \in [Messages -> Senders]
  /\ RcptOf \in [Messages -> SUBSET Addresses \ {{}}]
  /\ Broken \subseteq Messages
  /\ DOMAIN PartsOf = Messages /\ \A m \in Messages : IsMail(PartsOf[m])
ASSUME AccountsAssumption == Accounts \subseteq Addresses
ASSUME NobodyAssumption == Nobody \notin Ids \cup Messages \cup Senders \cup Files

VARIABLES
  queue,    \* Postfix: the state of each message
  from, to, \* the fields of each Session
  data,     \* for each connection, the message and how far it is
  lost,     \* the connections that broke in DATA, which is still at work
  mail,     \* the committed mails
  objects,  \* the storage
  used,     \* the ids that were drawn
  unanswered, \* history: messages with a DATA that Postfix got no answer to
  doubtful,   \* history: mails whose commit was taken for failed
  leaked      \* history: mails with a clean-up that was not complete

vars == <<queue, from, to, data, lost, mail, objects, used, unanswered, doubtful, leaked>>

Ready == [step |-> "ready", msg |-> Nobody, ask |-> {}, id |-> Nobody,
          left |-> {}, file |-> Nobody]

Stored == {i \in Ids : mail[i] # Nobody}

Parsed == [m \in Messages |-> extractContent(PartsOf[m])]
ParsedFiles == [m \in Messages |-> {a.data : a \in Parsed[m].files}]
Bodies == {Parsed[m].body : m \in Messages}

(* The rows of the table emails. *)
Rows == [msg : Messages, from : Senders, to : SUBSET Addresses, body : Bodies]

ASSUME FilesAssumed ==
  \A m \in Messages : \A a \in Parsed[m].files :
    a.data \in Files /\ NameOf[a.data] = a.name
ASSUME NobodyIsNoRow == Nobody \notin Rows

(* No header or part can be read, or PostgreSQL does not take the text. *)
InsertFails(m) == m \in Broken \/ Parsed[m].body \in Foreign

(* The users who get a row of user_emails; other addresses are accepted too. *)
Readers(R) == R \cap Accounts

Init ==
  /\ queue = [m \in Messages |-> "queued"]
  /\ from = [c \in Connections |-> Nobody]
  /\ to = [c \in Connections |-> {}]
  /\ data = [c \in Connections |-> Ready]
  /\ mail = [i \in Ids |-> Nobody]
  /\ lost = {} /\ objects = {} /\ used = {}
  /\ unanswered = {} /\ doubtful = {} /\ leaked = {}

-----------------------------------------------------------------------------
(* Postfix sends a message by one connection at a time, as far as it sees. *)
Mail(c, m) ==
  /\ data[c].step = "ready" /\ queue[m] = "queued"
  /\ \A d \in Connections : data[d].msg = m => d \in lost
  /\ from' = [from EXCEPT ![c] = FromOf[m]]
  /\ data' = [data EXCEPT ![c] =
       [step |-> "envelope", msg |-> m, ask |-> RcptOf[m], id |-> Nobody,
        left |-> {}, file |-> Nobody]]
  /\ UNCHANGED <<queue, to, lost, mail, objects, used, unanswered, doubtful, leaked>>

Rcpt(c, a) ==
  /\ data[c].step = "envelope" /\ a \in data[c].ask
  /\ to' = [to EXCEPT ![c] = @ \cup {a}]
  /\ data' = [data EXCEPT ![c] =
       [step |-> "envelope", msg |-> @.msg, ask |-> @.ask \ {a}, id |-> Nobody,
        left |-> {}, file |-> Nobody]]
  /\ UNCHANGED <<queue, from, lost, mail, objects, used, unanswered, doubtful, leaked>>

(* Mutant: the recipients stay. *)
ResetSender(c) ==
  /\ from' = [from EXCEPT ![c] = Nobody]
  /\ UNCHANGED to

Reset(c) ==
  /\ from' = [from EXCEPT ![c] = Nobody]
  /\ to' = [to EXCEPT ![c] = {}]

(* The message is done with; a broken connection is followed by a new one. *)
Ends(c) ==
  /\ Reset(c)
  /\ data' = [data EXCEPT ![c] = Ready]
  /\ lost' = lost \ {c}

(* The verdict is the answer for all recipients.  Postfix removes a message *)
(* that was accepted and returns one that was refused.                      *)
Answer(c, verdict) ==
  /\ Ends(c)
  /\ queue' = IF c \in lost THEN queue ELSE [queue EXCEPT ![data[c].msg] = verdict]
  /\ UNCHANGED unanswered

(* RSET, or the connection breaks before DATA. *)
Aborts(c) ==
  /\ data[c].step = "envelope"
  /\ Ends(c)
  /\ UNCHANGED <<queue, mail, objects, used, unanswered, doubtful, leaked>>

InEnvelope(c) == data[c].step = "envelope" /\ data[c].ask = {}

(* No MIME message, a part that breaks off, or the look-up of the users or  *)
(* BeginTx fails.                                                           *)
DataFails(c) ==
  /\ InEnvelope(c)
  /\ Answer(c, "bounced")
  /\ UNCHANGED <<mail, objects, used, doubtful, leaked>>

(* Mutant: the id of another mail. *)
DataAnew(c, i) ==
  /\ InEnvelope(c)
  /\ used' = used \cup {i}
  /\ data' = [data EXCEPT ![c] =
       [step |-> "open", msg |-> @.msg, ask |-> {}, id |-> i,
        left |-> ParsedFiles[@.msg], file |-> Nobody]]
  /\ UNCHANGED <<queue, from, to, lost, mail, objects, unanswered, doubtful, leaked>>

(* The users are looked up, and the transaction inserts the mail, its       *)
(* recipients and the rows of the users.                                    *)
Data(c, i) ==
  /\ InEnvelope(c) /\ ~ InsertFails(data[c].msg)
  /\ i \notin used
  /\ used' = used \cup {i}
  /\ data' = [data EXCEPT ![c] =
       [step |-> "open", msg |-> @.msg, ask |-> {}, id |-> i,
        left |-> ParsedFiles[@.msg], file |-> Nobody]]
  /\ UNCHANGED <<queue, from, to, lost, mail, objects, unanswered, doubtful, leaked>>

Stage(c, step, F, f) ==
  data' = [data EXCEPT ![c] =
    [step |-> step, msg |-> @.msg, ask |-> {}, id |-> @.id, left |-> F, file |-> f]]

UploadAttachment(c, f) ==
  /\ data[c].step = "open" /\ f \in data[c].left
  /\ objects' = UploadObject(objects, data[c].id, f)
  /\ Stage(c, "uploaded", data[c].left \ {f}, f)
  /\ UNCHANGED <<queue, from, to, lost, mail, used, unanswered, doubtful, leaked>>

InsertAttachment(c) ==
  /\ data[c].step = "uploaded" /\ data[c].file \notin Empty
  /\ Stage(c, "open", data[c].left, Nobody)
  /\ UNCHANGED <<queue, from, to, lost, mail, objects, used, unanswered, doubtful, leaked>>

ObjectsOf(i) == {o \in objects : o[1] = i}

(* Mutant: nothing is removed. *)
KeepUploads(c) == UNCHANGED <<objects, leaked>>

(* The keys stored so far are removed; an error of the storage is ignored. *)
RemoveUploads(c) ==
  \E O \in SUBSET ObjectsOf(data[c].id) :
    /\ objects' = (objects \ ObjectsOf(data[c].id)) \cup O
    /\ leaked' = leaked \cup {i \in {data[c].id} : O # {}}

(* Mutant: an upload that fails is passed over. *)
UploadSkipped(c, f) ==
  /\ data[c].step = "open" /\ f \in data[c].left
  /\ Stage(c, "open", data[c].left \ {f}, Nobody)
  /\ UNCHANGED <<queue, from, to, lost, mail, objects, used, unanswered, doubtful, leaked>>

(* The storage answers with an error, and may have the object all the same. *)
UploadFails(c, f) ==
  /\ data[c].step = "open" /\ f \in data[c].left
  /\ Answer(c, "bounced")
  /\ \/ RemoveUploads(c)
     \/ /\ objects' = UploadObject(objects \ ObjectsOf(data[c].id), data[c].id, f)
        /\ leaked' = leaked \cup {data[c].id}
  /\ UNCHANGED <<mail, used, doubtful>>

InsertAttachmentFails(c) ==
  /\ data[c].step = "uploaded"
  /\ Answer(c, "bounced")
  /\ RemoveUploads(c)
  /\ UNCHANGED <<mail, used, doubtful>>

AllUploaded(c) == data[c].step = "open" /\ data[c].left = {}
Committed(c) ==
  mail' = [mail EXCEPT ![data[c].id] =
    [msg |-> data[c].msg, from |-> from[c], to |-> to[c],
     body |-> Parsed[data[c].msg].body]]

(* Mutant: the error of the commit is not looked at. *)
CommitUnchecked(c) ==
  /\ data[c].step = "open"
  /\ Answer(c, "delivered")
  /\ RemoveUploads(c)
  /\ UNCHANGED <<mail, used, doubtful>>

(* Mutant: a deadline that passes after the commit is an error as well. *)
CommitLate(c) ==
  /\ AllUploaded(c)
  /\ Committed(c)
  /\ Answer(c, "bounced")
  /\ UNCHANGED <<objects, used, doubtful, leaked>>

(* A statement before the files or the commit fails. *)
CommitFails(c) ==
  /\ data[c].step = "open"
  /\ Answer(c, "bounced")
  /\ RemoveUploads(c)
  /\ UNCHANGED <<mail, used, doubtful>>

(* The commit is done, but an error is seen instead of its answer. *)
CommitLost(c) ==
  /\ AllUploaded(c)
  /\ Committed(c)
  /\ doubtful' = doubtful \cup {data[c].id}
  /\ Answer(c, "bounced")
  /\ RemoveUploads(c)
  /\ UNCHANGED used

Commit(c) ==
  /\ AllUploaded(c)
  /\ Committed(c)
  /\ Stage(c, "done", {}, Nobody)
  /\ UNCHANGED <<queue, from, to, lost, objects, used, unanswered, doubtful, leaked>>

(* Mutant: Postfix is asked to try again. *)
AcceptsLater(c) ==
  /\ data[c].step = "done"
  /\ Answer(c, "queued")
  /\ UNCHANGED <<mail, objects, used, doubtful, leaked>>

Accepts(c) ==
  /\ data[c].step = "done"
  /\ Answer(c, "delivered")
  /\ UNCHANGED <<mail, objects, used, doubtful, leaked>>

(* The connection breaks, or Postfix waits no longer. *)
LosesConnection(c) ==
  /\ data[c].step \in {"open", "uploaded", "done"}
  /\ lost' = lost \cup {c}
  /\ unanswered' = unanswered \cup {data[c].msg}
  /\ UNCHANGED <<queue, from, to, data, mail, objects, used, doubtful, leaked>>

(* The service stops: the transaction is undone, the objects stay. *)
Stops(c) ==
  /\ data[c].step \in {"open", "uploaded", "done"}
  /\ Ends(c)
  /\ unanswered' = unanswered \cup {data[c].msg}
  /\ leaked' = leaked \cup {data[c].id}
  /\ UNCHANGED <<queue, mail, objects, used, doubtful>>

-----------------------------------------------------------------------------
Next ==
  \E c \in Connections :
    \/ \E m \in Messages : Mail(c, m)
    \/ \E a \in Addresses : Rcpt(c, a)
    \/ Aborts(c)
    \/ DataFails(c)
    \/ \E i \in Ids : Data(c, i)
    \/ \E f \in Files : UploadAttachment(c, f) \/ UploadFails(c, f)
    \/ InsertAttachment(c)
    \/ InsertAttachmentFails(c)
    \/ CommitFails(c)
    \/ CommitLost(c)
    \/ Commit(c)
    \/ Accepts(c)
    \/ LosesConnection(c)
    \/ Stops(c)

Spec == Init /\ [][Next]_vars

-----------------------------------------------------------------------------
(* Types; a delivery works on an id of its own, whose mail appears with the *)
(* commit.                                                                  *)
TypeOK ==
  /\ queue \in [Messages -> {"queued", "delivered", "bounced"}]
  /\ from \in [Connections -> Senders \cup {Nobody}]
  /\ to \in [Connections -> SUBSET Addresses]
  /\ data \in [Connections ->
       [step : {"ready", "envelope", "open", "uploaded", "done"},
        msg : Messages \cup {Nobody}, ask : SUBSET Addresses, id : used \cup {Nobody},
        left : SUBSET Files, file : Files \cup {Nobody}]]
  /\ mail \in [Ids -> Rows \cup {Nobody}]
  /\ objects \subseteq Ids \X Files
  /\ lost \subseteq Connections /\ used \subseteq Ids
  /\ unanswered \subseteq Messages /\ doubtful \subseteq used /\ leaked \subseteq used
  /\ \A c \in Connections : data[c].step \in {"open", "uploaded"} => mail[data[c].id] = Nobody

(* The places of the texts in a mail: what is not an attachment, nor in one. *)
TextsIn(M) ==
  {k \in DOMAIN M :
     /\ M[k].content # NoText
     /\ \/ k \in Walked(M) /\ PartsIn(M, k) = {}
        \/ /\ M[k].in \in Walked(M) /\ ~ isAttachment(M[k])
           /\ M[k].type \in {"plain", "html"} /\ M[k].decodes}

TextsOf == [m \in Messages |-> TextsIn(PartsOf[m])]

(* A mail has the sender and the recipients of its own message, whatever    *)
(* mails the connection carried before, and however they ended; and its     *)
(* body is a text of the message if there is one, the plain one where plain *)
(* text and HTML are alternatives.                                          *)
EnvelopeKept ==
  \A i \in Stored :
    LET m == mail[i].msg  parts == PartsOf[m] IN
      /\ mail[i].from = FromOf[m] /\ mail[i].to = RcptOf[m]
      /\ TextsOf[m] # {} =>
           \E k \in TextsOf[m] :
             /\ parts[k].content = mail[i].body
             /\ parts[k].type = "html" =>
                  \A j \in TextsOf[m] : parts[j].in = parts[k].in => parts[j].type = "html"

(* What Postfix need not send any more is in the mailbox of every recipient *)
(* who is a user.                                                           *)
DeliveredIsStored ==
  \A m \in Messages :
    queue[m] = "delivered" =>
      \E i \in Stored : mail[i].msg = m /\ Readers(mail[i].to) = Readers(RcptOf[m])

(* A message that was returned to its sender is in nobody's mailbox, unless *)
(* an answer was lost on the way: that of the commit, or of an earlier try. *)
BouncedIsGone ==
  \A i \in Stored \ doubtful :
    queue[mail[i].msg] = "bounced" => mail[i].msg \in unanswered

(* A message is in the mailboxes once, unless Postfix had to try again      *)
(* because it got no answer.                                                *)
StoredOnce ==
  \A i, j \in Stored :
    mail[i].msg = mail[j].msg /\ i # j => mail[i].msg \in unanswered

(* The files of a mail are in the storage; a commit that was taken for      *)
(* failed has them removed although the mail is there.                      *)
StoredHasFiles ==
  \A i \in Stored \ doubtful : Downloads(objects, i, ParsedFiles[mail[i].msg])

(* A delivery that failed leaves no object behind, unless the storage did   *)
(* not remove it or the service stopped.                                    *)
NoOrphan ==
  \A o \in objects :
    \/ o[1] \in Stored \cup leaked
    \/ \E c \in Connections : data[c].id = o[1]

=============================================================================
