-------------------------- MODULE ReceivingProofs --------------------------
(***************************************************************************)
(* What holds of Receiving for any messages, addresses, files and          *)
(* connections.  The inductive invariant says of each connection how far   *)
(* its envelope and its delivery are (Enveloped, WorkingAt, UploadedAt),   *)
(* and of each mail why it is there (Explained): Postfix knows of it, will *)
(* hear of it, or had no answer.                                           *)
(***************************************************************************)
EXTENDS Receiving, WellFoundedInduction, TLAPS

Delivery ==
  [step : {"ready", "envelope", "open", "uploaded", "done"},
   msg : Messages \cup {Nobody}, ask : SUBSET Addresses, id : Ids \cup {Nobody},
   left : SUBSET Files, file : Files \cup {Nobody}]

Typed ==
  /\ queue \in [Messages -> {"queued", "delivered", "bounced"}]
  /\ from \in [Connections -> Senders \cup {Nobody}]
  /\ to \in [Connections -> SUBSET Addresses]
  /\ data \in [Connections -> Delivery]
  /\ mail \in [Ids -> Rows \cup {Nobody}]
  /\ objects \subseteq Ids \X Files
  /\ lost \subseteq Connections /\ used \subseteq Ids
  /\ unanswered \subseteq Messages /\ doubtful \subseteq used /\ leaked \subseteq used

Active(c) == data[c].step # "ready"
Told(c)   == Active(c) /\ c \notin lost
InData(c) == data[c].step \in {"open", "uploaded", "done"}

(* The envelope of a Session is that of its message, as far as it has come. *)
Enveloped(c) ==
  /\ ~ Active(c) => to[c] = {} /\ data[c].msg = Nobody
  /\ Active(c) =>
       /\ data[c].msg \in Messages /\ from[c] = FromOf[data[c].msg]
       /\ data[c].ask \subseteq RcptOf[data[c].msg]
       /\ to[c] = RcptOf[data[c].msg] \ data[c].ask
  /\ InData(c) => data[c].ask = {}

(* What a delivery has done so far; while Postfix waits for its answer, the *)
(* message is in the queue.                                                 *)
WorkingAt(c) ==
  /\ InData(c) <=> data[c].id # Nobody
  /\ InData(c) => data[c].id \in used
  /\ data[c].step \in {"open", "uploaded"} => mail[data[c].id] = Nobody
  /\ data[c].step = "done" => mail[data[c].id] # Nobody /\ mail[data[c].id].msg = data[c].msg
  /\ c \in lost => InData(c) /\ data[c].msg \in unanswered
  /\ Told(c) => queue[data[c].msg] = "queued"

Working == \A c \in Connections : Enveloped(c) /\ WorkingAt(c)

OwnMail == \A c, d \in Connections : InData(c) /\ data[c].id = data[d].id => c = d
OneTold == \A c, d \in Connections : Told(c) /\ Told(d) /\ data[c].msg = data[d].msg => c = d

(* A mail is made of its message. *)
Made ==
  \A i \in Stored :
    /\ i \in used /\ mail[i].from = FromOf[mail[i].msg] /\ mail[i].to = RcptOf[mail[i].msg]
    /\ mail[i].body = Parsed[mail[i].msg].body

Has(i, F, f) == \E h \in F \cap SameKey(f) : <<i, h>> \in objects

(* The files of an open mail that are not left are in the storage. *)
UploadedAt(c) ==
  data[c].step \in {"open", "uploaded"} =>
    /\ data[c].left \subseteq ParsedFiles[data[c].msg]
    /\ \A f \in ParsedFiles[data[c].msg] \ data[c].left :
         Has(data[c].id, ParsedFiles[data[c].msg], f)

Uploaded == \A c \in Connections : UploadedAt(c)

(* Why a mail is there: Postfix got no answer once, knows that the message  *)
(* is delivered, took a doubtful one for failed, or is about to be told.    *)
Explained(i) ==
  \/ mail[i].msg \in unanswered
  \/ queue[mail[i].msg] = "delivered"
  \/ queue[mail[i].msg] = "bounced" /\ i \in doubtful
  \/ \E c \in Connections : Told(c) /\ data[c].step = "done" /\ data[c].id = i

Settled == \A i \in Stored : Explained(i)

IInv ==
  /\ Typed /\ Working /\ OwnMail /\ OneTold
  /\ Made /\ Uploaded /\ StoredHasFiles /\ Settled
  /\ StoredOnce /\ DeliveredIsStored /\ NoOrphan

-----------------------------------------------------------------------------
(* What the steps of a connection do to its variables. *)
LEMMA ReadyIs ==
  /\ Ready \in Delivery
  /\ Ready.step = "ready" /\ Ready.msg = Nobody /\ Ready.id = Nobody
BY DEF Ready, Delivery

(* The end of a message. *)
LEMMA EndsIs ==
  ASSUME Typed, NEW c \in Connections, Ends(c)
  PROVE  /\ data' \in [Connections -> Delivery]
         /\ from' \in [Connections -> Senders \cup {Nobody}]
         /\ to' \in [Connections -> SUBSET Addresses]
         /\ data'[c].step = "ready" /\ data'[c].msg = Nobody /\ data'[c].id = Nobody
         /\ to'[c] = {}
         /\ \A d \in Connections \ {c} :
              data'[d] = data[d] /\ from'[d] = from[d] /\ to'[d] = to[d]
         /\ lost' = lost \ {c}
<1>1. data \in [Connections -> Delivery] /\ data' = [data EXCEPT ![c] = Ready]
  BY DEF Typed, Ends
<1>2. data'[c] = Ready
  BY <1>1
<1>3. data' \in [Connections -> Delivery] /\ \A d \in Connections \ {c} : data'[d] = data[d]
  BY <1>1, ReadyIs
<1>4. /\ from' \in [Connections -> Senders \cup {Nobody}]
      /\ to' \in [Connections -> SUBSET Addresses] /\ to'[c] = {}
      /\ \A d \in Connections \ {c} : from'[d] = from[d] /\ to'[d] = to[d]
      /\ lost' = lost \ {c}
  BY DEF Typed, Ends, Reset
<1> QED
  BY <1>2, <1>3, <1>4, ReadyIs

(* A delivery goes on to its next step. *)
LEMMA StageIs ==
  ASSUME Typed, NEW c \in Connections, NEW F \in SUBSET Files, NEW f \in Files \cup {Nobody},
         NEW step \in {"open", "uploaded", "done"}, Stage(c, step, F, f)
  PROVE  /\ data' \in [Connections -> Delivery]
         /\ data'[c].step = step /\ data'[c].msg = data[c].msg /\ data'[c].ask = {}
         /\ data'[c].id = data[c].id /\ data'[c].left = F
         /\ \A d \in Connections \ {c} : data'[d] = data[d]
<1>1. PICK q : q = [step |-> step, msg |-> data[c].msg, ask |-> {}, id |-> data[c].id,
                    left |-> F, file |-> f]
  OBVIOUS
<1>2. data \in [Connections -> Delivery] /\ data' = [data EXCEPT ![c] = q]
  BY <1>1 DEF Typed, Stage
<1>3. data[c] \in Delivery
  BY <1>2
<1>4. q \in Delivery /\ q.step = step /\ q.msg = data[c].msg /\ q.ask = {}
       /\ q.id = data[c].id /\ q.left = F
  BY <1>1, <1>3 DEF Delivery
<1>5. data'[c] = q
  BY <1>2
<1> QED
  BY <1>2, <1>4, <1>5

(* The files that are read from a message are files. *)
LEMMA FilesAreFiles == \A m \in Messages : ParsedFiles[m] \subseteq Files
BY FilesAssumed DEF ParsedFiles

(* What the invariant says of the ids and messages at work, and of mails. *)
LEMMA Facts ==
  ASSUME IInv
  PROVE  /\ \A c \in Connections : InData(c) => data[c].id \in used /\ data[c].id \in Ids
         /\ \A c \in Connections : Active(c) => data[c].msg \in Messages
         /\ \A c, d \in Connections : InData(d) /\ c # d => data[d].id # data[c].id
         /\ \A i \in Stored : mail[i] \in Rows /\ mail[i].msg \in Messages
<1>1. Typed /\ Working /\ OwnMail
  BY DEF IInv
<1>2. \A i \in Stored : mail[i] \in Rows
  BY <1>1 DEF Typed, Stored
<1> QED
  BY <1>1, <1>2 DEF Typed, Working, WorkingAt, Enveloped, OwnMail, Rows

(* The message of a connection ends, and no mail appears or disappears. *)
LEMMA Quits ==
  ASSUME IInv, NEW c \in Connections,
         Active(c), Ends(c),
         objects' \subseteq Ids \X Files,
         \A i \in Ids \ {data[c].id}, f \in Files :
           <<i, f>> \in objects' <=> <<i, f>> \in objects,
         data[c].id \in Stored => objects' = objects,
         \A o \in objects' : o[1] = data[c].id => o[1] \in Stored \cup leaked',
         leaked \subseteq leaked', leaked' \subseteq used,
         NEW v \in {"bounced", "delivered"}, v = "delivered" <=> data[c].step = "done",
         \/ queue' = queue
         \/ c \notin lost /\ queue' = [queue EXCEPT ![data[c].msg] = v],
         data[c].step = "done" =>
           data[c].msg \in unanswered' \/ queue'[data[c].msg] = "delivered",
         unanswered \subseteq unanswered', unanswered' \subseteq Messages,
         UNCHANGED <<mail, used, doubtful>>
  PROVE  IInv'
<1> USE NobodyAssumption
<1>0. Typed /\ Working /\ OwnMail /\ OneTold /\ Made
       /\ Uploaded /\ StoredHasFiles /\ Settled
       /\ StoredOnce /\ DeliveredIsStored /\ NoOrphan
  BY DEF IInv
<1>a. Enveloped(c) /\ WorkingAt(c)
  BY <1>0 DEF Working
<1>b. data'[c].step = "ready" /\ data'[c].msg = Nobody /\ data'[c].id = Nobody /\ to'[c] = {}
  BY <1>0, EndsIs
<1>c. \A d \in Connections \ {c} : data'[d] = data[d] /\ from'[d] = from[d] /\ to'[d] = to[d]
  BY <1>0, EndsIs
<1>d. lost' = lost \ {c}
  BY <1>0, EndsIs
<1>e. /\ queue' \in [Messages -> {"queued", "delivered", "bounced"}]
      /\ queue'[data[c].msg] = queue[data[c].msg] \/ (Told(c) /\ queue'[data[c].msg] = v)
      /\ \A m \in Messages \ {data[c].msg} : queue'[m] = queue[m]
  <2>1. /\ queue \in [Messages -> {"queued", "delivered", "bounced"}]
        /\ data[c].msg \in Messages
    BY <1>0, Facts DEF Typed
  <2> QED
    BY <2>1 DEF Told
<1>f. Told(c) => queue[data[c].msg] = "queued"
  BY <1>a DEF WorkingAt
<1>1. Typed'
  <2>1. /\ data' \in [Connections -> Delivery]
        /\ from' \in [Connections -> Senders \cup {Nobody}]
        /\ to' \in [Connections -> SUBSET Addresses]
    BY <1>0, EndsIs
  <2> QED
    BY <1>0, <1>d, <1>e, <2>1 DEF Typed
<1>2. Working'
  <2> SUFFICES ASSUME NEW d \in Connections PROVE Enveloped(d)' /\ WorkingAt(d)'
    BY DEF Working
  <2>1. Enveloped(d) /\ WorkingAt(d)
    BY <1>0 DEF Working
  <2>2. CASE d = c
    BY <1>b, <1>d, <2>2 DEF Enveloped, WorkingAt, Active, InData, Told
  <2>3. CASE d # c
    <3>1. data'[d] = data[d] /\ from'[d] = from[d] /\ to'[d] = to[d]
      BY <1>c, <2>3
    <3>2. d \in lost' <=> d \in lost
      BY <1>d, <2>3
    <3>3. Enveloped(d)'
      BY <2>1, <3>1 DEF Enveloped, Active, InData
    <3>4. Told(d) => queue'[data[d].msg] = "queued"
      BY <1>0, <1>a, <1>e, <2>1, <2>3, Facts DEF Told, WorkingAt, OneTold
    <3> QED
      BY <2>1, <3>1, <3>2, <3>3, <3>4 DEF WorkingAt, InData, Told, Active
  <2> QED
    BY <2>2, <2>3
<1>3. OwnMail'
  BY <1>0, <1>b, <1>c, Facts DEF OwnMail, InData
<1>4. OneTold'
  BY <1>0, <1>b, <1>c, <1>d DEF OneTold, Told, Active
<1>5. Made'
  BY <1>0 DEF Made, Stored
<1>6. Uploaded'
  <2> SUFFICES ASSUME NEW d \in Connections PROVE UploadedAt(d)'
    BY DEF Uploaded
  <2>1. UploadedAt(d) /\ WorkingAt(d)
    BY <1>0 DEF Uploaded, Working
  <2>2. CASE d = c
    BY <1>b, <2>2 DEF UploadedAt
  <2>3. CASE d # c
    <3>1. data'[d] = data[d]
      BY <1>c, <2>3
    <3>2. CASE data[d].step \in {"open", "uploaded"}
      <4>1. data[d].id \in Ids \ {data[c].id} /\ ParsedFiles[data[d].msg] \subseteq Files
        BY <2>3, <3>2, Facts, FilesAreFiles DEF InData, Active
      <4> QED
        BY <2>1, <3>1, <3>2, <4>1 DEF UploadedAt, Has
    <3>3. CASE data[d].step \notin {"open", "uploaded"}
      BY <3>1, <3>3 DEF UploadedAt
    <3> QED
      BY <3>2, <3>3
  <2> QED
    BY <2>2, <2>3
<1>7. StoredHasFiles'
  <2>1. \A i \in Stored : ParsedFiles[mail[i].msg] \subseteq Files
    BY Facts, FilesAreFiles
  <2> QED
    BY <1>0, <2>1 DEF StoredHasFiles, Stored, Downloads
<1>8. Settled'
  <2> SUFFICES ASSUME NEW i \in Stored PROVE Explained(i)'
    BY DEF Settled, Stored
  <2>1. mail[i].msg \in Messages /\ Explained(i)
    BY <1>0, Facts DEF Settled
  <2>2. CASE mail[i].msg \in unanswered
    BY <2>2 DEF Explained
  <2>3. CASE \/ queue[mail[i].msg] = "delivered"
             \/ queue[mail[i].msg] = "bounced" /\ i \in doubtful
    BY <1>e, <1>f, <2>1, <2>3 DEF Explained
  <2>4. CASE \E d \in Connections : Told(d) /\ data[d].step = "done" /\ data[d].id = i
    <3>1. PICK d \in Connections : Told(d) /\ data[d].step = "done" /\ data[d].id = i
      BY <2>4
    <3>2. CASE d = c
      BY <1>a, <3>1, <3>2 DEF WorkingAt, Explained
    <3>3. CASE d # c
      <4>1. Told(d)' /\ data'[d].step = "done" /\ data'[d].id = i
        BY <1>c, <1>d, <3>1, <3>3 DEF Told, Active
      <4> QED
        BY <4>1 DEF Explained
    <3> QED
      BY <3>2, <3>3
  <2> QED
    BY <2>1, <2>2, <2>3, <2>4 DEF Explained
<1>9. StoredOnce'
  BY <1>0 DEF StoredOnce, Stored
<1>10. DeliveredIsStored'
  <2> SUFFICES ASSUME NEW m \in Messages, queue'[m] = "delivered"
               PROVE  \E i \in Stored : mail[i].msg = m
                        /\ Readers(mail[i].to) = Readers(RcptOf[m])
    BY DEF DeliveredIsStored, Stored
  <2>1. CASE queue[m] = "delivered"
    BY <1>0, <2>1 DEF DeliveredIsStored
  <2>2. CASE queue[m] # "delivered"
    <3>1. data[c].step = "done" /\ m = data[c].msg
      BY <1>e, <2>2
    <3>2. data[c].id \in Stored /\ mail[data[c].id].msg = m
      BY <1>a, <3>1, Facts DEF WorkingAt, InData, Stored
    <3> QED
      BY <1>0, <3>2 DEF Made
  <2> QED
    BY <2>1, <2>2
<1>11. NoOrphan'
  <2> SUFFICES ASSUME NEW o \in objects', o[1] \notin Stored, o[1] \notin leaked'
               PROVE  \E d \in Connections : data'[d].id = o[1]
    BY DEF NoOrphan, Stored
  <2>1. o[1] # data[c].id
    OBVIOUS
  <2>2. o \in objects
    <3>1. PICK i \in Ids, f \in Files : o = <<i, f>>
      OBVIOUS
    <3> QED
      BY <2>1, <3>1
  <2>3. PICK d \in Connections : data[d].id = o[1]
    BY <1>0, <2>2 DEF NoOrphan
  <2> QED
    BY <1>c, <2>1, <2>3
<1> QED
  BY <1>1, <1>2, <1>3, <1>4, <1>5, <1>6, <1>7, <1>8, <1>9, <1>10, <1>11 DEF IInv

(* MAIL and RCPT only change the envelope. *)
LEMMA MailIs ==
  ASSUME Typed, NEW c \in Connections, NEW m \in Messages, Mail(c, m)
  PROVE  /\ data' \in [Connections -> Delivery]
         /\ data'[c].step = "envelope" /\ data'[c].msg = m /\ data'[c].ask = RcptOf[m]
         /\ data'[c].id = Nobody
         /\ \A d \in Connections \ {c} : data'[d] = data[d]
         /\ from' \in [Connections -> Senders \cup {Nobody}] /\ from'[c] = FromOf[m]
         /\ \A d \in Connections \ {c} : from'[d] = from[d]
<1>1. PICK q : q = [step |-> "envelope", msg |-> m, ask |-> RcptOf[m], id |-> Nobody,
                    left |-> {}, file |-> Nobody]
  OBVIOUS
<1>2. data \in [Connections -> Delivery] /\ data' = [data EXCEPT ![c] = q]
  BY <1>1 DEF Typed, Mail
<1>3. q \in Delivery /\ q.step = "envelope" /\ q.msg = m /\ q.ask = RcptOf[m] /\ q.id = Nobody
  BY <1>1, MessagesAssumption DEF Delivery
<1>4. data'[c] = q
  BY <1>2
<1>5. FromOf[m] \in Senders
  BY MessagesAssumption
<1>6. from \in [Connections -> Senders \cup {Nobody}] /\ from' = [from EXCEPT ![c] = FromOf[m]]
  BY DEF Typed, Mail
<1> QED
  BY <1>2, <1>3, <1>4, <1>5, <1>6

LEMMA RcptIs ==
  ASSUME Typed, NEW c \in Connections, NEW a \in Addresses, Rcpt(c, a)
  PROVE  /\ data' \in [Connections -> Delivery]
         /\ data'[c].step = "envelope" /\ data'[c].msg = data[c].msg
         /\ data'[c].ask = data[c].ask \ {a} /\ data'[c].id = Nobody
         /\ \A d \in Connections \ {c} : data'[d] = data[d]
         /\ to' \in [Connections -> SUBSET Addresses] /\ to'[c] = to[c] \cup {a}
         /\ \A d \in Connections \ {c} : to'[d] = to[d]
<1>1. PICK q : q = [step |-> "envelope", msg |-> data[c].msg, ask |-> data[c].ask \ {a},
                    id |-> Nobody, left |-> {}, file |-> Nobody]
  OBVIOUS
<1>2. data \in [Connections -> Delivery] /\ data' = [data EXCEPT ![c] = q]
  BY <1>1 DEF Typed, Rcpt
<1>3. data[c] \in Delivery
  BY <1>2
<1>4. q \in Delivery /\ q.step = "envelope" /\ q.msg = data[c].msg
       /\ q.ask = data[c].ask \ {a} /\ q.id = Nobody
  BY <1>1, <1>3 DEF Delivery
<1>5. data'[c] = q
  BY <1>2
<1>6. to \in [Connections -> SUBSET Addresses] /\ to' = [to EXCEPT ![c] = @ \cup {a}]
  BY DEF Typed, Rcpt
<1> QED
  BY <1>2, <1>4, <1>5, <1>6

(* Postfix begins a message for which no other connection is about to answer. *)
LEMMA Mails ==
  ASSUME IInv, NEW c \in Connections,
         NEW m \in Messages, Mail(c, m)
  PROVE  IInv'
<1> USE NobodyAssumption
<1>0. Typed /\ Working /\ OwnMail /\ OneTold /\ Made
       /\ Uploaded /\ StoredHasFiles /\ Settled
       /\ StoredOnce /\ DeliveredIsStored /\ NoOrphan
  BY DEF IInv
<1>a. Enveloped(c) /\ WorkingAt(c)
  BY <1>0 DEF Working
<1>b. /\ data[c].step = "ready" /\ queue[m] = "queued"
      /\ \A d \in Connections : data[d].msg = m => d \in lost
      /\ UNCHANGED <<queue, to, lost, mail, objects, used, unanswered, doubtful, leaked>>
  BY DEF Mail
<1>c. /\ data'[c].step = "envelope" /\ data'[c].msg = m /\ data'[c].ask = RcptOf[m]
      /\ data'[c].id = Nobody /\ from'[c] = FromOf[m]
  BY <1>0, MailIs
<1>d. \A d \in Connections \ {c} : data'[d] = data[d] /\ from'[d] = from[d]
  BY <1>0, MailIs
<1>1. Typed'
  <2>1. /\ data' \in [Connections -> Delivery]
        /\ from' \in [Connections -> Senders \cup {Nobody}]
    BY <1>0, MailIs
  <2> QED
    BY <1>0, <1>b, <2>1 DEF Typed
<1>2. Working'
  <2> SUFFICES ASSUME NEW d \in Connections PROVE Enveloped(d)' /\ WorkingAt(d)'
    BY DEF Working
  <2>1. Enveloped(d) /\ WorkingAt(d)
    BY <1>0 DEF Working
  <2>2. CASE d = c
    <3>1. Enveloped(c)'
      BY <1>a, <1>b, <1>c, MessagesAssumption DEF Enveloped, Active, InData
    <3>2. WorkingAt(c)'
      BY <1>a, <1>b, <1>c DEF WorkingAt, Active, InData, Told
    <3> QED
      BY <2>2, <3>1, <3>2
  <2>3. CASE d # c
    <3>1. data'[d] = data[d] /\ from'[d] = from[d]
      BY <1>d, <2>3
    <3> QED
      BY <1>b, <2>1, <3>1 DEF Enveloped, WorkingAt, InData, Told, Active
  <2> QED
    BY <2>2, <2>3
<1>3. OwnMail'
  BY <1>0, <1>c, <1>d, Facts DEF OwnMail, InData
<1>4. OneTold'
  BY <1>0, <1>b, <1>c, <1>d DEF OneTold, Told, Active
<1>5. Made'
  BY <1>0, <1>b DEF Made, Stored
<1>6. Uploaded'
  <2> SUFFICES ASSUME NEW d \in Connections PROVE UploadedAt(d)'
    BY DEF Uploaded
  <2>1. UploadedAt(d) /\ WorkingAt(d)
    BY <1>0 DEF Uploaded, Working
  <2>2. CASE d = c
    BY <1>c, <2>2 DEF UploadedAt
  <2>3. CASE d # c
    BY <1>b, <1>d, <2>1, <2>3 DEF UploadedAt, Has
  <2> QED
    BY <2>2, <2>3
<1>7. StoredHasFiles'
  BY <1>0, <1>b DEF StoredHasFiles, Stored, Downloads
<1>8. Settled'
  <2> SUFFICES ASSUME NEW i \in Stored PROVE Explained(i)'
    BY <1>b DEF Settled, Stored
  <2>1. Explained(i)
    BY <1>0 DEF Settled
  <2>2. ASSUME NEW d \in Connections, Told(d), data[d].step = "done", data[d].id = i
        PROVE  Explained(i)'
    <3>1. d # c
      BY <1>b, <2>2
    <3> QED
      BY <1>b, <1>d, <2>2, <3>1 DEF Told, Active, Explained
  <2> QED
    BY <1>b, <2>1, <2>2 DEF Explained
<1>9. StoredOnce'
  BY <1>0, <1>b DEF StoredOnce, Stored
<1>10. DeliveredIsStored'
  BY <1>0, <1>b DEF DeliveredIsStored, Stored
<1>11. NoOrphan'
  <2>1. data[c].id = Nobody
    BY <1>a, <1>b DEF WorkingAt, InData
  <2>2. \A o \in objects : o[1] \in Ids
    BY <1>0 DEF Typed
  <2> QED
    BY <1>0, <1>b, <1>d, <2>1, <2>2 DEF NoOrphan, Stored
<1> QED
  BY <1>1, <1>2, <1>3, <1>4, <1>5, <1>6, <1>7, <1>8, <1>9, <1>10, <1>11 DEF IInv

(* A recipient. *)
LEMMA Recipients ==
  ASSUME IInv, NEW c \in Connections,
         NEW a \in Addresses, Rcpt(c, a)
  PROVE  IInv'
<1> USE NobodyAssumption
<1>0. Typed /\ Working /\ OwnMail /\ OneTold /\ Made
       /\ Uploaded /\ StoredHasFiles /\ Settled
       /\ StoredOnce /\ DeliveredIsStored /\ NoOrphan
  BY DEF IInv
<1>a. Enveloped(c) /\ WorkingAt(c)
  BY <1>0 DEF Working
<1>b. /\ data[c].step = "envelope" /\ a \in data[c].ask
      /\ UNCHANGED <<queue, from, lost, mail, objects, used, unanswered, doubtful, leaked>>
  BY DEF Rcpt
<1>c. /\ data'[c].step = "envelope" /\ data'[c].msg = data[c].msg
      /\ data'[c].ask = data[c].ask \ {a} /\ data'[c].id = Nobody
      /\ to'[c] = to[c] \cup {a}
  BY <1>0, RcptIs
<1>d. \A d \in Connections \ {c} : data'[d] = data[d] /\ to'[d] = to[d]
  BY <1>0, RcptIs
<1>1. Typed'
  <2>1. /\ data' \in [Connections -> Delivery]
        /\ to' \in [Connections -> SUBSET Addresses]
    BY <1>0, RcptIs
  <2> QED
    BY <1>0, <1>b, <2>1 DEF Typed
<1>2. Working'
  <2> SUFFICES ASSUME NEW d \in Connections PROVE Enveloped(d)' /\ WorkingAt(d)'
    BY DEF Working
  <2>1. Enveloped(d) /\ WorkingAt(d)
    BY <1>0 DEF Working
  <2>2. CASE d = c
    <3>1. Enveloped(c)'
      BY <1>a, <1>b, <1>c DEF Enveloped, Active, InData
    <3>2. WorkingAt(c)'
      BY <1>a, <1>b, <1>c DEF WorkingAt, Active, InData, Told
    <3> QED
      BY <2>2, <3>1, <3>2
  <2>3. CASE d # c
    <3>1. data'[d] = data[d] /\ to'[d] = to[d]
      BY <1>d, <2>3
    <3> QED
      BY <1>b, <2>1, <3>1 DEF Enveloped, WorkingAt, InData, Told, Active
  <2> QED
    BY <2>2, <2>3
<1>3. OwnMail'
  BY <1>0, <1>c, <1>d, Facts DEF OwnMail, InData
<1>4. OneTold'
  BY <1>0, <1>b, <1>c, <1>d DEF OneTold, Told, Active
<1>5. Made'
  BY <1>0, <1>b DEF Made, Stored
<1>6. Uploaded'
  <2> SUFFICES ASSUME NEW d \in Connections PROVE UploadedAt(d)'
    BY DEF Uploaded
  <2>1. UploadedAt(d) /\ WorkingAt(d)
    BY <1>0 DEF Uploaded, Working
  <2>2. CASE d = c
    BY <1>c, <2>2 DEF UploadedAt
  <2>3. CASE d # c
    BY <1>b, <1>d, <2>1, <2>3 DEF UploadedAt, Has
  <2> QED
    BY <2>2, <2>3
<1>7. StoredHasFiles'
  BY <1>0, <1>b DEF StoredHasFiles, Stored, Downloads
<1>8. Settled'
  <2> SUFFICES ASSUME NEW i \in Stored PROVE Explained(i)'
    BY <1>b DEF Settled, Stored
  <2>1. Explained(i)
    BY <1>0 DEF Settled
  <2>2. ASSUME NEW d \in Connections, Told(d), data[d].step = "done", data[d].id = i
        PROVE  Explained(i)'
    <3>1. d # c
      BY <1>b, <2>2
    <3> QED
      BY <1>b, <1>d, <2>2, <3>1 DEF Told, Active, Explained
  <2> QED
    BY <1>b, <2>1, <2>2 DEF Explained
<1>9. StoredOnce'
  BY <1>0, <1>b DEF StoredOnce, Stored
<1>10. DeliveredIsStored'
  BY <1>0, <1>b DEF DeliveredIsStored, Stored
<1>11. NoOrphan'
  <2>1. data[c].id = Nobody
    BY <1>a, <1>b DEF WorkingAt, InData
  <2>2. \A o \in objects : o[1] \in Ids
    BY <1>0 DEF Typed
  <2> QED
    BY <1>0, <1>b, <1>d, <2>1, <2>2 DEF NoOrphan, Stored
<1> QED
  BY <1>1, <1>2, <1>3, <1>4, <1>5, <1>6, <1>7, <1>8, <1>9, <1>10, <1>11 DEF IInv

(* DATA begins the transaction. *)
LEMMA DataIs ==
  ASSUME Typed, NEW c \in Connections, NEW i \in Ids, Data(c, i), data[c].msg \in Messages
  PROVE  /\ data' \in [Connections -> Delivery]
         /\ data'[c].step = "open" /\ data'[c].msg = data[c].msg /\ data'[c].ask = {}
         /\ data'[c].id = i /\ data'[c].left = ParsedFiles[data[c].msg]
         /\ \A d \in Connections \ {c} : data'[d] = data[d]
<1>1. PICK q : q = [step |-> "open", msg |-> data[c].msg, ask |-> {}, id |-> i,
                    left |-> ParsedFiles[data[c].msg], file |-> Nobody]
  OBVIOUS
<1>2. data \in [Connections -> Delivery] /\ data' = [data EXCEPT ![c] = q]
  BY <1>1 DEF Typed, Data
<1>3. q \in Delivery /\ q.step = "open" /\ q.msg = data[c].msg /\ q.ask = {}
       /\ q.id = i /\ q.left = ParsedFiles[data[c].msg]
  BY <1>1, FilesAreFiles DEF Delivery
<1>4. data'[c] = q
  BY <1>2
<1> QED
  BY <1>2, <1>3, <1>4

(* DATA, with an id that no mail has had. *)
LEMMA Begins ==
  ASSUME IInv, NEW c \in Connections,
         NEW i \in Ids, Data(c, i)
  PROVE  IInv'
<1> USE NobodyAssumption
<1>0. Typed /\ Working /\ OwnMail /\ OneTold /\ Made
       /\ Uploaded /\ StoredHasFiles /\ Settled
       /\ StoredOnce /\ DeliveredIsStored /\ NoOrphan
  BY DEF IInv
<1>a. Enveloped(c) /\ WorkingAt(c)
  BY <1>0 DEF Working
<1>b. /\ data[c].step = "envelope" /\ data[c].ask = {} /\ i \notin used
      /\ used' = used \cup {i}
      /\ UNCHANGED <<queue, from, to, lost, mail, objects, unanswered, doubtful, leaked>>
  BY DEF Data, InEnvelope
<1>c. /\ data'[c].step = "open" /\ data'[c].msg = data[c].msg /\ data'[c].ask = {}
      /\ data'[c].id = i /\ data'[c].left = ParsedFiles[data[c].msg]
  BY <1>0, <1>b, Facts, DataIs DEF Active
<1>d. \A d \in Connections \ {c} : data'[d] = data[d]
  BY <1>0, <1>b, Facts, DataIs DEF Active
<1>1. Typed'
  <2>1. data' \in [Connections -> Delivery]
    BY <1>0, <1>b, Facts, DataIs DEF Active
  <2> QED
    BY <1>0, <1>b, <2>1 DEF Typed
<1>2. Working'
  <2> SUFFICES ASSUME NEW d \in Connections PROVE Enveloped(d)' /\ WorkingAt(d)'
    BY DEF Working
  <2>1. Enveloped(d) /\ WorkingAt(d)
    BY <1>0 DEF Working
  <2>2. CASE d = c
    <3>1. Enveloped(c)'
      BY <1>a, <1>b, <1>c DEF Enveloped, Active, InData
    <3>2. mail[i] = Nobody
      BY <1>0, <1>b DEF Made, Stored
    <3>3. WorkingAt(c)'
      BY <1>a, <1>b, <1>c, <3>2 DEF WorkingAt, Active, InData, Told
    <3> QED
      BY <2>2, <3>1, <3>3
  <2>3. CASE d # c
    <3>1. data'[d] = data[d]
      BY <1>d, <2>3
    <3> QED
      BY <1>b, <2>1, <3>1 DEF Enveloped, WorkingAt, InData, Told, Active
  <2> QED
    BY <2>2, <2>3
<1>3. OwnMail'
  <2> SUFFICES ASSUME NEW d \in Connections, NEW e \in Connections, InData(d)',
                      data'[d].id = data'[e].id
               PROVE  d = e
    BY DEF OwnMail
  <2>1. \A g \in Connections \ {c} : data[g].id # i
    BY <1>0, <1>b, NobodyAssumption DEF Working, WorkingAt
  <2>2. CASE d = c \/ e = c
    BY <1>c, <1>d, <2>1, <2>2
  <2>3. CASE d # c /\ e # c
    BY <1>0, <1>d, <2>3 DEF OwnMail, InData
  <2> QED
    BY <2>2, <2>3
<1>4. OneTold'
  BY <1>0, <1>b, <1>c, <1>d DEF OneTold, Told, Active
<1>5. Made'
  BY <1>0, <1>b DEF Made, Stored
<1>6. Uploaded'
  <2> SUFFICES ASSUME NEW d \in Connections PROVE UploadedAt(d)'
    BY DEF Uploaded
  <2>1. UploadedAt(d) /\ WorkingAt(d)
    BY <1>0 DEF Uploaded, Working
  <2>2. CASE d = c
    BY <1>c, <2>2 DEF UploadedAt
  <2>3. CASE d # c
    BY <1>b, <1>d, <2>1, <2>3 DEF UploadedAt, Has
  <2> QED
    BY <2>2, <2>3
<1>7. StoredHasFiles'
  BY <1>0, <1>b DEF StoredHasFiles, Stored, Downloads
<1>8. Settled'
  <2> SUFFICES ASSUME NEW j \in Stored PROVE Explained(j)'
    BY <1>b DEF Settled, Stored
  <2>1. Explained(j)
    BY <1>0 DEF Settled
  <2>2. ASSUME NEW d \in Connections, Told(d), data[d].step = "done", data[d].id = j
        PROVE  Explained(j)'
    <3>1. d # c
      BY <1>b, <2>2
    <3> QED
      BY <1>b, <1>d, <2>2, <3>1 DEF Told, Active, Explained
  <2> QED
    BY <1>b, <2>1, <2>2 DEF Explained
<1>9. StoredOnce'
  BY <1>0, <1>b DEF StoredOnce, Stored
<1>10. DeliveredIsStored'
  BY <1>0, <1>b DEF DeliveredIsStored, Stored
<1>11. NoOrphan'
  <2>1. data[c].id = Nobody
    BY <1>a, <1>b DEF WorkingAt, InData
  <2>2. \A o \in objects : o[1] \in Ids
    BY <1>0 DEF Typed
  <2> QED
    BY <1>0, <1>b, <1>d, <2>1, <2>2 DEF NoOrphan, Stored
<1> QED
  BY <1>1, <1>2, <1>3, <1>4, <1>5, <1>6, <1>7, <1>8, <1>9, <1>10, <1>11 DEF IInv

(* The files of an open mail are uploaded; the mail stays invisible. *)
LEMMA Uploading ==
  ASSUME IInv, NEW c \in Connections,
         data[c].step \in {"open", "uploaded"}, data'[c].step \in {"open", "uploaded"},
         data' \in [Connections -> Delivery], data'[c].ask = {},
         data'[c].msg = data[c].msg, data'[c].id = data[c].id,
         \A d \in Connections \ {c} : data'[d] = data[d],
         objects' \subseteq Ids \X Files,
         \A i \in Ids \ {data[c].id}, f \in Files :
           <<i, f>> \in objects' <=> <<i, f>> \in objects,
         UploadedAt(c)',
         UNCHANGED <<queue, from, to, lost, mail, used, unanswered, doubtful, leaked>>
  PROVE  IInv'
<1> USE NobodyAssumption
<1>0. Typed /\ Working /\ OwnMail /\ OneTold /\ Made
       /\ Uploaded /\ StoredHasFiles /\ Settled
       /\ StoredOnce /\ DeliveredIsStored /\ NoOrphan
  BY DEF IInv
<1>a. Enveloped(c) /\ WorkingAt(c)
  BY <1>0 DEF Working
<1>b. \A d \in Connections : data'[d].id = data[d].id /\ data'[d].msg = data[d].msg
        /\ (InData(d)' <=> InData(d)) /\ (Told(d)' <=> Told(d))
        /\ (data[d].step = "done" => data'[d].step = "done")
  BY DEF InData, Told, Active
<1>1. Typed'
  BY <1>0 DEF Typed
<1>2. Working'
  <2> SUFFICES ASSUME NEW d \in Connections PROVE Enveloped(d)' /\ WorkingAt(d)'
    BY DEF Working
  <2>1. Enveloped(d) /\ WorkingAt(d)
    BY <1>0 DEF Working
  <2>2. CASE d = c
    <3>1. Enveloped(c)'
      BY <1>a DEF Enveloped, Active, InData
    <3>2. WorkingAt(c)'
      BY <1>a DEF WorkingAt, Active, InData, Told
    <3> QED
      BY <2>2, <3>1, <3>2
  <2>3. CASE d # c
    <3>1. data'[d] = data[d]
      BY <2>3
    <3> QED
      BY <2>1, <3>1 DEF Enveloped, WorkingAt, InData, Told, Active
  <2> QED
    BY <2>2, <2>3
<1>3. OwnMail'
  BY <1>0, <1>b DEF OwnMail
<1>4. OneTold'
  BY <1>0, <1>b DEF OneTold
<1>5. Made'
  BY <1>0 DEF Made, Stored
<1>6. Uploaded'
  <2> SUFFICES ASSUME NEW d \in Connections PROVE UploadedAt(d)'
    BY DEF Uploaded
  <2>1. UploadedAt(d) /\ WorkingAt(d)
    BY <1>0 DEF Uploaded, Working
  <2>2. CASE d = c
    BY <2>2
  <2>3. CASE d # c
    <3>1. data'[d] = data[d]
      BY <2>3
    <3>2. CASE data[d].step \in {"open", "uploaded"}
      <4>1. data[d].id \in Ids \ {data[c].id} /\ ParsedFiles[data[d].msg] \subseteq Files
        BY <2>3, <3>2, Facts, FilesAreFiles DEF InData, Active
      <4> QED
        BY <2>1, <3>1, <3>2, <4>1 DEF UploadedAt, Has
    <3>3. CASE data[d].step \notin {"open", "uploaded"}
      BY <3>1, <3>3 DEF UploadedAt
    <3> QED
      BY <3>2, <3>3
  <2> QED
    BY <2>2, <2>3
<1>7. StoredHasFiles'
  <2>1. data[c].id \notin Stored
    BY <1>a DEF WorkingAt, Stored
  <2>2. \A i \in Stored : ParsedFiles[mail[i].msg] \subseteq Files
    BY Facts, FilesAreFiles
  <2> QED
    BY <1>0, <2>1, <2>2 DEF StoredHasFiles, Stored, Downloads
<1>8. Settled'
  <2> SUFFICES ASSUME NEW i \in Stored PROVE Explained(i)'
    BY DEF Settled, Stored
  <2>1. Explained(i)
    BY <1>0 DEF Settled
  <2> QED
    BY <1>b, <2>1 DEF Explained
<1>9. StoredOnce'
  BY <1>0 DEF StoredOnce, Stored
<1>10. DeliveredIsStored'
  BY <1>0 DEF DeliveredIsStored, Stored
<1>11. NoOrphan'
  <2> SUFFICES ASSUME NEW o \in objects', o[1] # data[c].id
               PROVE  \/ o[1] \in Stored \cup leaked
                      \/ \E d \in Connections : data[d].id = o[1]
    BY <1>b DEF NoOrphan, Stored
  <2>1. o \in objects
    <3>1. PICK i \in Ids, f \in Files : o = <<i, f>>
      OBVIOUS
    <3> QED
      BY <3>1
  <2> QED
    BY <1>0, <2>1 DEF NoOrphan
<1> QED
  BY <1>1, <1>2, <1>3, <1>4, <1>5, <1>6, <1>7, <1>8, <1>9, <1>10, <1>11 DEF IInv

(* The commit makes a mail of the message and its envelope. *)
LEMMA CommitIs ==
  ASSUME IInv, NEW c \in Connections, AllUploaded(c), Committed(c)
  PROVE  /\ data[c].step = "open" /\ data[c].left = {}
         /\ data[c].id \in Ids /\ data[c].id \in used /\ data[c].msg \in Messages
         /\ mail[data[c].id] = Nobody
         /\ mail' \in [Ids -> Rows \cup {Nobody}]
         /\ mail'[data[c].id] # Nobody
         /\ mail'[data[c].id].msg = data[c].msg
         /\ mail'[data[c].id].from = FromOf[data[c].msg]
         /\ mail'[data[c].id].to = RcptOf[data[c].msg]
         /\ mail'[data[c].id].body = Parsed[data[c].msg].body
         /\ \A i \in Ids \ {data[c].id} : mail'[i] = mail[i]
<1>1. Typed /\ Enveloped(c) /\ WorkingAt(c) /\ data[c].step = "open" /\ data[c].left = {}
  BY DEF IInv, Working, AllUploaded
<1>2. /\ data[c].id \in Ids /\ data[c].id \in used /\ data[c].msg \in Messages
      /\ mail[data[c].id] = Nobody
  BY <1>1, Facts DEF WorkingAt, InData, Active
<1>3. from[c] = FromOf[data[c].msg] /\ to[c] = RcptOf[data[c].msg]
  BY <1>1 DEF Enveloped, Active, InData
<1>4. PICK r : r = [msg |-> data[c].msg, from |-> from[c], to |-> to[c],
                    body |-> Parsed[data[c].msg].body]
  OBVIOUS
<1>5. mail \in [Ids -> Rows \cup {Nobody}] /\ mail' = [mail EXCEPT ![data[c].id] = r]
  BY <1>1, <1>4 DEF Typed, Committed
<1>6. r \in Rows
  BY <1>2, <1>3, <1>4, MessagesAssumption DEF Rows, Bodies
<1>7. /\ r # Nobody /\ r.msg = data[c].msg /\ r.from = FromOf[data[c].msg]
      /\ r.to = RcptOf[data[c].msg] /\ r.body = Parsed[data[c].msg].body
  BY <1>3, <1>4, <1>6, NobodyIsNoRow
<1>8. mail'[data[c].id] = r
  BY <1>2, <1>5
<1> QED
  BY <1>1, <1>2, <1>5, <1>6, <1>7, <1>8

(* Before its commit no other mail of a message can be there but one that    *)
(* Postfix got no answer for.                                                *)
LEMMA FirstOfItsMessage ==
  ASSUME IInv, NEW c \in Connections, data[c].step \in {"envelope", "open", "uploaded"},
         NEW i \in Stored, mail[i].msg = data[c].msg
  PROVE  data[c].msg \in unanswered \/ (c \in lost /\ data[c].step # "envelope")
<1>1. Enveloped(c) /\ WorkingAt(c) /\ Explained(i) /\ OneTold
  BY DEF IInv, Working, Settled
<1> SUFFICES ASSUME c \notin lost, data[c].msg \notin unanswered PROVE FALSE
  BY <1>1 DEF WorkingAt, InData
<1>2. Told(c) /\ queue[data[c].msg] = "queued"
  BY <1>1 DEF WorkingAt, Told, Active
<1>3. PICK d \in Connections : Told(d) /\ data[d].step = "done" /\ data[d].id = i
  BY <1>1, <1>2 DEF Explained
<1>4. data[d].msg = data[c].msg
  BY <1>3 DEF IInv, Working, WorkingAt
<1> QED
  BY <1>1, <1>2, <1>3, <1>4 DEF OneTold

(* The commit: the mail, whose files are all uploaded, appears. *)
LEMMA Commits ==
  ASSUME IInv, NEW c \in Connections,
         Commit(c)
  PROVE  IInv'
<1> USE NobodyAssumption
<1>0. Typed /\ Working /\ OwnMail /\ OneTold /\ Made
       /\ Uploaded /\ StoredHasFiles /\ Settled
       /\ StoredOnce /\ DeliveredIsStored /\ NoOrphan
  BY DEF IInv
<1>a. Enveloped(c) /\ WorkingAt(c)
  BY <1>0 DEF Working
<1>b. /\ data[c].step = "open" /\ data[c].left = {} /\ data[c].id \in Ids
      /\ data[c].id \in used /\ data[c].msg \in Messages /\ mail[data[c].id] = Nobody
  BY CommitIs DEF Commit
<1>c. /\ mail'[data[c].id] # Nobody /\ mail'[data[c].id].msg = data[c].msg
      /\ mail'[data[c].id].from = FromOf[data[c].msg]
      /\ mail'[data[c].id].to = RcptOf[data[c].msg]
      /\ mail'[data[c].id].body = Parsed[data[c].msg].body
      /\ \A i \in Ids \ {data[c].id} : mail'[i] = mail[i]
  BY CommitIs DEF Commit
<1>d. \A d \in Connections \ {c} : data'[d] = data[d]
  BY <1>0, <1>b, StageIs DEF Commit
<1>e. /\ data'[c].step = "done" /\ data'[c].msg = data[c].msg /\ data'[c].ask = {}
      /\ data'[c].id = data[c].id
  BY <1>0, <1>b, StageIs DEF Commit
<1>f. UNCHANGED <<queue, from, to, lost, objects, used, unanswered, doubtful, leaked>>
  BY DEF Commit
<1>1. Typed'
  <2>1. data' \in [Connections -> Delivery]
    BY <1>0, <1>b, StageIs DEF Commit
  <2>2. mail' \in [Ids -> Rows \cup {Nobody}]
    BY CommitIs DEF Commit
  <2> QED
    BY <1>0, <1>f, <2>1, <2>2 DEF Typed
<1>2. Working'
  <2> SUFFICES ASSUME NEW d \in Connections PROVE Enveloped(d)' /\ WorkingAt(d)'
    BY DEF Working
  <2>1. Enveloped(d) /\ WorkingAt(d)
    BY <1>0 DEF Working
  <2>2. CASE d = c
    <3>1. Enveloped(c)'
      BY <1>a, <1>b, <1>e, <1>f DEF Enveloped, Active, InData
    <3>2. WorkingAt(c)'
      BY <1>a, <1>b, <1>c, <1>e, <1>f DEF WorkingAt, Active, InData, Told
    <3> QED
      BY <2>2, <3>1, <3>2
  <2>3. CASE d # c
    <3>1. data'[d] = data[d] /\ (InData(d) => mail'[data[d].id] = mail[data[d].id])
      BY <1>c, <1>d, <2>3, Facts
    <3> QED
      BY <1>f, <2>1, <3>1 DEF Enveloped, WorkingAt, InData, Told, Active
  <2> QED
    BY <2>2, <2>3
<1>3. OwnMail'
  BY <1>0, <1>b, <1>d, <1>e DEF OwnMail, InData
<1>4. OneTold'
  BY <1>0, <1>b, <1>d, <1>e, <1>f DEF OneTold, Told, Active
<1>5. Made'
  BY <1>0, <1>b, <1>c, <1>f DEF Made, Stored
<1>6. Uploaded'
  <2> SUFFICES ASSUME NEW d \in Connections PROVE UploadedAt(d)'
    BY DEF Uploaded
  <2>1. UploadedAt(d) /\ WorkingAt(d)
    BY <1>0 DEF Uploaded, Working
  <2>2. CASE d = c
    BY <1>e, <2>2 DEF UploadedAt
  <2>3. CASE d # c
    BY <1>d, <1>f, <2>1, <2>3 DEF UploadedAt, Has
  <2> QED
    BY <2>2, <2>3
<1>7. StoredHasFiles'
  <2> SUFFICES ASSUME NEW i \in Ids, mail'[i] # Nobody, i \notin doubtful
               PROVE  Downloads(objects, i, ParsedFiles[mail'[i].msg])
    BY <1>f DEF StoredHasFiles, Stored, Downloads
  <2>1. CASE i = data[c].id
    BY <1>0, <1>b, <1>c, <2>1 DEF Uploaded, UploadedAt, Has, Downloads
  <2>2. CASE i # data[c].id
    BY <1>0, <1>c, <2>2 DEF StoredHasFiles, Stored
  <2> QED
    BY <2>1, <2>2
<1>8. Settled'
  <2> SUFFICES ASSUME NEW i \in Ids, mail'[i] # Nobody PROVE Explained(i)'
    BY DEF Settled, Stored
  <2>1. CASE i = data[c].id
    BY <1>a, <1>b, <1>c, <1>e, <1>f, <2>1 DEF WorkingAt, Told, Active, Explained
  <2>2. CASE i # data[c].id
    <3>1. Explained(i) /\ mail'[i] = mail[i]
      BY <1>0, <1>c, <2>2 DEF Settled, Stored
    <3>2. ASSUME NEW d \in Connections, Told(d), data[d].step = "done", data[d].id = i
          PROVE  Explained(i)'
      <4>1. d # c
        BY <2>2, <3>2
      <4> QED
        BY <1>d, <1>f, <3>2, <4>1 DEF Told, Active, Explained
    <3> QED
      BY <1>f, <3>1, <3>2 DEF Explained
  <2> QED
    BY <2>1, <2>2
<1>9. StoredOnce'
  <2> SUFFICES ASSUME NEW i \in Ids, NEW j \in Ids, mail'[i] # Nobody, mail'[j] # Nobody,
                      mail'[i].msg = mail'[j].msg, i # j, mail'[i].msg \notin unanswered
               PROVE  FALSE
    BY <1>f DEF StoredOnce, Stored
  <2>1. \A k \in Ids \ {data[c].id} :
          mail'[k] # Nobody => k \in Stored /\ mail'[k].msg = mail[k].msg
    BY <1>c DEF Stored
  <2>2. \A k \in Stored : mail[k].msg = data[c].msg => data[c].msg \in unanswered
    BY <1>a, <1>b, FirstOfItsMessage DEF WorkingAt
  <2> QED
    BY <1>0, <1>c, <2>1, <2>2 DEF StoredOnce
<1>10. DeliveredIsStored'
  BY <1>0, <1>b, <1>c, <1>f DEF DeliveredIsStored, Stored
<1>11. NoOrphan'
  <2>1. \A d \in Connections : data'[d].id = data[d].id
    BY <1>d, <1>e
  <2>2. \A i \in Stored : mail'[i] # Nobody
    BY <1>c DEF Stored
  <2> QED
    BY <1>0, <1>f, <2>1, <2>2 DEF NoOrphan, Stored
<1> QED
  BY <1>1, <1>2, <1>3, <1>4, <1>5, <1>6, <1>7, <1>8, <1>9, <1>10, <1>11 DEF IInv

(* Clearing the uploads takes nothing from other mails. *)
LEMMA RemoveIs ==
  ASSUME Typed, NEW c \in Connections, RemoveUploads(c), data[c].id \in used
  PROVE  /\ objects' \subseteq objects
         /\ \A i \in Ids \ {data[c].id}, f \in Files :
              <<i, f>> \in objects' <=> <<i, f>> \in objects
         /\ leaked \subseteq leaked' /\ leaked' \subseteq used
         /\ \A o \in objects' : o[1] = data[c].id => o[1] \in leaked'
<1>1. PICK O \in SUBSET ObjectsOf(data[c].id) :
        /\ objects' = (objects \ ObjectsOf(data[c].id)) \cup O
        /\ leaked' = leaked \cup {i \in {data[c].id} : O # {}}
  BY DEF RemoveUploads
<1> QED
  BY <1>1 DEF Typed, ObjectsOf

(* The commit is done, but Postfix is told that it failed. *)
LEMMA CommitsLost ==
  ASSUME IInv, NEW c \in Connections,
         CommitLost(c)
  PROVE  IInv'
<1> USE NobodyAssumption
<1>0. Typed /\ Working /\ OwnMail /\ OneTold /\ Made
       /\ Uploaded /\ StoredHasFiles /\ Settled
       /\ StoredOnce /\ DeliveredIsStored /\ NoOrphan
  BY DEF IInv
<1>a. Enveloped(c) /\ WorkingAt(c)
  BY <1>0 DEF Working
<1>b. /\ data[c].step = "open" /\ data[c].left = {} /\ data[c].id \in Ids
      /\ data[c].id \in used /\ data[c].msg \in Messages /\ mail[data[c].id] = Nobody
  BY CommitIs DEF CommitLost
<1>c. /\ mail'[data[c].id] # Nobody /\ mail'[data[c].id].msg = data[c].msg
      /\ mail'[data[c].id].from = FromOf[data[c].msg]
      /\ mail'[data[c].id].to = RcptOf[data[c].msg]
      /\ mail'[data[c].id].body = Parsed[data[c].msg].body
      /\ \A i \in Ids \ {data[c].id} : mail'[i] = mail[i]
  BY CommitIs DEF CommitLost
<1>d. /\ \A d \in Connections \ {c} : data'[d] = data[d] /\ from'[d] = from[d] /\ to'[d] = to[d]
      /\ lost' = lost \ {c}
  BY <1>0, EndsIs DEF CommitLost, Answer
<1>e. data'[c].step = "ready" /\ data'[c].msg = Nobody /\ data'[c].id = Nobody /\ to'[c] = {}
  BY <1>0, EndsIs DEF CommitLost, Answer
<1>f. /\ objects' \subseteq objects
      /\ \A i \in Ids \ {data[c].id}, f \in Files :
           <<i, f>> \in objects' <=> <<i, f>> \in objects
      /\ leaked \subseteq leaked' /\ leaked' \subseteq used
      /\ \A o \in objects' : o[1] = data[c].id => o[1] \in leaked'
  BY <1>0, <1>b, RemoveIs DEF CommitLost
<1>g. UNCHANGED <<used, unanswered>> /\ doubtful' = doubtful \cup {data[c].id}
  BY DEF CommitLost, Answer
<1>h. /\ queue' \in [Messages -> {"queued", "delivered", "bounced"}]
      /\ c \in lost => queue' = queue
      /\ c \notin lost => queue'[data[c].msg] = "bounced"
      /\ \A m \in Messages \ {data[c].msg} : queue'[m] = queue[m]
  BY <1>0, <1>b DEF Typed, CommitLost, Answer
<1>1. Typed'
  <2>1. /\ data' \in [Connections -> Delivery]
        /\ from' \in [Connections -> Senders \cup {Nobody}]
        /\ to' \in [Connections -> SUBSET Addresses]
    BY <1>0, EndsIs DEF CommitLost, Answer
  <2>2. mail' \in [Ids -> Rows \cup {Nobody}]
    BY CommitIs DEF CommitLost
  <2> QED
    BY <1>0, <1>b, <1>d, <1>f, <1>g, <1>h, <2>1, <2>2 DEF Typed
<1>2. Working'
  <2> SUFFICES ASSUME NEW d \in Connections PROVE Enveloped(d)' /\ WorkingAt(d)'
    BY DEF Working
  <2>1. Enveloped(d) /\ WorkingAt(d)
    BY <1>0 DEF Working
  <2>2. CASE d = c
    BY <1>d, <1>e, <2>2 DEF Enveloped, WorkingAt, Active, InData, Told
  <2>3. CASE d # c
    <3>1. data'[d] = data[d] /\ from'[d] = from[d] /\ to'[d] = to[d]
      BY <1>d, <2>3
    <3>2. d \in lost' <=> d \in lost
      BY <1>d, <2>3
    <3>3. Enveloped(d)'
      BY <2>1, <3>1 DEF Enveloped, Active, InData
    <3>4. Told(d) => queue'[data[d].msg] = "queued"
      <4> SUFFICES ASSUME Told(d) PROVE queue'[data[d].msg] = "queued"
        OBVIOUS
      <4>1. data[d].msg \in Messages /\ queue[data[d].msg] = "queued"
        BY <2>1, Facts DEF Told, WorkingAt
      <4>2. CASE c \in lost
        BY <1>h, <4>1, <4>2
      <4>3. CASE c \notin lost
        BY <1>0, <1>b, <1>h, <2>3, <4>1, <4>3 DEF OneTold, Told, Active
      <4> QED
        BY <4>2, <4>3
    <3>5. InData(d) => mail'[data[d].id] = mail[data[d].id]
      BY <1>c, <2>3, Facts
    <3> QED
      BY <1>g, <2>1, <3>1, <3>2, <3>3, <3>4, <3>5 DEF WorkingAt, InData, Told, Active
  <2> QED
    BY <2>2, <2>3
<1>3. OwnMail'
  BY <1>0, <1>d, <1>e, Facts DEF OwnMail, InData
<1>4. OneTold'
  BY <1>0, <1>d, <1>e DEF OneTold, Told, Active
<1>5. Made'
  BY <1>0, <1>b, <1>c, <1>g DEF Made, Stored
<1>6. Uploaded'
  <2> SUFFICES ASSUME NEW d \in Connections PROVE UploadedAt(d)'
    BY DEF Uploaded
  <2>1. UploadedAt(d) /\ WorkingAt(d)
    BY <1>0 DEF Uploaded, Working
  <2>2. CASE d = c
    BY <1>e, <2>2 DEF UploadedAt
  <2>3. CASE d # c
    <3>1. data'[d] = data[d]
      BY <1>d, <2>3
    <3>2. CASE data[d].step \in {"open", "uploaded"}
      <4>1. data[d].id \in Ids \ {data[c].id} /\ ParsedFiles[data[d].msg] \subseteq Files
        BY <2>3, <3>2, Facts, FilesAreFiles DEF InData, Active
      <4> QED
        BY <1>f, <2>1, <3>1, <3>2, <4>1 DEF UploadedAt, Has
    <3>3. CASE data[d].step \notin {"open", "uploaded"}
      BY <3>1, <3>3 DEF UploadedAt
    <3> QED
      BY <3>2, <3>3
  <2> QED
    BY <2>2, <2>3
<1>7. StoredHasFiles'
  <2> SUFFICES ASSUME NEW i \in Ids, mail'[i] # Nobody, i \notin doubtful'
               PROVE  Downloads(objects', i, ParsedFiles[mail'[i].msg])
    BY <1>f DEF StoredHasFiles, Stored, Downloads
  <2>1. i # data[c].id /\ i \notin doubtful
    BY <1>g
  <2>2. i \in Stored /\ mail'[i] = mail[i]
    BY <1>c, <2>1 DEF Stored
  <2>3. ParsedFiles[mail[i].msg] \subseteq Files
    BY <2>2, Facts, FilesAreFiles
  <2>4. Downloads(objects, i, ParsedFiles[mail[i].msg])
    BY <1>0, <2>1, <2>2 DEF StoredHasFiles
  <2> QED
    BY <1>f, <2>1, <2>2, <2>3, <2>4 DEF Downloads
<1>8. Settled'
  <2> SUFFICES ASSUME NEW i \in Ids, mail'[i] # Nobody PROVE Explained(i)'
    BY DEF Settled, Stored
  <2>1. CASE i = data[c].id
    BY <1>a, <1>b, <1>c, <1>g, <1>h, <2>1 DEF WorkingAt, Explained
  <2>2. CASE i # data[c].id
    <3>1. Explained(i) /\ mail'[i] = mail[i] /\ i \in Stored /\ mail[i].msg \in Messages
      BY <1>0, <1>c, <2>2, Facts DEF Settled, Stored
    <3>2. ASSUME NEW d \in Connections, Told(d), data[d].step = "done", data[d].id = i
          PROVE  Explained(i)'
      <4>1. d # c
        BY <2>2, <3>2
      <4> QED
        BY <1>d, <3>2, <4>1 DEF Told, Active, Explained
    <3>3. CASE mail[i].msg = data[c].msg
      <4>1. data[c].msg \in unanswered
        BY <1>a, <1>b, <3>1, <3>3, FirstOfItsMessage DEF WorkingAt
      <4> QED
        BY <1>g, <3>1, <3>3, <4>1 DEF Explained
    <3>4. CASE mail[i].msg # data[c].msg
      BY <1>g, <1>h, <3>1, <3>2, <3>4 DEF Explained
    <3> QED
      BY <3>3, <3>4
  <2> QED
    BY <2>1, <2>2
<1>9. StoredOnce'
  <2> SUFFICES ASSUME NEW i \in Ids, NEW j \in Ids, mail'[i] # Nobody, mail'[j] # Nobody,
                      mail'[i].msg = mail'[j].msg, i # j, mail'[i].msg \notin unanswered
               PROVE  FALSE
    BY <1>g DEF StoredOnce, Stored
  <2>1. \A k \in Ids \ {data[c].id} :
          mail'[k] # Nobody => k \in Stored /\ mail'[k].msg = mail[k].msg
    BY <1>c DEF Stored
  <2>2. \A k \in Stored : mail[k].msg = data[c].msg => data[c].msg \in unanswered
    BY <1>a, <1>b, FirstOfItsMessage DEF WorkingAt
  <2> QED
    BY <1>0, <1>c, <2>1, <2>2 DEF StoredOnce
<1>10. DeliveredIsStored'
  <2>1. \A m \in Messages : queue'[m] = "delivered" => queue[m] = "delivered"
    BY <1>b, <1>h
  <2> QED
    BY <1>0, <1>b, <1>c, <2>1 DEF DeliveredIsStored, Stored
<1>11. NoOrphan'
  <2> SUFFICES ASSUME NEW o \in objects', o[1] \notin leaked', mail'[o[1]] = Nobody
               PROVE  \E d \in Connections : data'[d].id = o[1]
    BY <1>0, <1>f DEF NoOrphan, Stored, Typed
  <2>1. o \in objects /\ o[1] # data[c].id /\ o[1] \in Ids
    BY <1>0, <1>f DEF Typed
  <2>2. o[1] \notin Stored
    BY <1>c, <2>1 DEF Stored
  <2>3. PICK d \in Connections : data[d].id = o[1]
    BY <1>0, <1>f, <2>1, <2>2 DEF NoOrphan
  <2> QED
    BY <1>d, <2>1, <2>3
<1> QED
  BY <1>1, <1>2, <1>3, <1>4, <1>5, <1>6, <1>7, <1>8, <1>9, <1>10, <1>11 DEF IInv

(* The connection breaks while DATA is at work. *)
LEMMA Loses ==
  ASSUME IInv, NEW c \in Connections,
         LosesConnection(c)
  PROVE  IInv'
<1> USE NobodyAssumption
<1>0. Typed /\ Working /\ OwnMail /\ OneTold /\ Made
       /\ Uploaded /\ StoredHasFiles /\ Settled
       /\ StoredOnce /\ DeliveredIsStored /\ NoOrphan
  BY DEF IInv
<1>a. Enveloped(c) /\ WorkingAt(c)
  BY <1>0 DEF Working
<1>b. /\ InData(c) /\ lost' = lost \cup {c} /\ unanswered' = unanswered \cup {data[c].msg}
      /\ UNCHANGED <<queue, from, to, data, mail, objects, used, doubtful, leaked>>
  BY DEF LosesConnection, InData
<1>c. data[c].msg \in Messages
  BY <1>b, Facts DEF InData, Active
<1>1. Typed'
  BY <1>0, <1>b, <1>c DEF Typed
<1>2. Working'
  <2> SUFFICES ASSUME NEW d \in Connections PROVE Enveloped(d)' /\ WorkingAt(d)'
    BY DEF Working
  <2>1. Enveloped(d) /\ WorkingAt(d)
    BY <1>0 DEF Working
  <2>2. CASE d = c
    BY <1>b, <2>1, <2>2 DEF Enveloped, WorkingAt, Active, InData, Told
  <2>3. CASE d # c
    BY <1>b, <2>1, <2>3 DEF Enveloped, WorkingAt, Active, InData, Told
  <2> QED
    BY <2>2, <2>3
<1>3. OwnMail'
  BY <1>0, <1>b DEF OwnMail, InData
<1>4. OneTold'
  BY <1>0, <1>b DEF OneTold, Told, Active
<1>5. Made'
  BY <1>0, <1>b DEF Made, Stored
<1>6. Uploaded'
  <2> SUFFICES ASSUME NEW d \in Connections PROVE UploadedAt(d)'
    BY DEF Uploaded
  <2>1. UploadedAt(d) /\ WorkingAt(d)
    BY <1>0 DEF Uploaded, Working
  <2>2. CASE d = c
    BY <1>b, <2>1 DEF UploadedAt, Has
  <2>3. CASE d # c
    BY <1>b, <2>1 DEF UploadedAt, Has
  <2> QED
    BY <2>2, <2>3
<1>7. StoredHasFiles'
  BY <1>0, <1>b DEF StoredHasFiles, Stored, Downloads
<1>8. Settled'
  <2> SUFFICES ASSUME NEW i \in Stored PROVE Explained(i)'
    BY <1>b DEF Settled, Stored
  <2>1. Explained(i)
    BY <1>0 DEF Settled
  <2>2. ASSUME NEW d \in Connections, Told(d), data[d].step = "done", data[d].id = i
        PROVE  Explained(i)'
    <3>1. data[d].msg = mail[i].msg
      BY <1>0, <2>2 DEF Working, WorkingAt
    <3> QED
      BY <1>b, <2>2, <3>1 DEF Told, Active, Explained
  <2> QED
    BY <1>b, <2>1, <2>2 DEF Explained
<1>9. StoredOnce'
  BY <1>0, <1>b DEF StoredOnce, Stored
<1>10. DeliveredIsStored'
  BY <1>0, <1>b DEF DeliveredIsStored, Stored
<1>11. NoOrphan'
  BY <1>0, <1>b DEF NoOrphan, Stored
<1> QED
  BY <1>1, <1>2, <1>3, <1>4, <1>5, <1>6, <1>7, <1>8, <1>9, <1>10, <1>11 DEF IInv

-----------------------------------------------------------------------------
(* A file that was uploaded stands for every file of its name. *)
LEMMA UploadKeeps ==
  ASSUME NEW O \in SUBSET (Ids \X Files), NEW i \in Ids, NEW f \in Files
  PROVE  /\ UploadObject(O, i, f) \subseteq Ids \X Files
         /\ <<i, f>> \in UploadObject(O, i, f)
         /\ \A j \in Ids, h \in Files :
              j # i \/ h \notin SameKey(f) =>
                (<<j, h>> \in UploadObject(O, i, f) <=> <<j, h>> \in O)
BY DEF UploadObject, SameKey

(* An upload, which may replace a file of the same name of the same mail. *)
LEMMA Uploads ==
  ASSUME IInv, NEW c \in Connections, NEW f \in Files, UploadAttachment(c, f)
  PROVE  IInv'
<1> DEFINE i == data[c].id
           F == ParsedFiles[data[c].msg]
<1>0. Typed /\ WorkingAt(c) /\ UploadedAt(c)
  BY DEF IInv, Working, Uploaded
<1>1. /\ data[c].step = "open" /\ f \in data[c].left
      /\ objects' = UploadObject(objects, i, f)
      /\ UNCHANGED <<queue, from, to, lost, mail, used, unanswered, doubtful, leaked>>
  BY DEF UploadAttachment
<1>2. i \in Ids /\ data[c].msg \in Messages /\ objects \in SUBSET (Ids \X Files)
  BY <1>0, <1>1, Facts DEF Typed, InData, Active
<1>3. data[c].left \ {f} \in SUBSET Files
  BY <1>0 DEF Typed, Delivery
<1>4. /\ data' \in [Connections -> Delivery] /\ data'[c].step = "uploaded"
      /\ data'[c].msg = data[c].msg /\ data'[c].ask = {} /\ data'[c].id = i
      /\ data'[c].left = data[c].left \ {f}
      /\ \A d \in Connections \ {c} : data'[d] = data[d]
  BY <1>0, <1>3, StageIs DEF UploadAttachment
<1>5. /\ objects' \subseteq Ids \X Files /\ <<i, f>> \in objects'
      /\ \A j \in Ids, h \in Files :
           j # i \/ h \notin SameKey(f) => (<<j, h>> \in objects' <=> <<j, h>> \in objects)
  BY <1>1, <1>2, UploadKeeps
<1>6. f \in F /\ F \subseteq Files
  BY <1>0, <1>1, <1>2, FilesAreFiles DEF UploadedAt
<1>7. UploadedAt(c)'
  <2> SUFFICES ASSUME NEW e \in F \ (data[c].left \ {f})
               PROVE  \E h \in F \cap SameKey(e) : <<i, h>> \in objects'
    BY <1>0, <1>1, <1>4 DEF UploadedAt, Has
  <2>1. CASE e = f
    BY <1>5, <1>6, <2>1 DEF SameKey
  <2>2. CASE e # f
    <3>1. PICK h \in F \cap SameKey(e) : <<i, h>> \in objects
      BY <1>0, <1>1, <2>2 DEF UploadedAt, Has
    <3>2. CASE h \in SameKey(f)
      <4>1. f \in SameKey(e)
        BY <1>6, <3>1, <3>2 DEF SameKey
      <4> QED
        BY <1>5, <1>6, <4>1
    <3>3. CASE h \notin SameKey(f)
      BY <1>2, <1>5, <1>6, <3>1, <3>3
    <3> QED
      BY <3>2, <3>3
  <2> QED
    BY <2>1, <2>2
<1> QED
  BY <1>1, <1>2, <1>4, <1>5, <1>7, Uploading

(* The row of a file. *)
LEMMA Inserts ==
  ASSUME IInv, NEW c \in Connections, InsertAttachment(c)
  PROVE  IInv'
<1>0. Typed /\ WorkingAt(c) /\ UploadedAt(c)
  BY DEF IInv, Working, Uploaded
<1>1. /\ data[c].step = "uploaded"
      /\ UNCHANGED <<queue, from, to, lost, mail, objects, used, unanswered, doubtful, leaked>>
  BY DEF InsertAttachment
<1>2. data[c].left \in SUBSET Files /\ objects \subseteq Ids \X Files
  BY <1>0 DEF Typed, Delivery
<1>3. /\ data' \in [Connections -> Delivery] /\ data'[c].step = "open"
      /\ data'[c].msg = data[c].msg /\ data'[c].ask = {} /\ data'[c].id = data[c].id
      /\ data'[c].left = data[c].left
      /\ \A d \in Connections \ {c} : data'[d] = data[d]
  BY <1>0, <1>2, StageIs DEF InsertAttachment
<1>4. UploadedAt(c)'
  BY <1>0, <1>1, <1>3 DEF UploadedAt, Has
<1> QED
  BY <1>1, <1>2, <1>3, <1>4, Uploading

(* The verdict reaches Postfix unless the connection broke. *)
LEMMA AnswerIs ==
  ASSUME NEW c \in Connections, NEW v \in {"bounced", "delivered"}, Answer(c, v)
  PROVE  /\ Ends(c) /\ unanswered' = unanswered
         /\ \/ queue' = queue
            \/ c \notin lost /\ queue' = [queue EXCEPT ![data[c].msg] = v]
BY DEF Answer

(* A message ends before DATA has begun its transaction. *)
LEMMA EnvelopeQuits ==
  ASSUME IInv, NEW c \in Connections, Aborts(c) \/ DataFails(c)
  PROVE  IInv'
<1>1. /\ data[c].step = "envelope" /\ data[c].id = Nobody
      /\ Typed /\ \A o \in objects : o[1] \in Ids
  BY DEF IInv, Typed, Working, WorkingAt, InData, Aborts, DataFails, InEnvelope
<1>2. UNCHANGED <<mail, objects, used, unanswered, doubtful, leaked>>
  BY DEF Aborts, DataFails, Answer
<1>3. /\ Ends(c)
      /\ \/ queue' = queue
         \/ c \notin lost /\ queue' = [queue EXCEPT ![data[c].msg] = "bounced"]
  BY DEF Aborts, DataFails, Answer
<1>4. Active(c) /\ data[c].id \notin Stored
  BY <1>1, NobodyAssumption DEF Active, Stored
<1>5. \A o \in objects' : o[1] # data[c].id
  BY <1>1, <1>2, NobodyAssumption
<1> QED
  BY <1>1, <1>2, <1>3, <1>4, <1>5, Quits DEF Typed

(* The transaction is undone, and what was uploaded is removed. *)
LEMMA DataQuits ==
  ASSUME IInv, NEW c \in Connections,
         \/ \E f \in Files : UploadFails(c, f)
         \/ InsertAttachmentFails(c)
         \/ CommitFails(c)
  PROVE  IInv'
<1>1. /\ data[c].step \in {"open", "uploaded"} /\ Answer(c, "bounced")
      /\ UNCHANGED <<mail, used, doubtful>>
  BY DEF UploadFails, InsertAttachmentFails, CommitFails
<1>2. Typed /\ data[c].id \in used /\ data[c].id \in Ids /\ data[c].id \notin Stored
  BY <1>1 DEF IInv, Typed, Working, WorkingAt, InData, Stored
<1>3. /\ objects' \subseteq Ids \X Files
      /\ \A i \in Ids \ {data[c].id}, f \in Files :
           <<i, f>> \in objects' <=> <<i, f>> \in objects
      /\ leaked \subseteq leaked' /\ leaked' \subseteq used
      /\ \A o \in objects' : o[1] = data[c].id => o[1] \in leaked'
  <2>1. CASE RemoveUploads(c)
    BY <1>2, <2>1, RemoveIs DEF Typed
  <2>2. CASE ~ RemoveUploads(c)
    <3>1. PICK f \in Files :
            /\ objects' = UploadObject(objects \ ObjectsOf(data[c].id), data[c].id, f)
            /\ leaked' = leaked \cup {data[c].id}
      BY <2>2 DEF UploadFails, InsertAttachmentFails, CommitFails
    <3>2. /\ objects \ ObjectsOf(data[c].id) \in SUBSET (Ids \X Files)
          /\ \A i \in Ids \ {data[c].id}, h \in Files :
               <<i, h>> \in objects \ ObjectsOf(data[c].id) <=> <<i, h>> \in objects
      BY <1>2 DEF Typed, ObjectsOf
    <3>3. /\ objects' \subseteq Ids \X Files
          /\ \A i \in Ids \ {data[c].id}, h \in Files :
               <<i, h>> \in objects' <=> <<i, h>> \in objects
      BY <1>2, <3>1, <3>2, UploadKeeps
    <3> QED
      BY <1>2, <3>1, <3>3 DEF Typed
  <2> QED
    BY <2>1, <2>2
<1>4. Active(c) /\ data[c].step # "done"
  BY <1>1 DEF Active
<1>5. /\ Ends(c) /\ unanswered' = unanswered
      /\ \/ queue' = queue
         \/ c \notin lost /\ queue' = [queue EXCEPT ![data[c].msg] = "bounced"]
  BY <1>1, AnswerIs
<1> QED
  BY <1>1, <1>2, <1>3, <1>4, <1>5, Quits DEF Typed

(* The positive answer, and a service that stops. *)
LEMMA Finishes ==
  ASSUME IInv, NEW c \in Connections, Accepts(c) \/ Stops(c)
  PROVE  IInv'
<1>1. /\ InData(c) /\ Active(c) /\ Typed /\ WorkingAt(c) /\ NoOrphan
      /\ data[c].id \in used /\ data[c].msg \in Messages
  BY Facts DEF IInv, Working, Accepts, Stops, InData, Active
<1>2. Ends(c) /\ UNCHANGED <<mail, objects, used, doubtful>>
  BY DEF Accepts, Answer, Stops
<1>3. objects \subseteq Ids \X Files /\ queue \in [Messages -> {"queued", "delivered", "bounced"}]
  BY <1>1 DEF Typed
<1>4. CASE Accepts(c)
  <2>1. data[c].step = "done" /\ data[c].id \in Stored
    BY <1>1, <1>4 DEF Accepts, WorkingAt, Stored, Typed
  <2>2. /\ UNCHANGED <<leaked, unanswered>>
        /\ \/ queue' = queue /\ c \in lost
           \/ c \notin lost /\ queue' = [queue EXCEPT ![data[c].msg] = "delivered"]
    BY <1>4 DEF Accepts, Answer
  <2>3. data[c].msg \in unanswered' \/ queue'[data[c].msg] = "delivered"
    BY <1>1, <1>3, <2>2 DEF WorkingAt
  <2> QED
    BY <1>1, <1>2, <1>3, <2>1, <2>2, <2>3, Quits DEF Typed
<1>5. CASE Stops(c)
  <2>1. /\ queue' = queue /\ unanswered' = unanswered \cup {data[c].msg}
        /\ leaked' = leaked \cup {data[c].id}
    BY <1>5 DEF Stops
  <2>2. PICK v \in {"bounced", "delivered"} : v = "delivered" <=> data[c].step = "done"
    OBVIOUS
  <2> QED
    BY <1>1, <1>2, <1>3, <2>1, <2>2, Quits DEF Typed
<1> QED
  BY <1>4, <1>5

-----------------------------------------------------------------------------
(* The inductive invariant holds when nothing was received, *)
LEMMA Initially == Init => IInv
<1> SUFFICES ASSUME Init PROVE IInv
  OBVIOUS
<1>1. /\ data = [c \in Connections |-> Ready] /\ mail = [i \in Ids |-> Nobody]
      /\ queue = [m \in Messages |-> "queued"] /\ from = [c \in Connections |-> Nobody]
      /\ to = [c \in Connections |-> {}]
      /\ lost = {} /\ objects = {} /\ used = {}
      /\ unanswered = {} /\ doubtful = {} /\ leaked = {}
  BY DEF Init
<1>2. \A c \in Connections :
        data[c].step = "ready" /\ data[c].msg = Nobody /\ data[c].id = Nobody
  BY <1>1, ReadyIs
<1>3. Typed
  BY <1>1, ReadyIs DEF Typed
<1>4. Working
  BY <1>1, <1>2 DEF Working, Enveloped, WorkingAt, Active, InData, Told
<1>5. OwnMail /\ OneTold /\ Uploaded
  BY <1>2 DEF OwnMail, OneTold, Uploaded, UploadedAt, InData, Told, Active
<1>6. Made /\ StoredHasFiles /\ Settled /\ StoredOnce
  BY <1>1 DEF Made, StoredHasFiles, Settled, StoredOnce, Stored
<1>7. DeliveredIsStored /\ NoOrphan
  BY <1>1 DEF DeliveredIsStored, NoOrphan
<1> QED
  BY <1>3, <1>4, <1>5, <1>6, <1>7 DEF IInv

(* is kept by every step of every connection, *)
LEMMA Inductive == IInv /\ [Next]_vars => IInv'
<1> SUFFICES ASSUME IInv, [Next]_vars PROVE IInv'
  OBVIOUS
<1>1. CASE UNCHANGED vars
  <2>1. Typed' /\ Working' /\ OwnMail' /\ OneTold'
    BY <1>1 DEF IInv, Typed, Working, Enveloped, WorkingAt, OwnMail, OneTold, InData, Told,
       Active, vars
  <2>2. Made' /\ Uploaded' /\ StoredHasFiles' /\ StoredOnce'
    BY <1>1 DEF IInv, Made, Uploaded, UploadedAt, Has, StoredHasFiles, Downloads, StoredOnce,
       Stored, vars
  <2>3. Settled' /\ DeliveredIsStored' /\ NoOrphan'
    BY <1>1 DEF IInv, Settled, Explained, Told, Active, DeliveredIsStored, NoOrphan, Stored,
       vars
  <2> QED
    BY <2>1, <2>2, <2>3 DEF IInv
<1>2. CASE Next
  <2> PICK c \in Connections :
        \/ \E m \in Messages : Mail(c, m)
        \/ \E a \in Addresses : Rcpt(c, a)
        \/ \E i \in Ids : Data(c, i)
        \/ Aborts(c) \/ DataFails(c)
        \/ (\E f \in Files : UploadAttachment(c, f)) \/ InsertAttachment(c)
        \/ (\E f \in Files : UploadFails(c, f)) \/ InsertAttachmentFails(c) \/ CommitFails(c)
        \/ Commit(c) \/ CommitLost(c)
        \/ Accepts(c) \/ Stops(c)
        \/ LosesConnection(c)
    BY <1>2 DEF Next
  <2>1. CASE \E m \in Messages : Mail(c, m)
    BY <2>1, Mails
  <2>2. CASE \E a \in Addresses : Rcpt(c, a)
    BY <2>2, Recipients
  <2>3. CASE \E i \in Ids : Data(c, i)
    BY <2>3, Begins
  <2>4. CASE Aborts(c) \/ DataFails(c)
    BY <2>4, EnvelopeQuits
  <2>5. CASE (\E f \in Files : UploadAttachment(c, f)) \/ InsertAttachment(c)
    BY <2>5, Uploads, Inserts
  <2>6. CASE (\E f \in Files : UploadFails(c, f)) \/ InsertAttachmentFails(c) \/ CommitFails(c)
    BY <2>6, DataQuits
  <2>7. CASE Commit(c) \/ CommitLost(c)
    BY <2>7, Commits, CommitsLost
  <2>8. CASE Accepts(c) \/ Stops(c)
    BY <2>8, Finishes
  <2>9. CASE LosesConnection(c)
    BY <2>9, Loses
  <2> QED
    BY <2>1, <2>2, <2>3, <2>4, <2>5, <2>6, <2>7, <2>8, <2>9
<1> QED
  BY <1>1, <1>2

(* and so it holds always. *)
THEOREM Invariant == Spec => []IInv
BY Initially, Inductive, PTL DEF Spec

-----------------------------------------------------------------------------
(* The types of the queue, the sessions, the rows and the objects; the mail *)
(* of an open transaction is not there yet.                                 *)
THEOREM Types == Spec => []TypeOK
<1>1. IInv => TypeOK
  <2> SUFFICES ASSUME IInv PROVE TypeOK
    OBVIOUS
  <2>1. Typed /\ \A c \in Connections : WorkingAt(c)
    BY DEF IInv, Working
  <2>2. \A c \in Connections : data[c] \in
          [step : {"ready", "envelope", "open", "uploaded", "done"},
           msg : Messages \cup {Nobody}, ask : SUBSET Addresses, id : used \cup {Nobody},
           left : SUBSET Files, file : Files \cup {Nobody}]
    <3> SUFFICES ASSUME NEW c \in Connections
                 PROVE  data[c] \in
          [step : {"ready", "envelope", "open", "uploaded", "done"},
           msg : Messages \cup {Nobody}, ask : SUBSET Addresses, id : used \cup {Nobody},
           left : SUBSET Files, file : Files \cup {Nobody}]
      OBVIOUS
    <3>1. data[c].id \in used \cup {Nobody}
      BY <2>1 DEF WorkingAt
    <3> QED
      BY <2>1, <3>1 DEF Typed, Delivery
  <2>3. \A c \in Connections : data[c].step \in {"open", "uploaded"} => mail[data[c].id] = Nobody
    BY <2>1 DEF WorkingAt
  <2> QED
    BY <2>1, <2>2, <2>3 DEF TypeOK, Typed
<1> QED
  BY <1>1, Invariant, PTL

(* What Postfix has removed from its queue is in the mailboxes of all users *)
(* among its recipients, however many tries it took.                        *)
THEOREM DeliveredIsStoredAlways == Spec => []DeliveredIsStored
<1>1. IInv => DeliveredIsStored
  BY DEF IInv
<1> QED
  BY <1>1, Invariant, PTL

(* A message that was returned to its sender is in no mailbox, but for a    *)
(* lost answer of the commit or of an earlier try.                          *)
THEOREM BouncedIsGoneAlways == Spec => []BouncedIsGone
<1>1. IInv => BouncedIsGone
  <2> SUFFICES ASSUME IInv, NEW i \in Stored \ doubtful, queue[mail[i].msg] = "bounced",
                      mail[i].msg \notin unanswered
               PROVE  FALSE
    BY DEF BouncedIsGone
  <2>1. PICK c \in Connections : Told(c) /\ data[c].step = "done" /\ data[c].id = i
    BY DEF IInv, Settled, Explained
  <2> QED
    BY <2>1 DEF IInv, Working, WorkingAt
<1> QED
  BY <1>1, Invariant, PTL

(* A message is in the mailboxes once, unless Postfix got no answer. *)
THEOREM StoredOnceAlways == Spec => []StoredOnce
<1>1. IInv => StoredOnce
  BY DEF IInv
<1> QED
  BY <1>1, Invariant, PTL

(* A mail that was received has all the files that were read from it in the *)
(* storage, whatever other deliveries upload and remove.                    *)
THEOREM FilesAreThere == Spec => []StoredHasFiles
<1>1. IInv => StoredHasFiles
  BY DEF IInv
<1> QED
  BY <1>1, Invariant, PTL

(* No object stays behind for which there is neither a mail nor a delivery  *)
(* at work, but where the removal failed or the service stopped.            *)
THEOREM NoOrphanAlways == Spec => []NoOrphan
<1>1. IInv => NoOrphan
  BY DEF IInv
<1> QED
  BY <1>1, Invariant, PTL

-----------------------------------------------------------------------------
(* Induction over data: a set of numbers has a least one. *)
LEMMA LessIs ==
  \E R : IsWellFoundedOn(R, Nat) /\ \A x, y \in Nat : y < x => <<y, x>> \in R
<1>1. PICK R : R = OpToRel(<, Nat)
  OBVIOUS
<1>2. IsWellFoundedOn(R, Nat)
  BY <1>1, NatLessThanWellFounded, Zenon
<1>3. \A x, y \in Nat : y < x => <<y, x>> \in R
  BY <1>1 DEF OpToRel
<1> QED
  BY <1>2, <1>3

LEMMA Least ==
  ASSUME NEW T, T \subseteq Nat, T # {}
  PROVE  \E x \in T : \A y \in T : x <= y
<1>1. PICK R : IsWellFoundedOn(R, Nat) /\ \A x, y \in Nat : y < x => <<y, x>> \in R
  BY LessIs
<1>2. \E x \in T : \A y \in T : ~ (<<y, x>> \in R)
  BY <1>1, WFMin
<1>3. PICK x \in T : \A y \in T : ~ (<<y, x>> \in R)
  BY <1>2
<1>4. ASSUME NEW y \in T PROVE x <= y
  <2>1. x \in Nat /\ y \in Nat
    OBVIOUS
  <2>2. ~ (y < x)
    BY <1>1, <1>3, <2>1
  <2> QED
    BY <2>1, <2>2
<1> QED
  BY <1>4

LEMMA Greatest ==
  ASSUME NEW n \in Nat, NEW T, T \subseteq 1 .. n, T # {}
  PROVE  \E x \in T : \A y \in T : y <= x
<1>0. \A k \in T : k \in 1 .. n /\ n - k \in Nat
  OBVIOUS
<1>1. {n - k : k \in T} \subseteq Nat /\ {n - k : k \in T} # {}
  BY <1>0
<1>2. PICK d \in {n - k : k \in T} : \A e \in {n - k : k \in T} : d <= e
  BY <1>1, Least
<1>3. PICK x \in T : d = n - x
  BY <1>2
<1>4. ASSUME NEW y \in T PROVE y <= x
  <2>1. n - x <= n - y
    BY <1>2, <1>3
  <2> QED
    BY <2>1
<1> QED
  BY <1>4

(* The first text of some places is one of them, if any is there. *)
LEMMA FirstIs ==
  ASSUME NEW S, S \subseteq Nat, NEW text
  PROVE  \/ FirstText(S, text) = NoText /\ \A k \in S : text[k] = NoText
         \/ \E k \in S : text[k] # NoText /\ FirstText(S, text) = text[k]
<1> DEFINE full == {k \in S : text[k] # NoText}
<1>1. CASE full = {}
  BY <1>1 DEF FirstText
<1>2. CASE full # {}
  <2>1. \E k \in full : \A j \in full : k <= j
    BY <1>2, Least
  <2>2. (CHOOSE k \in full : \A j \in full : k <= j) \in full
    BY <2>1
  <2>3. FirstText(S, text) = text[CHOOSE k \in full : \A j \in full : k <= j]
    BY <1>2 DEF FirstText
  <2> QED
    BY <2>2, <2>3
<1> QED
  BY <1>1, <1>2

(* What is walked: the mail, and the multiparts without a name in what is   *)
(* walked.  The set W of all places that a closed set cannot do without is  *)
(* a solution of the recursion.                                             *)
LEMMA WalkedIs ==
  ASSUME NEW M, IsMail(M)
  PROVE  /\ Walked(M) \subseteq DOMAIN M
         /\ \A k \in DOMAIN M :
              k \in Walked(M) <=> k = 1 \/ (k \in Nested(M, M[k].in) /\ M[k].in \in Walked(M))
<1> DEFINE step(w) == [k \in DOMAIN M |-> k = 1 \/ (k \in Nested(M, M[k].in) /\ w[M[k].in])]
           walked == CHOOSE w : w = step(w)
           Closed(S) == /\ 1 \in S
                        /\ \A j \in DOMAIN M : j \in Nested(M, M[j].in) /\ M[j].in \in S => j \in S
           W == {k \in DOMAIN M : \A S \in SUBSET DOMAIN M : Closed(S) => k \in S}
           w0 == [k \in DOMAIN M |-> k \in W]
<1>0. 1 \in DOMAIN M /\ \A k \in DOMAIN M : k # 1 => M[k].in \in DOMAIN M
  BY DEF IsMail
<1>1. \A k \in DOMAIN M : k \in W <=> k = 1 \/ (k \in Nested(M, M[k].in) /\ M[k].in \in W)
  <2> SUFFICES ASSUME NEW k \in DOMAIN M
               PROVE  k \in W <=> k = 1 \/ (k \in Nested(M, M[k].in) /\ M[k].in \in W)
    OBVIOUS
  <2>1. ASSUME k = 1 \/ (k \in Nested(M, M[k].in) /\ M[k].in \in W)
        PROVE  k \in W
    BY <2>1, <1>0
  <2>2. ASSUME k \in W, k # 1, ~ (k \in Nested(M, M[k].in) /\ M[k].in \in W)
        PROVE  FALSE
    <3> DEFINE V == W \ {k}
    <3>1. V \in SUBSET DOMAIN M
      OBVIOUS
    <3>2. 1 \in V
      BY <2>2, <1>0
    <3>3. ASSUME NEW j \in DOMAIN M, j \in Nested(M, M[j].in), M[j].in \in V
          PROVE  j \in V
      BY <3>3, <2>2
    <3>4. k \in V
      BY <3>1, <3>2, <3>3, <2>2
    <3> QED
      BY <3>4
  <2> QED
    BY <2>1, <2>2
<1> HIDE DEF W
<1>2. \A k \in DOMAIN M : step(w0)[k] = w0[k]
  <2> SUFFICES ASSUME NEW k \in DOMAIN M
               PROVE  step(w0)[k] = w0[k]
    OBVIOUS
  <2>1. w0[k] = (k \in W)
    OBVIOUS
  <2>2. k # 1 => w0[M[k].in] = (M[k].in \in W)
    BY <1>0
  <2>3. step(w0)[k] = (k = 1 \/ (k \in Nested(M, M[k].in) /\ w0[M[k].in]))
    OBVIOUS
  <2>4. (k = 1 \/ (k \in Nested(M, M[k].in) /\ w0[M[k].in])) = (k \in W)
    <3>1. CASE k = 1
      BY <3>1, <1>0, <1>1
    <3>2. CASE k # 1
      <4>1. w0[M[k].in] = (M[k].in \in W)
        BY <2>2, <3>2
      <4>2. (k = 1 \/ (k \in Nested(M, M[k].in) /\ w0[M[k].in]))
              <=> k \in Nested(M, M[k].in) /\ M[k].in \in W
        BY <3>2, <4>1
      <4>3. k \in W <=> k \in Nested(M, M[k].in) /\ M[k].in \in W
        BY <1>1, <3>2
      <4> QED
        BY <4>2, <4>3
    <3> QED
      BY <3>1, <3>2
  <2> QED
    BY <2>1, <2>3, <2>4
<1>3. w0 = step(w0)
  BY <1>2
<1>4. walked = step(walked)
  <2>1. \E w : w = step(w)
    BY <1>3
  <2> QED
    BY <2>1
<1> HIDE DEF walked
<1>5. Walked(M) = {k \in DOMAIN M : walked[k]}
  BY DEF Walked, walked
<1>6. ASSUME NEW k \in DOMAIN M
      PROVE  walked[k] = (k = 1 \/ (k \in Nested(M, M[k].in) /\ walked[M[k].in]))
  BY <1>4
<1>7. ASSUME NEW k \in DOMAIN M
      PROVE  k \in Walked(M) <=> k = 1 \/ (k \in Nested(M, M[k].in) /\ M[k].in \in Walked(M))
  <2>1. k \in Walked(M) <=> walked[k]
    BY <1>5
  <2>2. k # 1 => (M[k].in \in Walked(M) <=> walked[M[k].in])
    BY <1>0, <1>5
  <2> QED
    BY <1>6, <2>1, <2>2
<1> QED
  BY <1>5, <1>7

(* What a part is worth when the texts of the multiparts in it are b. *)
Inner(M, k, b) == FirstText(Nested(M, k), [j \in Nested(M, k) |-> b[j]])
Value(M, k, b) == IF Inner(M, k, b) # NoText THEN Inner(M, k, b) ELSE OwnText(M, k)

(* The body of a mail is a solution of its recursion: a function from the   *)
(* last parts of the mail is continued to the part before them.             *)
LEMMA BodyIs ==
  ASSUME NEW M, IsMail(M)
  PROVE  \E b : Body(M) = b[1] /\ \A k \in DOMAIN M : b[k] = Value(M, k, b)
<1> DEFINE n == Len(M)
           step(b) == [k \in DOMAIN M |->
                         LET inner == FirstText(Nested(M, k), [j \in Nested(M, k) |-> b[j]])
                         IN  IF inner # NoText THEN inner ELSE OwnText(M, k)]
           Solves(b, a) == b \in [a .. n -> {b[k] : k \in a .. n}] /\ \A k \in a .. n : b[k] = Value(M, k, b)
           unsolved == {d \in 0 .. n : ~ \E b : Solves(b, n + 1 - d)}
<1>1. n \in Nat \ {0} /\ DOMAIN M = 1 .. n
  BY DEF IsMail
<1>2. \A k \in DOMAIN M : \A j \in Nested(M, k) : j \in DOMAIN M /\ j > k
  <2> SUFFICES ASSUME NEW k \in DOMAIN M, NEW j \in Nested(M, k)
               PROVE  j \in DOMAIN M /\ j > k
    OBVIOUS
  <2>1. j \in DOMAIN M /\ M[j].in = k
    BY DEF Nested, PartsIn
  <2>2. j # 1
    BY <2>1, <1>1 DEF IsMail
  <2>3. j \in 2 .. Len(M)
    BY <2>1, <2>2, <1>1
  <2>4. k \in 1 .. j - 1
    BY <2>1, <2>3 DEF IsMail
  <2> QED
    BY <2>1, <2>3, <2>4
<1>3. ASSUME NEW b, NEW c, NEW k \in DOMAIN M, \A j \in DOMAIN M : j > k => b[j] = c[j]
      PROVE  Value(M, k, b) = Value(M, k, c)
  <2>1. [j \in Nested(M, k) |-> b[j]] = [j \in Nested(M, k) |-> c[j]]
    BY <1>2, <1>3
  <2> QED
    BY <2>1 DEF Value, Inner
<1> HIDE DEF n
<1>4. unsolved = {}
  <2> SUFFICES ASSUME unsolved # {}
               PROVE  FALSE
    OBVIOUS
  <2>1. PICK d \in unsolved : \A e \in unsolved : d <= e
    <3>1. unsolved \subseteq Nat
      BY <1>1
    <3> HIDE DEF unsolved
    <3> QED
      BY <3>1, Least
  <2>2. d \in 0 .. n
    BY <2>1
  <2>3. CASE d = 0
    <3>1. Solves([k \in {} |-> NoText], n + 1 - d)
      BY <1>1, <2>3
    <3> QED
      BY <2>1, <3>1
  <2>4. CASE d # 0
    <3> DEFINE a == n + 1 - d
    <3>1. a \in 1 .. n /\ d - 1 \in 0 .. n /\ n + 1 - (d - 1) = a + 1
      BY <1>1, <2>2, <2>4
    <3>2. d - 1 \notin unsolved
      BY <2>1, <2>2, <2>4
    <3>3. PICK b : Solves(b, a + 1)
      BY <3>1, <3>2
    <3> HIDE DEF a
    <3> DEFINE c == [k \in a .. n |-> IF k = a THEN Value(M, a, b) ELSE b[k]]
    <3>4. \A k \in DOMAIN M : k > a => k \in a + 1 .. n /\ c[k] = b[k]
      BY <1>1, <3>1
    <3>5. c[a] = Value(M, a, b)
      BY <1>1, <3>1
    <3> HIDE DEF c
    <3>6. ASSUME NEW k \in a .. n PROVE c[k] = Value(M, k, c)
      <4>1. k \in DOMAIN M /\ a \in DOMAIN M
        BY <1>1, <3>1
      <4>2. Value(M, k, b) = Value(M, k, c)
        <5>1. \A j \in DOMAIN M : j > k => b[j] = c[j]
          <6> TAKE j \in DOMAIN M
          <6> HAVE j > k
          <6>1. j > a
            BY <1>1, <3>1
          <6> QED
            BY <6>1, <3>4
        <5> QED
          BY <4>1, <5>1, <1>3
      <4>3. CASE k = a
        BY <4>2, <4>3, <3>5
      <4>4. CASE k # a
        <5>1. k > a
          BY <1>1, <3>1, <4>4
        <5>2. k \in a + 1 .. n /\ c[k] = b[k]
          BY <4>1, <5>1, <3>4
        <5>3. b[k] = Value(M, k, b)
          BY <3>3, <5>2
        <5> QED
          BY <5>2, <5>3, <4>2
      <4> QED
        BY <4>3, <4>4
    <3>7. c \in [a .. n -> {c[k] : k \in a .. n}]
      BY DEF c
    <3>8. Solves(c, a)
      BY <3>6, <3>7
    <3> QED
      BY <2>1, <3>8 DEF a
  <2> QED
    BY <2>3, <2>4
<1>5. PICK b : Solves(b, 1)
  <2>1. n \in 0 .. n /\ n + 1 - n = 1
    BY <1>1
  <2>2. n \notin unsolved
    BY <1>4
  <2> QED
    BY <2>1, <2>2
<1>6. step(b) = b
  <2>1. \A k \in DOMAIN M : step(b)[k] = b[k]
    <3> TAKE k \in DOMAIN M
    <3>1. b[k] = Value(M, k, b)
      BY <1>1, <1>5
    <3> QED
      BY <3>1 DEF Value, Inner
  <2>2. b \in [DOMAIN M -> {b[k] : k \in DOMAIN M}]
    BY <1>1, <1>5
  <2> QED
    BY <2>1, <2>2
<1> DEFINE body == CHOOSE c : c = step(c)
<1>7. body = step(body)
  <2>1. \E c : c = step(c)
    BY <1>6
  <2> QED
    BY <2>1
<1>8. Body(M) = body[1]
  BY DEF Body
<1> HIDE DEF body
<1>9. \A k \in DOMAIN M : body[k] = Value(M, k, body)
  BY <1>7 DEF Value, Inner
<1> QED
  BY <1>8, <1>9

(* Where texts of one kind are found among the parts of a multipart. *)
LEMMA TextsIs ==
  ASSUME NEW M, IsMail(M), NEW k \in DOMAIN M, NEW type
  PROVE  \/ Texts(M, k, type) = NoText /\ \A j \in decodeSinglePart(M, k, type) : M[j].content = NoText
         \/ \E j \in decodeSinglePart(M, k, type) :
              M[j].content # NoText /\ Texts(M, k, type) = M[j].content
<1> DEFINE S == decodeSinglePart(M, k, type)
           text == [j \in DOMAIN M |-> M[j].content]
<1>1. S \subseteq DOMAIN M /\ DOMAIN M \subseteq Nat
  BY DEF decodeSinglePart, PartsIn, IsMail
<1>2. Texts(M, k, type) = FirstText(S, text)
  BY DEF Texts
<1>3. \A j \in S : text[j] = M[j].content
  BY <1>1
<1> HIDE DEF S, text
<1>4. S \subseteq Nat
  BY <1>1
<1>5. \/ FirstText(S, text) = NoText /\ \A j \in S : text[j] = NoText
      \/ \E j \in S : text[j] # NoText /\ FirstText(S, text) = text[j]
  BY <1>4, FirstIs
<1> QED
  BY <1>2, <1>3, <1>5 DEF S

(* The texts of the multiparts in a part: one of them, if any is there. *)
LEMMA InnerIs ==
  ASSUME NEW M, IsMail(M), NEW k \in DOMAIN M, NEW b
  PROVE  \/ Inner(M, k, b) = NoText /\ \A j \in Nested(M, k) : b[j] = NoText
         \/ \E j \in Nested(M, k) : b[j] # NoText /\ Inner(M, k, b) = b[j]
<1> DEFINE S == Nested(M, k)
           text == [j \in S |-> b[j]]
<1>1. S \subseteq DOMAIN M /\ DOMAIN M \subseteq Nat
  BY DEF Nested, PartsIn, IsMail
<1>2. Inner(M, k, b) = FirstText(S, text)
  BY DEF Inner
<1>3. \A j \in S : text[j] = b[j]
  OBVIOUS
<1> HIDE DEF S, text
<1>4. S \subseteq Nat
  BY <1>1
<1>5. \/ FirstText(S, text) = NoText /\ \A j \in S : text[j] = NoText
      \/ \E j \in S : text[j] # NoText /\ FirstText(S, text) = text[j]
  BY <1>4, FirstIs
<1> QED
  BY <1>2, <1>3, <1>5 DEF S

(* A text of the mail that goes before all others beside it. *)
Best(M, t) ==
  /\ t \in TextsIn(M)
  /\ M[t].type = "html" => \A j \in TextsIn(M) : M[j].in = M[t].in => M[j].type = "html"

(* What is read of a multipart without multiparts that have a text. *)
LEMMA OwnIsBest ==
  ASSUME NEW M, IsMail(M), NEW k \in Walked(M), OwnText(M, k) # NoText,
         \A j \in Nested(M, k) : PartsIn(M, j) = {} => M[j].content = NoText
  PROVE  \E t \in DOMAIN M : Best(M, t) /\ M[t].content = OwnText(M, k)
<1>1. k \in DOMAIN M /\ (k = 1 \/ k \in Nested(M, M[k].in))
  BY WalkedIs
<1>2. CASE PartsIn(M, k) = {}
  <2>1. OwnText(M, k) = M[k].content /\ k \in TextsIn(M)
    BY <1>1, <1>2 DEF OwnText, TextsIn
  <2>2. M[k].type = "html" => k = 1
    BY <1>1 DEF Nested
  <2>3. \A j \in DOMAIN M : M[j].in = M[1].in => j = 1
    BY DEF IsMail
  <2> QED
    BY <1>1, <2>1, <2>2, <2>3 DEF Best, TextsIn
<1>3. CASE PartsIn(M, k) # {} /\ Texts(M, k, "plain") # NoText
  <2>1. PICK t \in decodeSinglePart(M, k, "plain") :
          M[t].content # NoText /\ Texts(M, k, "plain") = M[t].content
    BY <1>1, <1>3, TextsIs
  <2>2. t \in DOMAIN M /\ t \in TextsIn(M) /\ M[t].type = "plain"
    BY <2>1 DEF TextsIn, decodeSinglePart, PartsIn
  <2> QED
    BY <2>1, <2>2, <1>3 DEF Best, OwnText
<1>4. CASE PartsIn(M, k) # {} /\ Texts(M, k, "plain") = NoText
  <2>1. OwnText(M, k) = Texts(M, k, "html")
    BY <1>4 DEF OwnText
  <2>2. PICK t \in decodeSinglePart(M, k, "html") :
          M[t].content # NoText /\ Texts(M, k, "html") = M[t].content
    BY <1>1, <2>1, TextsIs
  <2>3. t \in DOMAIN M /\ t \in TextsIn(M) /\ M[t].in = k
    BY <2>2 DEF TextsIn, decodeSinglePart, PartsIn
  <2>4. ASSUME NEW j \in TextsIn(M), M[j].in = k
        PROVE  M[j].type = "html"
    <3>1. j \in DOMAIN M /\ M[j].content # NoText
      BY DEF TextsIn
    <3>2. j # 1
      BY <1>1, <2>4 DEF IsMail
    <3>3. CASE j \in Walked(M) /\ PartsIn(M, j) = {}
      <4>1. j \in Nested(M, k)
        BY <3>1, <3>2, <3>3, <2>4, WalkedIs
      <4> QED
        BY <3>1, <3>3, <4>1
    <3>4. CASE ~ isAttachment(M[j]) /\ M[j].type \in {"plain", "html"} /\ M[j].decodes
      <4>1. M[j].type = "plain" => j \in decodeSinglePart(M, k, "plain")
        BY <3>1, <3>4, <2>4 DEF decodeSinglePart, PartsIn
      <4>2. \A i \in decodeSinglePart(M, k, "plain") : M[i].content = NoText
        BY <1>1, <1>4, TextsIs
      <4> QED
        BY <3>1, <3>4, <4>1, <4>2
    <3> QED
      BY <3>3, <3>4 DEF TextsIn
  <2> QED
    BY <2>1, <2>2, <2>3, <2>4 DEF Best
<1> QED
  BY <1>2, <1>3, <1>4

(* The body of a mail is one of its texts, and the best beside others, if   *)
(* the mail has a text at all.                                              *)
LEMMA BodyIsText ==
  ASSUME NEW M, IsMail(M), TextsIn(M) # {}
  PROVE  \E t \in DOMAIN M : Best(M, t) /\ M[t].content = Body(M)
<1>0. DOMAIN M = 1 .. Len(M) /\ Len(M) \in Nat \ {0}
  BY DEF IsMail
<1>1. PICK b : Body(M) = b[1] /\ \A k \in DOMAIN M : b[k] = Value(M, k, b)
  BY BodyIs
<1>2. /\ Walked(M) \subseteq DOMAIN M /\ 1 \in Walked(M)
      /\ \A k \in Walked(M) : \A j \in Nested(M, k) : j \in Walked(M) /\ j > k
  <2>1. Walked(M) \subseteq DOMAIN M /\ 1 \in Walked(M)
    BY <1>0, WalkedIs
  <2>2. ASSUME NEW k \in Walked(M), NEW j \in Nested(M, k)
        PROVE  j \in Walked(M) /\ j > k
    <3>1. j \in DOMAIN M /\ M[j].in = k
      BY DEF Nested, PartsIn
    <3>2. j \in Walked(M)
      BY <3>1, WalkedIs
    <3>3. k \in 1 .. Len(M)
      BY <1>0, <2>1
    <3>4. j \in 2 .. Len(M)
      BY <1>0, <3>1, <3>3 DEF IsMail
    <3>5. k \in 1 .. j - 1
      BY <3>1, <3>4 DEF IsMail
    <3> QED
      BY <3>2, <3>4, <3>5
  <2> QED
    BY <2>1, <2>2
<1>3. ASSUME NEW k \in Walked(M)
      PROVE  \/ b[k] = NoText /\ OwnText(M, k) = NoText /\ \A j \in Nested(M, k) : b[j] = NoText
             \/ b[k] # NoText /\ \E j \in Nested(M, k) : b[j] = b[k]
             \/ b[k] # NoText /\ b[k] = OwnText(M, k) /\ \A j \in Nested(M, k) : b[j] = NoText
  <2>1. k \in DOMAIN M /\ b[k] = Value(M, k, b)
    BY <1>1, <1>2
  <2>2. \/ Inner(M, k, b) = NoText /\ \A j \in Nested(M, k) : b[j] = NoText
        \/ \E j \in Nested(M, k) : b[j] # NoText /\ Inner(M, k, b) = b[j]
    BY <2>1, InnerIs
  <2>3. CASE Inner(M, k, b) = NoText
    BY <2>1, <2>2, <2>3 DEF Value
  <2>4. CASE Inner(M, k, b) # NoText
    BY <2>1, <2>2, <2>4 DEF Value
  <2> QED
    BY <2>3, <2>4
<1>4. ASSUME NEW k \in Walked(M), b[k] = NoText, PartsIn(M, k) = {}
      PROVE  M[k].content = NoText
  BY <1>3, <1>4 DEF OwnText
<1>5. \A k \in Walked(M) : b[k] # NoText => \E t \in DOMAIN M : Best(M, t) /\ M[t].content = b[k]
  <2> DEFINE bad == {k \in Walked(M) : b[k] # NoText /\
                       ~ \E t \in DOMAIN M : Best(M, t) /\ M[t].content = b[k]}
  <2> SUFFICES ASSUME bad # {}
               PROVE  FALSE
    OBVIOUS
  <2>1. PICK k \in bad : \A j \in bad : j <= k
    <3>1. bad \subseteq 1 .. Len(M) /\ Len(M) \in Nat
      BY <1>0, <1>2
    <3> HIDE DEF bad
    <3> QED
      BY <3>1, Greatest
  <2>2. k \in Walked(M) /\ b[k] # NoText /\ k \in 1 .. Len(M)
    BY <2>1, <1>0, <1>2
  <2>3. CASE \E j \in Nested(M, k) : b[j] = b[k]
    <3>1. PICK j \in Nested(M, k) : b[j] = b[k]
      BY <2>3
    <3>2. j \in Walked(M) /\ j > k /\ j \in 1 .. Len(M)
      BY <2>2, <1>0, <1>2
    <3>3. j \notin bad
      BY <2>1, <2>2, <3>2
    <3> QED
      BY <3>1, <3>2, <3>3, <2>1
  <2>4. CASE b[k] = OwnText(M, k) /\ \A j \in Nested(M, k) : b[j] = NoText
    <3>1. \A j \in Nested(M, k) : PartsIn(M, j) = {} => M[j].content = NoText
      BY <2>2, <2>4, <1>2, <1>4
    <3>2. \E t \in DOMAIN M : Best(M, t) /\ M[t].content = OwnText(M, k)
      BY <2>2, <2>4, <3>1, OwnIsBest
    <3> QED
      BY <2>1, <2>4, <3>2
  <2> QED
    BY <1>3, <2>2, <2>3, <2>4
<1>6. b[1] # NoText
  <2> SUFFICES ASSUME b[1] = NoText
               PROVE  FALSE
    OBVIOUS
  <2> DEFINE full == {k \in Walked(M) : b[k] # NoText}
  <2>1. full = {}
    <3> SUFFICES ASSUME full # {}
                 PROVE  FALSE
      OBVIOUS
    <3>1. PICK k \in full : \A j \in full : k <= j
      <4>1. full \subseteq Nat
        BY <1>0, <1>2
      <4> HIDE DEF full
      <4> QED
        BY <4>1, Least
    <3>2. k \in Walked(M) /\ k # 1 /\ k \in DOMAIN M
      BY <3>1, <1>2
    <3>3. k \in Nested(M, M[k].in) /\ M[k].in \in Walked(M)
      BY <3>2, WalkedIs
    <3>4. M[k].in \notin full
      <4>1. k > M[k].in /\ k \in Nat /\ M[k].in \in Nat
        BY <3>2, <3>3, <1>0, <1>2
      <4> QED
        BY <3>1, <4>1
    <3>5. b[M[k].in] = NoText
      BY <3>3, <3>4
    <3> QED
      BY <3>1, <3>3, <3>5, <1>3
  <2>2. PICK t \in TextsIn(M) : TRUE
    OBVIOUS
  <2>3. t \in DOMAIN M /\ M[t].content # NoText
    BY DEF TextsIn
  <2>4. CASE t \in Walked(M) /\ PartsIn(M, t) = {}
    BY <2>1, <2>3, <2>4, <1>4
  <2>5. CASE /\ M[t].in \in Walked(M) /\ ~ isAttachment(M[t])
             /\ M[t].type \in {"plain", "html"} /\ M[t].decodes
    <3> DEFINE k == M[t].in
    <3>1. k \in Walked(M) /\ k \in DOMAIN M /\ OwnText(M, k) = NoText
      BY <2>1, <2>5, <1>2, <1>3
    <3>2. t \in PartsIn(M, k) /\ t \in decodeSinglePart(M, k, M[t].type)
      BY <2>3, <2>5 DEF decodeSinglePart, PartsIn
    <3> HIDE DEF k
    <3>3. Texts(M, k, "plain") = NoText /\ Texts(M, k, "html") = NoText
      BY <3>1, <3>2 DEF OwnText
    <3>4. /\ \A j \in decodeSinglePart(M, k, "plain") : M[j].content = NoText
          /\ \A j \in decodeSinglePart(M, k, "html") : M[j].content = NoText
      BY <3>1, <3>3, TextsIs
    <3> QED
      BY <2>3, <2>5, <3>2, <3>4
  <2> QED
    BY <2>2, <2>4, <2>5 DEF TextsIn
<1> QED
  BY <1>1, <1>2, <1>5, <1>6

(* The same of a mail of one part, which is read as it is. *)
LEMMA ReadIsText ==
  ASSUME NEW M, IsMail(M), TextsIn(M) # {}
  PROVE  \E t \in DOMAIN M : Best(M, t) /\ M[t].content = extractContent(M).body
<1>1. CASE M[1].type = "multipart"
  BY <1>1, BodyIsText DEF extractContent, walkMultipart
<1>2. CASE M[1].type # "multipart"
  <2>1. DOMAIN M = {1} /\ M[1].in = 0
    <3>1. Len(M) \in Nat \ {0} /\ DOMAIN M = 1 .. Len(M)
      BY DEF IsMail
    <3>2. ~ (2 \in 2 .. Len(M))
      <4> SUFFICES ASSUME 2 \in 2 .. Len(M)
                   PROVE  FALSE
        OBVIOUS
      <4>1. M[2].in \in 1 .. 1 /\ M[M[2].in].type = "multipart"
        BY DEF IsMail
      <4>2. M[2].in = 1
        BY <4>1
      <4> QED
        BY <4>1, <4>2, <1>2
    <3>3. Len(M) = 1
      BY <3>1, <3>2
    <3> QED
      BY <3>1, <3>3 DEF IsMail
  <2>2. TextsIn(M) = {1}
    BY <2>1 DEF TextsIn
  <2>3. extractContent(M).body = M[1].content
    BY <1>2 DEF extractContent
  <2> QED
    BY <2>1, <2>2, <2>3 DEF Best
<1> QED
  BY <1>1, <1>2

(* A mail has the envelope of its own message, whatever mails the           *)
(* connection carried before; and its body is a text of the message if      *)
(* there is one, the plain one among alternatives, for messages of any      *)
(* parts in any depth (Session, extractContent and walkMultipart of the     *)
(* LMTP server, ReceiveExternalEmail).                                      *)
THEOREM EnvelopeKeptAlways == Spec => []EnvelopeKept
<1>1. IInv => EnvelopeKept
  <2> SUFFICES ASSUME IInv, NEW i \in Stored
               PROVE  LET m == mail[i].msg  parts == PartsOf[m] IN
                        /\ mail[i].from = FromOf[m] /\ mail[i].to = RcptOf[m]
                        /\ TextsOf[m] # {} =>
                             \E k \in TextsOf[m] :
                               /\ parts[k].content = mail[i].body
                               /\ parts[k].type = "html" =>
                                    \A j \in TextsOf[m] :
                                      parts[j].in = parts[k].in => parts[j].type = "html"
    BY DEF EnvelopeKept
  <2>1. PICK m, M : m = mail[i].msg /\ M = PartsOf[m]
    OBVIOUS
  <2>2. m \in Messages
    BY <2>1 DEF IInv, Typed, Stored, Rows
  <2>3. IsMail(M) /\ TextsOf[m] = TextsIn(M)
    BY <2>1, <2>2, MessagesAssumption DEF TextsOf
  <2>4. /\ mail[i].from = FromOf[m] /\ mail[i].to = RcptOf[m]
        /\ mail[i].body = extractContent(M).body
    BY <2>1, <2>2 DEF IInv, Made, Parsed
  <2>5. TextsIn(M) # {} =>
          \E k \in TextsIn(M) :
            /\ M[k].content = mail[i].body
            /\ M[k].type = "html" =>
                 \A j \in TextsIn(M) : M[j].in = M[k].in => M[j].type = "html"
    BY <2>3, <2>4, ReadIsText DEF Best
  <2> QED
    BY <2>1, <2>3, <2>4, <2>5
<1> QED
  BY <1>1, Invariant, PTL
=============================================================================
