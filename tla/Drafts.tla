------------------------------- MODULE Drafts -------------------------------
(***************************************************************************)
(* Drafts: rows of the table emails with is_draft = true, and their rows   *)
(* of email_recipients.  A draft is created, edited and removed by its     *)
(* owner, and SendDraft turns it into a mail.  SendDraft reads the draft   *)
(* in two statements and decides on what it read, and only then opens the  *)
(* transaction whose UPDATE locks the row; UpdateDraft is a transaction    *)
(* that locks the row with its first statement.  At READ COMMITTED a       *)
(* statement that waited for the lock looks at the row again.              *)
(***************************************************************************)
EXTENDS Naturals, FiniteSets

CONSTANTS
  Ids,         \* emails.id; none is given out twice
  Users,       \* registered users: owners, and addresses with a mailbox
  Outsiders,   \* addresses of other mail servers
  Texts,       \* header and body together
  Partial,     \* the text of a draft whose header or body is empty
  Nobody,      \* the user, draft or text of an idle request
  Creators, Editors, Senders,   \* request slots
  MaxPerUser   \* drafts.max_per_user of the configuration

ASSUME PartialAssumption == Partial \in Texts
ASSUME MaxAssumption     == MaxPerUser \in Nat \ {0}
ASSUME SlotsAssumption   == IsFiniteSet(Creators)

VARIABLES
  mail,       \* the committed rows of emails, with their recipients
  creating,   \* for each slot, the request it runs
  editing,
  sending,
  stale,      \* history: SendDrafts whose draft was edited after they read it
  overtaken   \* history: mails such a SendDraft has sent

vars == <<mail, creating, editing, sending, stale, overtaken>>

Addresses == Users \cup Outsiders

(* "got" are the users that have a received row of the mail in user_emails. *)
NoMail == [state |-> "absent", owner |-> Nobody, text |-> Nobody,
           to |-> {}, got |-> {}]

IsDraft(d, u) == mail[d].state = "draft" /\ mail[d].owner = u
DraftsOf(u)   == {d \in Ids : IsDraft(d, u)}

(* An open transaction has written the row of d. *)
Locked(d) ==
  \/ \E e \in Editors : editing[e].step = "written" /\ editing[e].draft = d
  \/ \E s \in Senders : sending[s].step = "marked" /\ sending[s].draft = d

(* What a request to create or to edit carries is looked at when it is      *)
(* written, and is chosen then.                                             *)
IdleCreate == [step |-> "idle", user |-> Nobody]
IdleEdit   == [step |-> "idle", draft |-> Nobody]
IdleSend   == [step |-> "idle", user |-> Nobody, draft |-> Nobody,
               text |-> Nobody, to |-> {}]

Init ==
  /\ mail = [d \in Ids |-> NoMail]
  /\ creating = [c \in Creators |-> IdleCreate]
  /\ editing = [e \in Editors |-> IdleEdit]
  /\ sending = [s \in Senders |-> IdleSend]
  /\ stale = {} /\ overtaken = {}

-----------------------------------------------------------------------------
(* Mutant: the limit itself is let through. *)
CreateAtLimit(c, u) ==
  /\ creating[c].step = "idle"
  /\ Cardinality(DraftsOf(u)) <= MaxPerUser
  /\ creating' = [creating EXCEPT ![c] = [step |-> "counted", user |-> u]]
  /\ UNCHANGED <<mail, editing, sending, stale, overtaken>>

(* CountDrafts; at the limit the request is refused. *)
CreateDraft(c, u) ==
  /\ creating[c].step = "idle"
  /\ Cardinality(DraftsOf(u)) < MaxPerUser
  /\ creating' = [creating EXCEPT ![c] = [step |-> "counted", user |-> u]]
  /\ UNCHANGED <<mail, editing, sending, stale, overtaken>>

(* The transaction that inserts the row and the recipients; nothing waits   *)
(* for it or sees it before its commit.                                     *)
InsertDraft(c, d, t, R) ==
  /\ creating[c].step = "counted"
  /\ mail[d] = NoMail
  /\ mail' = [mail EXCEPT ![d] =
       [state |-> "draft", owner |-> creating[c].user,
        text |-> t, to |-> R, got |-> {}]]
  /\ creating' = [creating EXCEPT ![c] = IdleCreate]
  /\ UNCHANGED <<editing, sending, stale, overtaken>>

CreateFails(c) ==
  /\ creating[c].step = "counted"
  /\ creating' = [creating EXCEPT ![c] = IdleCreate]
  /\ UNCHANGED <<mail, editing, sending, stale, overtaken>>

-----------------------------------------------------------------------------
(* The UPDATE of UpdateDraft: it needs a draft of the user, and its lock.   *)
UpdateDraft(e, u, d) ==
  /\ editing[e].step = "idle"
  /\ IsDraft(d, u) /\ ~ Locked(d)
  /\ editing' = [editing EXCEPT ![e] = [step |-> "written", draft |-> d]]
  /\ UNCHANGED <<mail, creating, sending, stale, overtaken>>

(* The recipients are deleted and inserted anew, and the commit shows it    *)
(* all.  The reading of the draft that follows only makes up the reply.     *)
CommitUpdate(e, t, R) ==
  /\ editing[e].step = "written"
  /\ LET d == editing[e].draft
     IN  /\ mail' = [mail EXCEPT ![d] =
              [state |-> "draft", owner |-> mail[d].owner,
               text |-> t, to |-> R, got |-> {}]]
         /\ stale' = stale \cup {s \in Senders : sending[s].draft = d}
  /\ editing' = [editing EXCEPT ![e] = IdleEdit]
  /\ UNCHANGED <<creating, sending, overtaken>>

RollbackUpdate(e) ==
  /\ editing[e].step = "written"
  /\ editing' = [editing EXCEPT ![e] = IdleEdit]
  /\ UNCHANGED <<mail, creating, sending, stale, overtaken>>

Removed(d) == [NoMail EXCEPT !.state = "removed"]

(* Mutant: whatever the user has sent is removed as well. *)
DeleteMails(u, D) ==
  LET gone == {d \in D : mail[d].owner = u}
  IN  /\ \A d \in gone : ~ Locked(d)
      /\ mail' = [d \in Ids |-> IF d \in gone THEN Removed(d) ELSE mail[d]]
      /\ UNCHANGED <<creating, editing, sending, stale, overtaken>>

(* One DELETE; ids that are no drafts of the user are skipped. *)
DeleteDrafts(u, D) ==
  LET gone == {d \in D : IsDraft(d, u)}
  IN  /\ \A d \in gone : ~ Locked(d)
      /\ mail' = [d \in Ids |-> IF d \in gone THEN Removed(d) ELSE mail[d]]
      /\ UNCHANGED <<creating, editing, sending, stale, overtaken>>

-----------------------------------------------------------------------------
EndSend(s) ==
  /\ sending' = [sending EXCEPT ![s] = IdleSend]
  /\ stale' = stale \ {s}

Goes(s, step, u, d, t, R) ==
  /\ sending' = [sending EXCEPT ![s] =
       [step |-> step, user |-> u, draft |-> d, text |-> t, to |-> R]]
  /\ stale' = stale

(* GetDraftByID, first statement: the row. *)
SendDraft(s, u, d) ==
  /\ sending[s].step = "idle"
  /\ IsDraft(d, u)
  /\ Goes(s, "row", u, d, mail[d].text, {})
  /\ UNCHANGED <<mail, creating, editing, overtaken>>

(* Mutant: a draft is sent whether or not it is complete. *)
FillUnchecked(s) ==
  /\ sending[s].step = "row"
  /\ LET r == sending[s]
     IN  Goes(s, "read", r.user, r.draft, r.text, mail[r.draft].to)
  /\ UNCHANGED <<mail, creating, editing, overtaken>>

(* GetDraftByID, second statement: the recipients, whatever became of the   *)
(* row.  A draft without header, body or recipients is not ready.           *)
fillRecipients(s) ==
  /\ sending[s].step = "row"
  /\ LET r == sending[s]
     IN  IF r.text = Partial \/ mail[r.draft].to = {}
         THEN EndSend(s)
         ELSE Goes(s, "read", r.user, r.draft, r.text, mail[r.draft].to)
  /\ UNCHANGED <<mail, creating, editing, overtaken>>

(* Mutant: the UPDATE does not ask whether the row is a draft still. *)
MarkUnasked(s) ==
  /\ sending[s].step = "read"
  /\ ~ Locked(sending[s].draft)
  /\ LET r == sending[s] IN Goes(s, "marked", r.user, r.draft, r.text, r.to)
  /\ UNCHANGED <<mail, creating, editing, overtaken>>

(* The recipients are resolved, and the transaction begins with the UPDATE  *)
(* that takes the draft; a mail that is no draft any more is not found.     *)
MarkDraftAsSentTx(s) ==
  /\ sending[s].step = "read"
  /\ ~ Locked(sending[s].draft)
  /\ LET r == sending[s]
     IN  IF IsDraft(r.draft, r.user)
         THEN Goes(s, "marked", r.user, r.draft, r.text, r.to)
         ELSE EndSend(s)
  /\ UNCHANGED <<mail, creating, editing, overtaken>>

(* The recipients that were read are inserted beside those in the table,    *)
(* the ones with a mailbox get a row of user_emails, and the commit.        *)
CommitSend(s) ==
  /\ sending[s].step = "marked"
  /\ LET r == sending[s]
         d == r.draft
     IN  /\ mail' = [mail EXCEPT ![d] =
              [state |-> "sent", owner |-> mail[d].owner, text |-> mail[d].text,
               to |-> mail[d].to \cup r.to, got |-> r.to \cap Users]]
         /\ overtaken' = overtaken \cup {x \in {d} : s \in stale}
  /\ EndSend(s)
  /\ UNCHANGED <<creating, editing>>

(* A recipient is unknown, a call or a statement fails, or the service      *)
(* stops: nothing of the transaction remains.                               *)
SendFails(s) ==
  /\ sending[s].step # "idle"
  /\ EndSend(s)
  /\ UNCHANGED <<mail, creating, editing, overtaken>>

-----------------------------------------------------------------------------
Create ==
  \E c \in Creators :
    \/ \E u \in Users : CreateDraft(c, u)
    \/ \E d \in Ids, t \in Texts, R \in SUBSET Addresses : InsertDraft(c, d, t, R)
    \/ CreateFails(c)

Edit ==
  \E e \in Editors :
    \/ \E u \in Users, d \in Ids : UpdateDraft(e, u, d)
    \/ \E t \in Texts, R \in SUBSET Addresses : CommitUpdate(e, t, R)
    \/ RollbackUpdate(e)

Remove == \E u \in Users, D \in SUBSET Ids \ {{}} : DeleteDrafts(u, D)

Send ==
  \E s \in Senders :
    \/ \E u \in Users, d \in Ids : SendDraft(s, u, d)
    \/ fillRecipients(s)
    \/ MarkDraftAsSentTx(s)
    \/ CommitSend(s)
    \/ SendFails(s)

Next == Create \/ Edit \/ Remove \/ Send

Spec == Init /\ [][Next]_vars

-----------------------------------------------------------------------------
(* Types; and a row that an open transaction has written is a draft still,   *)
(* and no other transaction has written it.                                 *)
MailRow ==
  [state : {"absent", "draft", "sent", "removed"}, owner : Users \cup {Nobody},
   text : Texts \cup {Nobody}, to : SUBSET Addresses, got : SUBSET Users]

TypeOK ==
  /\ mail \in [Ids -> MailRow]
  /\ creating \in [Creators ->
       [step : {"idle", "counted"}, user : Users \cup {Nobody}]]
  /\ editing \in [Editors ->
       [step : {"idle", "written"}, draft : Ids \cup {Nobody}]]
  /\ sending \in [Senders ->
       [step : {"idle", "row", "read", "marked"}, user : Users \cup {Nobody},
        draft : Ids \cup {Nobody}, text : Texts \cup {Nobody},
        to : SUBSET Addresses]]
  /\ stale \subseteq Senders /\ overtaken \subseteq Ids
  /\ \A e \in Editors : editing[e].step = "written" =>
       /\ mail[editing[e].draft].state = "draft"
       /\ \A f \in Editors \ {e} :
            editing[f].step = "written" => editing[f].draft # editing[e].draft
  /\ \A s \in Senders : sending[s].step = "marked" =>
       /\ IsDraft(sending[s].draft, sending[s].user)
       /\ \A r \in Senders \ {s} :
            sending[r].step = "marked" => sending[r].draft # sending[s].draft
       /\ \A e \in Editors :
            editing[e].step = "written" => editing[e].draft # sending[s].draft

(* A mail that was sent from a draft was complete, and the users it lists   *)
(* as recipients are the ones that have received it, although SendDraft     *)
(* decides on a draft that it read before it locked it.  The exception is a *)
(* mail edited in between: it may be incomplete, and it lists the           *)
(* recipients of the edit too, who have received nothing.                   *)
SentAsRead ==
  \A d \in Ids : mail[d].state = "sent" =>
    /\ mail[d].got \subseteq mail[d].to
    /\ d \notin overtaken =>
         /\ mail[d].text # Partial
         /\ mail[d].to # {}
         /\ mail[d].got = mail[d].to \cap Users

(* CreateDraft counts in one statement and inserts in another: a user has   *)
(* at most one draft beyond the limit for each creation that runs beside    *)
(* another, whatever is removed, sent or rolled back meanwhile.             *)
DraftOverrun ==
  \A u \in Users :
    Cardinality(DraftsOf(u)) + 1 <= MaxPerUser + Cardinality(Creators)

lifeOf(d) ==
  CASE mail[d].state = "absent"  -> [phase |-> "absent"]
    [] mail[d].state = "removed" -> [phase |-> "removed"]
    [] mail[d].state = "draft"   -> [phase |-> "draft", text |-> mail[d].text]
    [] mail[d].state = "sent"    -> [phase |-> "sent", text |-> mail[d].text,
                                     got |-> mail[d].got]

Life == INSTANCE DraftLife WITH life <- [d \in Ids |-> lifeOf(d)]

(* Drafts implement DraftLife: requests that send, edit and remove the same *)
(* draft at the same time never send it twice, and never change or remove   *)
(* it once it is sent, although each of them saw a draft when it began.     *)
DraftLifeSpec == Life!Spec

=============================================================================
