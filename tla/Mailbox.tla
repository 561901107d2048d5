------------------------------ MODULE Mailbox ------------------------------
(***************************************************************************)
(* The mailbox of the email service: the tables user_emails and            *)
(* spam_senders, the transactions that deliver a mail into them, and the   *)
(* operations with which a user sorts his mail (read, star, spam, trash,   *)
(* inbox, delete, block and unblock a sender).                             *)
(*                                                                         *)
(* Every SQL statement is one step: PostgreSQL runs at READ COMMITTED, a   *)
(* single UPDATE or DELETE is atomic, sees the committed rows, and waits   *)
(* for a row that an open transaction has written.  Trash and Delete issue *)
(* four statements with no transaction around them; BlockSenders,          *)
(* UnblockSenders and the deliveries are transactions of several           *)
(* statements.  Steps of different requests interleave freely.             *)
(***************************************************************************)
EXTENDS FiniteSets

CONSTANTS
  Users,       \* the registered users
  Emails,      \* the mails that may be sent
  SenderOf,    \* emails.sender_id: a user, or Nobody for an external mail
  Nobody,      \* SQL's NULL sender; also the user of an idle request
  Trashers,    \* request slots that run Trash or Delete
  Blockers,    \* request slots that run BlockSenders
  Unblockers   \* request slots that run UnblockSenders

ASSUME NobodyAssumption == Nobody \notin Users
ASSUME SenderAssumption == SenderOf \in [Emails -> Users \cup {Nobody}]
ASSUME SlotAssumption   == Blockers \cap Unblockers = {}

VARIABLES
  rows,      \* the keys of user_emails that are committed
  flag,      \* for each Boolean column, the rows where it is true
  blocked,   \* spam_senders: pairs <<user, blocked sender>>
  delivery,  \* for each mail, the transaction that delivers it
  trash,     \* for each slot of Trashers, the local variables of the request
  tx,        \* for each slot of Blockers and Unblockers, its transaction
  disposed   \* history: the <<user, mail>> ever seen in the spam or the trash

vars == <<rows, flag, blocked, delivery, trash, tx, disposed>>

-----------------------------------------------------------------------------
(* A user has at most one row of each role for a mail: recipients of a mail *)
(* are distinct addresses, and a mail to oneself has a row of either role.  *)
Role == {"received", "sent"}
Key  == Users \X Emails \X Role
Mail == Users \X Emails

Column == {"read", "starred", "spam", "deleted", "inbox"}

Batches  == SUBSET Emails \ {{}}        \* ErrEmptyIDs rejects the empty batch
Blocking == Blockers \cup Unblockers

(* The rows a statement with WHERE user_id = u AND email_id IN (E) selects. *)
RowsOf(u, E) == {k \in rows : k[1] = u /\ k[2] \in E}

(* The mails of E of which user u has a row in the column c. *)
MailsIn(c, u, E) == {e \in E : \E k \in flag[c] : k[1] = u /\ k[2] = e}

(* The rows of u whose mail a member of S sent. *)
RowsFrom(u, S) == {k \in rows : k[1] = u /\ SenderOf[k[2]] \in S}

(* The rows a mail gets when its delivery to the users R commits. *)
NewRows(e, R) ==
  (R \X {e} \X {"received"})
    \cup (({SenderOf[e]} \cap Users) \X {e} \X {"sent"})

(* Rows written, and spam_senders entries inserted or deleted, by an open   *)
(* transaction: a statement of another request that touches one waits.      *)
LockedRows == UNION {tx[b].locked : b \in Blocking}
HeldPairs  == UNION {tx[b].held : b \in Blocking}

-----------------------------------------------------------------------------
NoDelivery == [status |-> "unsent", to |-> {}, left |-> {}, spam |-> {}]
IdleTrash  == [step |-> "idle", user |-> Nobody, toTrash |-> {}, toRemove |-> {}]
IdleTx     == [step |-> "idle", user |-> Nobody, senders |-> {},
               held |-> {}, locked |-> {}]

Init ==
  /\ rows = {}
  /\ flag = [c \in Column |-> {}]
  /\ blocked = {}
  /\ delivery = [e \in Emails |-> NoDelivery]
  /\ trash = [t \in Trashers |-> IdleTrash]
  /\ tx = [b \in Blocking |-> IdleTx]
  /\ disposed = {}

-----------------------------------------------------------------------------
(* Deliveries: sendEmailTx, SendDraft and ReceiveExternalEmail insert one   *)
(* row per internal recipient, a row for the sender, and commit.            *)

(* The transaction that delivers e to the users R begins. *)
BeginDelivery(e, R) ==
  /\ delivery[e].status = "unsent"
  /\ delivery' = [delivery EXCEPT ![e] =
       [status |-> "open", to |-> R, left |-> R, spam |-> {}]]
  /\ UNCHANGED <<rows, flag, blocked, trash, tx>>

(* Mutant: the row is inserted without a look at spam_senders. *)
InsertUnchecked(e, u) ==
  /\ delivery[e].status = "open"
  /\ u \in delivery[e].left
  /\ delivery' = [delivery EXCEPT ![e] =
       [status |-> "open", to |-> delivery[e].to,
        left |-> delivery[e].left \ {u}, spam |-> delivery[e].spam]]
  /\ UNCHANGED <<rows, flag, blocked, trash, tx>>

(* The row of recipient u; is_spam is computed from spam_senders now. *)
InsertUserEmail(e, u) ==
  /\ delivery[e].status = "open"
  /\ u \in delivery[e].left
  /\ LET d == delivery[e]
         caught == {v \in {u} : <<v, SenderOf[e]>> \in blocked}
     IN  delivery' = [delivery EXCEPT ![e] =
           [status |-> "open", to |-> d.to,
            left |-> d.left \ {u}, spam |-> d.spam \cup caught]]
  /\ UNCHANGED <<rows, flag, blocked, trash, tx>>

(* All rows are inserted, the sender's last and never as spam; commit. *)
CommitDelivery(e) ==
  /\ delivery[e].status = "open"
  /\ delivery[e].left = {}
  /\ LET new == NewRows(e, delivery[e].to)
     IN  /\ rows' = rows \cup new
         /\ flag' = [flag EXCEPT
              !["inbox"] = @ \cup new,
              !["spam"]  = @ \cup (delivery[e].spam \X {e} \X {"received"})]
  /\ delivery' = [delivery EXCEPT ![e] =
       [status |-> "sent", to |-> delivery[e].to, left |-> {}, spam |-> {}]]
  /\ UNCHANGED <<blocked, trash, tx>>

(* Any statement or the commit fails: the deferred rollback undoes it all,  *)
(* and a later attempt uses the mail e afresh.                              *)
RollbackDelivery(e) ==
  /\ delivery[e].status = "open"
  /\ delivery' = [delivery EXCEPT ![e] = NoDelivery]
  /\ UNCHANGED <<rows, flag, blocked, trash, tx>>

-----------------------------------------------------------------------------
(* Operations of one UPDATE statement.                                      *)

(* The statement writes the rows K, none of which is locked by another. *)
Writes(K, newFlag) ==
  /\ K \cap LockedRows = {}
  /\ flag' = newFlag
  /\ UNCHANGED <<rows, blocked, delivery, trash, tx>>

setUserEmailFlagsBatch(u, E, column, value) ==
  LET K == RowsOf(u, E)
  IN  Writes(K, [flag EXCEPT ![column] = IF value THEN @ \cup K ELSE @ \ K])

MarkEmailAsRead(u, E)   == setUserEmailFlagsBatch(u, E, "read", TRUE)
MarkEmailAsUnRead(u, E) == setUserEmailFlagsBatch(u, E, "read", FALSE)
Untrash(u, E)           == setUserEmailFlagsBatch(u, E, "deleted", FALSE)
Unfavorite(u, E)        == setUserEmailFlagsBatch(u, E, "starred", FALSE)
Unspam(u, E)            == setUserEmailFlagsBatch(u, E, "spam", FALSE)

(* Mutant: only the received row of a mail is starred. *)
FavoriteReceived(u, E) ==
  LET K == {k \in RowsOf(u, E) : k[3] = "received"} \ flag["spam"]
  IN  Writes(K, [flag EXCEPT !["starred"] = @ \cup K])

(* Spam is never starred: the WHERE clause skips the rows with is_spam. *)
Favorite(u, E) ==
  LET K == RowsOf(u, E) \ flag["spam"]
  IN  Writes(K, [flag EXCEPT !["starred"] = @ \cup K])

(* Mutant: the spam stays in the trash it is in. *)
MarkedSpamOnly(K) ==
  [flag EXCEPT !["spam"] = @ \cup K, !["starred"] = @ \ K]

(* Marking rows as spam takes them out of the favorites and the trash. *)
MarkedSpam(K) ==
  [flag EXCEPT !["spam"]    = @ \cup K,
               !["starred"] = @ \ K,
               !["deleted"] = @ \ K]

(* A user cannot mark as spam the mails he sent himself. *)
Spam(u, E) ==
  LET K == {k \in RowsOf(u, E) : SenderOf[k[2]] # u}
  IN  Writes(K, MarkedSpam(K))

(* Mutant: a mail is taken out of the inbox whichever way it moves. *)
HideFromInbox(u, e) ==
  LET K == RowsOf(u, {e}) \ flag["spam"]
  IN  Writes(K, [flag EXCEPT !["inbox"] = @ \ K])

(* is_inbox = NOT is_inbox, asked for by the folder service. *)
SwitchIsInbox(u, e) ==
  LET K == RowsOf(u, {e}) \ flag["spam"]
  IN  Writes(K, [flag EXCEPT !["inbox"] = (@ \ K) \cup (K \ @)])

-----------------------------------------------------------------------------
(* Trash, and Delete whose body is the same: the spam of the batch is to be *)
(* removed, the mails already in the trash too, and the others trashed.     *)
(* Each of the four statements runs by itself.                              *)

(* GetSpamEmailIDs. *)
Trash(t, u, E) ==
  /\ trash[t].step = "idle"
  /\ LET spamIDs == MailsIn("spam", u, E)
     IN  trash' = [trash EXCEPT ![t] =
           [step |-> "spamRead", user |-> u,
            toTrash |-> E \ spamIDs, toRemove |-> spamIDs]]
  /\ UNCHANGED <<rows, flag, blocked, delivery, tx>>

Delete(t, u, E) == Trash(t, u, E)

(* Mutant: the two branches on "already in the trash" are swapped. *)
ReadDeletedSwapped(t) ==
  /\ trash[t].step = "spamRead"
  /\ LET r == trash[t]
         deletedIDs == MailsIn("deleted", r.user, r.toTrash)
     IN  trash' = [trash EXCEPT ![t] =
           [step |-> "decided", user |-> r.user, toTrash |-> deletedIDs,
            toRemove |-> r.toRemove \cup (r.toTrash \ deletedIDs)]]
  /\ UNCHANGED <<rows, flag, blocked, delivery, tx>>

(* GetDeletedEmailIDs of those that were not spam. *)
ReadDeleted(t) ==
  /\ trash[t].step = "spamRead"
  /\ LET r == trash[t]
         deletedIDs == MailsIn("deleted", r.user, r.toTrash)
     IN  trash' = [trash EXCEPT ![t] =
           [step |-> "decided", user |-> r.user,
            toTrash |-> r.toTrash \ deletedIDs,
            toRemove |-> r.toRemove \cup deletedIDs]]
  /\ UNCHANGED <<rows, flag, blocked, delivery, tx>>

(* TrashEmails: rows that are spam by now are skipped. *)
TrashEmails(t) ==
  /\ trash[t].step = "decided"
  /\ LET K == RowsOf(trash[t].user, trash[t].toTrash) \ flag["spam"]
     IN  /\ K \cap LockedRows = {}
         /\ flag' = [flag EXCEPT !["deleted"] = @ \cup K]
  /\ trash' = [trash EXCEPT ![t] =
       [step |-> "trashed", user |-> trash[t].user,
        toTrash |-> {}, toRemove |-> trash[t].toRemove]]
  /\ UNCHANGED <<rows, blocked, delivery, tx>>

(* Mutant: rows that an open transaction has written are removed under it. *)
DeleteUnderLock(t) ==
  /\ trash[t].step = "trashed"
  /\ LET K == RowsOf(trash[t].user, trash[t].toRemove)
     IN  /\ rows' = rows \ K
         /\ flag' = [c \in Column |-> flag[c] \ K]
  /\ trash' = [trash EXCEPT ![t] = IdleTrash]
  /\ UNCHANGED <<blocked, delivery, tx>>

(* DeleteUserEmailsBatch: the rows go, whatever their flags are by now. *)
DeleteUserEmailsBatch(t) ==
  /\ trash[t].step = "trashed"
  /\ LET K == RowsOf(trash[t].user, trash[t].toRemove)
     IN  /\ K \cap LockedRows = {}
         /\ rows' = rows \ K
         /\ flag' = [c \in Column |-> flag[c] \ K]
  /\ trash' = [trash EXCEPT ![t] = IdleTrash]
  /\ UNCHANGED <<blocked, delivery, tx>>

(* A statement fails, the client goes away or the service stops: what the   *)
(* earlier statements did stays.                                            *)
TrashFails(t) ==
  /\ trash[t].step # "idle"
  /\ trash' = [trash EXCEPT ![t] = IdleTrash]
  /\ UNCHANGED <<rows, flag, blocked, delivery, tx>>

-----------------------------------------------------------------------------
(* BlockSenders and UnblockSenders: a statement on spam_senders, a          *)
(* statement on user_emails, and the commit.                                *)

(* INSERT ... ON CONFLICT DO NOTHING: only missing pairs are written, and a *)
(* pair that another transaction is inserting or deleting is waited for.    *)
BlockSenders(b, u, S) ==
  /\ tx[b].step = "idle"
  /\ ({u} \X S) \cap HeldPairs = {}
  /\ tx' = [tx EXCEPT ![b] =
       [step |-> "pairs", user |-> u, senders |-> S,
        held |-> ({u} \X S) \ blocked, locked |-> {}]]
  /\ UNCHANGED <<rows, flag, blocked, delivery, trash>>

(* DELETE FROM spam_senders: only committed pairs are seen. *)
UnblockSenders(b, u, S) ==
  /\ tx[b].step = "idle"
  /\ ({u} \X S) \cap blocked \cap HeldPairs = {}
  /\ tx' = [tx EXCEPT ![b] =
       [step |-> "pairs", user |-> u, senders |-> S,
        held |-> ({u} \X S) \cap blocked, locked |-> {}]]
  /\ UNCHANGED <<rows, flag, blocked, delivery, trash>>

(* UPDATE user_emails: the rows committed so far are written and locked. *)
UpdateFromSenders(b) ==
  /\ tx[b].step = "pairs"
  /\ LET K == RowsFrom(tx[b].user, tx[b].senders)
     IN  /\ K \cap LockedRows = {}
         /\ tx' = [tx EXCEPT ![b] =
              [step |-> "rows", user |-> tx[b].user, senders |-> tx[b].senders,
               held |-> tx[b].held, locked |-> K]]
  /\ UNCHANGED <<rows, flag, blocked, delivery, trash>>

(* Mutant: the handler returns without the commit, and no rollback runs. *)
CommitForgotten(b) ==
  /\ tx[b].step = "rows"
  /\ UNCHANGED <<rows, flag, blocked, delivery, trash, tx>>

CommitBlock(b) ==
  /\ tx[b].step = "rows"
  /\ blocked' = blocked \cup tx[b].held
  /\ flag' = MarkedSpam(tx[b].locked)
  /\ tx' = [tx EXCEPT ![b] = IdleTx]
  /\ UNCHANGED <<rows, delivery, trash>>

CommitUnblock(b) ==
  /\ tx[b].step = "rows"
  /\ blocked' = blocked \ tx[b].held
  /\ flag' = [flag EXCEPT !["spam"] = @ \ tx[b].locked]
  /\ tx' = [tx EXCEPT ![b] = IdleTx]
  /\ UNCHANGED <<rows, delivery, trash>>

(* The deferred rollback. *)
RollbackTx(b) ==
  /\ tx[b].step # "idle"
  /\ tx' = [tx EXCEPT ![b] = IdleTx]
  /\ UNCHANGED <<rows, flag, blocked, delivery, trash>>

-----------------------------------------------------------------------------
Deliver ==
  \E e \in Emails :
    \/ \E R \in SUBSET Users : BeginDelivery(e, R)
    \/ \E u \in Users : InsertUserEmail(e, u)
    \/ CommitDelivery(e)
    \/ RollbackDelivery(e)

Sort ==
  \E u \in Users, E \in Batches :
    \/ MarkEmailAsRead(u, E)
    \/ MarkEmailAsUnRead(u, E)
    \/ Untrash(u, E)
    \/ Favorite(u, E)
    \/ Unfavorite(u, E)
    \/ Spam(u, E)
    \/ Unspam(u, E)

Refile == \E u \in Users, e \in Emails : SwitchIsInbox(u, e)

TrashStep(t) ==
  \/ ReadDeleted(t)
  \/ TrashEmails(t)
  \/ DeleteUserEmailsBatch(t)

Discard ==
  \E t \in Trashers :
    \/ \E u \in Users, E \in Batches : Trash(t, u, E) \/ Delete(t, u, E)
    \/ TrashStep(t)
    \/ TrashFails(t)

BlockStep(b)   == UpdateFromSenders(b) \/ CommitBlock(b)
UnblockStep(b) == UpdateFromSenders(b) \/ CommitUnblock(b)

Filter ==
  \/ \E b \in Blockers :
       \/ \E u \in Users, S \in SUBSET Users \ {{}} : BlockSenders(b, u, S)
       \/ BlockStep(b)
       \/ RollbackTx(b)
  \/ \E b \in Unblockers :
       \/ \E u \in Users, S \in SUBSET Users \ {{}} : UnblockSenders(b, u, S)
       \/ UnblockStep(b)
       \/ RollbackTx(b)

Step == Deliver \/ Sort \/ Refile \/ Discard \/ Filter

(* The history records every mail that is in the spam or in the trash. *)
Record ==
  disposed' = disposed \cup
    {m \in Mail : \E k \in flag'["spam"] \cup flag'["deleted"] :
                    <<k[1], k[2]>> = m}

Next == Step /\ Record

Spec == Init /\ [][Next]_vars

-----------------------------------------------------------------------------
(* Types of the variables.  A flag belongs to a row that exists, and a slot *)
(* that is idle holds nothing.                                              *)
DeliveryState ==
  [status : {"unsent", "open", "sent"}, to : SUBSET Users,
   left : SUBSET Users, spam : SUBSET Users]
TrashState ==
  [step : {"idle", "spamRead", "decided", "trashed"}, user : Users \cup {Nobody},
   toTrash : SUBSET Emails, toRemove : SUBSET Emails]
TxState ==
  [step : {"idle", "pairs", "rows"}, user : Users \cup {Nobody},
   senders : SUBSET Users, held : SUBSET (Users \X Users), locked : SUBSET Key]

TypeOK ==
  /\ rows \subseteq Key
  /\ flag \in [Column -> SUBSET rows]
  /\ blocked \subseteq Users \X Users
  /\ delivery \in [Emails -> DeliveryState]
  /\ trash \in [Trashers -> TrashState]
  /\ tx \in [Blocking -> TxState]
  /\ disposed \subseteq Mail

(* Spam, trash and favorites exclude each other as the folders of the       *)
(* interface need: a mail in the spam is neither starred nor in the trash.  *)
(* Favorite and TrashEmails decide on is_spam in their own WHERE clause,    *)
(* after the caller read it; Spam and BlockSenders clear both flags.        *)
SpamExclusive == flag["spam"] \cap (flag["starred"] \cup flag["deleted"]) = {}

(* A mail to oneself has two rows, and every operation treats them alike:   *)
(* both exist or neither, with the same flags, or one mail would be in the  *)
(* trash in one view and in the inbox in another.  This needs that no       *)
(* sender can be blocked: a user who blocks himself gets the received row   *)
(* of his next mail to himself as spam, and the sent row not.               *)
SelfMailInStep ==
  \A u \in Users, e \in Emails :
    (SenderOf[e] = u /\ u \in delivery[e].to /\ delivery[e].status = "sent")
      => /\ <<u, e, "received">> \in rows <=> <<u, e, "sent">> \in rows
         /\ \A c \in Column :
              <<u, e, "received">> \in flag[c] <=> <<u, e, "sent">> \in flag[c]

(* The abstract life of a mail, read off the rows and the history.          *)
lifeOf(m) ==
  IF \E k \in rows : <<k[1], k[2]>> = m
  THEN IF m \in disposed THEN "binned" ELSE "kept"
  ELSE IF /\ delivery[m[2]].status = "sent"
          /\ m[1] \in delivery[m[2]].to \cup {SenderOf[m[2]]}
       THEN "gone" ELSE "absent"

Life == INSTANCE MailLife WITH life <- [m \in Mail |-> lifeOf(m)]

(* The mailbox implements MailLife: no interleaving of the four statements  *)
(* of a Trash with other requests, and no failure between them, destroys a  *)
(* mail that was never in the spam or the trash, or delivers it twice.      *)
LifeSpec == Life!Spec

-----------------------------------------------------------------------------
(* A request that has begun goes on to its end: its handler is a goroutine  *)
(* that nothing stops, and PostgreSQL grants a row lock to the waiter that  *)
(* is first in the queue, so that a statement is not overtaken for ever.    *)
Fairness ==
  /\ \A t \in Trashers : SF_vars(TrashStep(t) /\ Record)
  /\ \A b \in Blockers : SF_vars(BlockStep(b) /\ Record)
  /\ \A b \in Unblockers : SF_vars(UnblockStep(b) /\ Record)

FairSpec == Spec /\ Fairness

(* Requests that wait for each other's rows and pairs all end: Block and    *)
(* Unblock lock the pairs of spam_senders before the rows of user_emails.   *)
RequestsEnd ==
  /\ \A t \in Trashers : trash[t].step # "idle" ~> trash[t].step = "idle"
  /\ \A b \in Blocking : tx[b].step # "idle" ~> tx[b].step = "idle"

=============================================================================
