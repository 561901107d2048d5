----------------------------- MODULE SpamFilter -----------------------------
(***************************************************************************)
(* What blocking a sender achieves.  InsertUserEmail decides is_spam from  *)
(* the committed rows of spam_senders, and BlockSendersBatch marks the     *)
(* committed rows of user_emails: a delivery and a block that are open at  *)
(* the same time can miss each other.  The history variable "exempt" notes *)
(* exactly the mails of blocked senders that may stay out of the spam: the *)
(* ones the user took out, and the ones whose delivery crossed the block.  *)
(***************************************************************************)
EXTENDS Mailbox

VARIABLE exempt

filterVars == <<vars, exempt>>

MailsOf(K) == {<<k[1], k[2]>> : k \in K}

(* The delivery of e has decided that its row for u is not spam, while a    *)
(* block of its sender has already chosen the rows it will mark.            *)
Crossing ==
  {m \in Mail :
     LET d == delivery[m[2]] IN
     /\ d.status = "open"
     /\ m[1] \in d.to \ (d.left \cup d.spam)
     /\ \E b \in Blockers :
          /\ tx[b].step = "rows"
          /\ tx[b].user = m[1]
          /\ SenderOf[m[2]] \in tx[b].senders}

FilterInit == Init /\ exempt = {}

(* The steps that take mails out of the spam at the user's wish, the step   *)
(* that puts mails back into it, and the others.                            *)
TakeOut ==
  \/ \E u \in Users, E \in Batches :
       Unspam(u, E) /\ exempt' = exempt \cup ({u} \X E)
  \/ \E x \in Unblockers :
       CommitUnblock(x) /\ exempt' = exempt \cup MailsOf(tx[x].locked)

PutBack ==
  \E b \in Blockers :
    CommitBlock(b) /\ exempt' = exempt \ MailsOf(tx[b].locked)

SortOther ==
  \E u \in Users, E \in Batches :
    \/ MarkEmailAsRead(u, E) \/ MarkEmailAsUnRead(u, E)
    \/ Untrash(u, E)
    \/ Favorite(u, E) \/ Unfavorite(u, E)
    \/ Spam(u, E)

FilterOther ==
  \/ \E u \in Users, S \in SUBSET Users \ {{}} :
       \/ \E b \in Blockers : BlockSenders(b, u, S)
       \/ \E x \in Unblockers : UnblockSenders(x, u, S)
  \/ \E b \in Blocking : UpdateFromSenders(b) \/ RollbackTx(b)

FilterNext ==
  /\ \/ TakeOut
     \/ PutBack
     \/ /\ Deliver \/ SortOther \/ Refile \/ Discard \/ FilterOther
        /\ exempt' = exempt \cup Crossing'
  /\ Record

FilterSpec == FilterInit /\ [][FilterNext]_filterVars

FairFilterSpec == FilterSpec /\ Fairness

(* A received mail of a blocked sender is in the spam, unless the user took *)
(* it out after the last block that covered it, or its delivery crossed     *)
(* that block.  The code does not close that race: nothing locks            *)
(* spam_senders while a delivery that has read it is open.                  *)
BlockedIsSpam ==
  \A k \in rows :
    (k[3] = "received" /\ <<k[1], SenderOf[k[2]]>> \in blocked)
      => k \in flag["spam"] \/ <<k[1], k[2]>> \in exempt

=============================================================================
