---------------------------- MODULE FilingProofs ----------------------------
(***************************************************************************)
(* Proofs about the mailbox, the table of folders and their composition,   *)
(* for every set of users, mails, folders and requests.  First Mailbox and *)
(* SpamFilter: the types, that spam excludes the other folders, that the   *)
(* two rows of a mail to oneself agree, that a mail keeps to its abstract  *)
(* life, and that a block covers every mail but those in "exempt".  Then   *)
(* FolderTable and Filing: how far concurrent requests can overshoot the   *)
(* limit of folders, that the composition of the two services keeps what   *)
(* each promises, and how folders and inbox agree: the row of a mail is in *)
(* the inbox or in a folder but for an odd number of switches that are     *)
(* still to come.                                                          *)
(***************************************************************************)
EXTENDS Filing, SpamFilter, FiniteSetTheorems, SequenceTheorems, TLAPS

(* The deliveries decide about their own recipients only, and a transaction *)
(* locks rows that exist: without it a filter could flag a row that a       *)
(* Delete removed meanwhile.                                                *)
Bounded ==
  /\ \A e \in Emails : /\ delivery[e].left \subseteq delivery[e].to
                       /\ delivery[e].spam \subseteq delivery[e].to
  /\ \A b \in Blocking : tx[b].locked \subseteq rows

TypeInv == TypeOK /\ Bounded

-----------------------------------------------------------------------------
LEMMA RowSets ==
  ASSUME TypeOK
  PROVE  /\ \A u, E : RowsOf(u, E) \subseteq rows
         /\ \A u, S : RowsFrom(u, S) \subseteq rows
         /\ \A c, u, E : MailsIn(c, u, E) \subseteq E
  BY DEF RowsOf, RowsFrom, MailsIn

LEMMA NewRowsType ==
  ASSUME NEW e \in Emails, NEW R \in SUBSET Users
  PROVE  NewRows(e, R) \subseteq Key
  BY DEF NewRows, Key, Role

LEMMA LockedByOne ==
  ASSUME NEW b \in Blocking
  PROVE  tx[b].locked \subseteq LockedRows
  BY DEF LockedRows

(* A statement on the rows K keeps the types and the bounds. *)
LEMMA WritesType ==
  ASSUME TypeInv, NEW K, NEW F, F \in [Column -> SUBSET rows], Writes(K, F)
  PROVE  rows' = rows /\ flag' \in [Column -> SUBSET rows'] /\ Bounded'
  BY DEF Writes, TypeInv, TypeOK, Bounded

LEMMA InitType == Init => TypeInv
  BY NobodyAssumption DEF Init, TypeInv, TypeOK, Bounded, NoDelivery, IdleTrash,
     IdleTx, DeliveryState, TrashState, TxState

-----------------------------------------------------------------------------
(* Type correctness, group of actions by group of actions.  Record is part  *)
(* of every step and writes disposed alone.                                 *)
LEMMA RecordType == TypeOK /\ Record => (disposed \subseteq Mail)'
  BY DEF TypeOK, Record

LEMMA DeliverType == TypeInv /\ Deliver /\ Record => TypeInv'
<1>. SUFFICES ASSUME TypeInv, Record, NEW e \in Emails,
                     \/ \E R \in SUBSET Users : BeginDelivery(e, R)
                     \/ \E u \in Users : InsertUserEmail(e, u)
                     \/ CommitDelivery(e)
                     \/ RollbackDelivery(e)
              PROVE  TypeInv'
  BY DEF Deliver
<1>. USE DEF TypeInv
<1>0. (disposed \subseteq Mail)'
  BY RecordType
<1>1. ASSUME NEW R \in SUBSET Users, BeginDelivery(e, R)
      PROVE  TypeInv'
  BY <1>0, <1>1 DEF BeginDelivery, TypeOK, Bounded, DeliveryState
<1>2. ASSUME NEW u \in Users, InsertUserEmail(e, u)
      PROVE  TypeInv'
  BY <1>0, <1>2 DEF InsertUserEmail, TypeOK, Bounded, DeliveryState
<1>3. CASE CommitDelivery(e)
  <2>. DEFINE new  == NewRows(e, delivery[e].to)
              mark == delivery[e].spam \X {e} \X {"received"}
  <2>1. delivery[e].to \in SUBSET Users
    BY DEF TypeOK, DeliveryState
  <2>2. mark \subseteq new
    BY DEF Bounded, NewRows
  <2>3. rows' = rows \cup new /\ rows' \subseteq Key
    BY <1>3, <2>1, NewRowsType DEF CommitDelivery, TypeOK
  <2>4. flag' \in [Column -> SUBSET rows']
    <3>1. flag' = [flag EXCEPT !["inbox"] = @ \cup new, !["spam"] = @ \cup mark]
      BY <1>3 DEF CommitDelivery
    <3>. QED
      BY <3>1, <2>2, <2>3 DEF TypeOK
  <2>5. delivery' \in [Emails -> DeliveryState]
    BY <1>3 DEF CommitDelivery, TypeOK, DeliveryState
  <2>6. Bounded'
    BY <1>3, <2>3 DEF CommitDelivery, Bounded, TypeOK, DeliveryState
  <2>. QED
    BY <1>0, <1>3, <2>3, <2>4, <2>5, <2>6 DEF CommitDelivery, TypeOK
<1>4. CASE RollbackDelivery(e)
  BY <1>0, <1>4 DEF RollbackDelivery, TypeOK, Bounded, DeliveryState, NoDelivery
<1>. QED
  BY <1>1, <1>2, <1>3, <1>4

LEMMA SortType == TypeInv /\ (Sort \/ Refile) /\ Record => TypeInv'
<1>. SUFFICES ASSUME TypeInv, Record, Sort \/ Refile
              PROVE  TypeInv'
  OBVIOUS
<1>0. (disposed \subseteq Mail)'
  BY RecordType DEF TypeInv
<1>1. ASSUME NEW K, NEW F, Writes(K, F), F \in [Column -> SUBSET rows]
      PROVE  TypeInv'
  BY <1>0, <1>1, WritesType DEF TypeInv, TypeOK, Writes
<1>2. ASSUME NEW u \in Users, NEW E \in Batches, NEW c \in Column, NEW v \in BOOLEAN,
             setUserEmailFlagsBatch(u, E, c, v)
      PROVE  TypeInv'
  <2>. DEFINE K == RowsOf(u, E)
              F == [flag EXCEPT ![c] = IF v THEN @ \cup K ELSE @ \ K]
  <2>1. K \subseteq rows
    BY RowSets DEF TypeInv
  <2>2. F \in [Column -> SUBSET rows]
    BY <2>1 DEF TypeInv, TypeOK
  <2>3. Writes(K, F)
    BY <1>2 DEF setUserEmailFlagsBatch
  <2>. QED
    BY <1>1, <2>2, <2>3
<1>3. ASSUME NEW u \in Users, NEW E \in Batches, Favorite(u, E)
      PROVE  TypeInv'
  <2>. DEFINE K == RowsOf(u, E) \ flag["spam"]
              F == [flag EXCEPT !["starred"] = @ \cup K]
  <2>1. K \subseteq rows
    BY RowSets DEF TypeInv
  <2>2. F \in [Column -> SUBSET rows]
    BY <2>1 DEF TypeInv, TypeOK
  <2>3. Writes(K, F)
    BY <1>3 DEF Favorite
  <2>. QED
    BY <1>1, <2>2, <2>3
<1>4. ASSUME NEW u \in Users, NEW E \in Batches, Spam(u, E)
      PROVE  TypeInv'
  <2>. DEFINE K == {k \in RowsOf(u, E) : SenderOf[k[2]] # u}
              F == MarkedSpam(K)
  <2>1. K \subseteq rows
    BY RowSets DEF TypeInv
  <2>2. F \in [Column -> SUBSET rows]
    BY <2>1 DEF TypeInv, TypeOK, MarkedSpam
  <2>3. Writes(K, F)
    BY <1>4 DEF Spam
  <2>. QED
    BY <1>1, <2>2, <2>3
<1>5. ASSUME NEW u \in Users, NEW e \in Emails, SwitchIsInbox(u, e)
      PROVE  TypeInv'
  <2>. DEFINE K == RowsOf(u, {e}) \ flag["spam"]
              F == [flag EXCEPT !["inbox"] = (@ \ K) \cup (K \ @)]
  <2>1. K \subseteq rows
    BY RowSets DEF TypeInv
  <2>2. F \in [Column -> SUBSET rows]
    BY <2>1 DEF TypeInv, TypeOK
  <2>3. Writes(K, F)
    BY <1>5 DEF SwitchIsInbox
  <2>. QED
    BY <1>1, <2>2, <2>3
<1>. QED
  BY <1>2, <1>3, <1>4, <1>5
     DEF Sort, Refile, MarkEmailAsRead, MarkEmailAsUnRead, Untrash, Unfavorite,
         Unspam, Column

LEMMA DiscardType == TypeInv /\ Discard /\ Record => TypeInv'
<1>. SUFFICES ASSUME TypeInv, Record, NEW t \in Trashers,
                     \/ \E u \in Users, E \in Batches : Trash(t, u, E) \/ Delete(t, u, E)
                     \/ TrashStep(t)
                     \/ TrashFails(t)
              PROVE  TypeInv'
  BY DEF Discard
<1>0. (disposed \subseteq Mail)'
  BY RecordType DEF TypeInv
<1>1. ASSUME trash' \in [Trashers -> TrashState],
             UNCHANGED <<rows, flag, blocked, delivery, tx>>
      PROVE  TypeInv'
  BY <1>0, <1>1 DEF TypeInv, TypeOK, Bounded
<1>2. ASSUME NEW u \in Users, NEW E \in Batches, Trash(t, u, E)
      PROVE  TypeInv'
  <2>1. MailsIn("spam", u, E) \subseteq Emails /\ E \subseteq Emails
    BY DEF MailsIn, Batches
  <2>2. trash' \in [Trashers -> TrashState]
    BY <1>2, <2>1 DEF Trash, TypeInv, TypeOK, TrashState
  <2>. QED
    BY <1>1, <1>2, <2>2 DEF Trash
<1>3. CASE ReadDeleted(t)
  <2>1. MailsIn("deleted", trash[t].user, trash[t].toTrash) \subseteq trash[t].toTrash
    BY DEF MailsIn
  <2>2. trash' \in [Trashers -> TrashState]
    BY <1>3, <2>1 DEF ReadDeleted, TypeInv, TypeOK, TrashState
  <2>. QED
    BY <1>1, <1>3, <2>2 DEF ReadDeleted
<1>4. CASE TrashEmails(t)
  <2>. DEFINE K == RowsOf(trash[t].user, trash[t].toTrash) \ flag["spam"]
  <2>1. K \subseteq rows
    BY RowSets DEF TypeInv
  <2>2. flag' \in [Column -> SUBSET rows]
    BY <1>4, <2>1 DEF TrashEmails, TypeInv, TypeOK
  <2>3. trash' \in [Trashers -> TrashState]
    BY <1>4 DEF TrashEmails, TypeInv, TypeOK, TrashState
  <2>. QED
    BY <1>0, <1>4, <2>2, <2>3 DEF TrashEmails, TypeInv, TypeOK, Bounded
<1>5. CASE DeleteUserEmailsBatch(t)
  <2>. DEFINE K == RowsOf(trash[t].user, trash[t].toRemove)
  <2>1. K \cap LockedRows = {} /\ rows' = rows \ K /\ tx' = tx
    BY <1>5 DEF DeleteUserEmailsBatch
  <2>2. flag' \in [Column -> SUBSET rows']
    BY <1>5, <2>1 DEF DeleteUserEmailsBatch, TypeInv, TypeOK
  <2>3. trash' \in [Trashers -> TrashState]
    BY <1>5 DEF DeleteUserEmailsBatch, TypeInv, TypeOK, TrashState, IdleTrash
  <2>4. ASSUME NEW b \in Blocking PROVE tx'[b].locked \subseteq rows'
    BY <2>1, <2>4, LockedByOne DEF TypeInv, Bounded
  <2>5. Bounded'
    BY <1>5, <2>4 DEF DeleteUserEmailsBatch, TypeInv, Bounded
  <2>. QED
    BY <1>0, <1>5, <2>1, <2>2, <2>3, <2>5 DEF DeleteUserEmailsBatch, TypeInv, TypeOK
<1>6. CASE TrashFails(t)
  <2>1. trash' \in [Trashers -> TrashState]
    BY <1>6 DEF TrashFails, TypeInv, TypeOK, TrashState, IdleTrash
  <2>. QED
    BY <1>1, <1>6, <2>1 DEF TrashFails
<1>. QED
  BY <1>2, <1>3, <1>4, <1>5, <1>6 DEF TrashStep, Delete

LEMMA FilterType == TypeInv /\ Filter /\ Record => TypeInv'
<1>. SUFFICES ASSUME TypeInv, Record, Filter
              PROVE  TypeInv'
  OBVIOUS
<1>0. (disposed \subseteq Mail)'
  BY RecordType DEF TypeInv
<1>1. ASSUME NEW b \in Blocking, NEW new \in TxState, new.locked \subseteq rows,
             tx' = [tx EXCEPT ![b] = new],
             UNCHANGED <<rows, flag, blocked, delivery, trash>>
      PROVE  TypeInv'
  BY <1>0, <1>1 DEF TypeInv, TypeOK, Bounded
<1>2. ASSUME NEW b \in Blocking, NEW u \in Users, NEW S \in SUBSET Users \ {{}},
             BlockSenders(b, u, S) \/ UnblockSenders(b, u, S)
      PROVE  TypeInv'
  <2>. DEFINE Opened(H) == [step |-> "pairs", user |-> u, senders |-> S,
                            held |-> H, locked |-> {}]
  <2>1. \A H : H \subseteq {u} \X S => Opened(H) \in TxState
    BY DEF TxState
  <2>2. CASE BlockSenders(b, u, S)
    BY <1>1, <2>1, <2>2 DEF BlockSenders
  <2>3. CASE UnblockSenders(b, u, S)
    BY <1>1, <2>1, <2>3 DEF UnblockSenders
  <2>. QED
    BY <1>2, <2>2, <2>3
<1>3. ASSUME NEW b \in Blocking, UpdateFromSenders(b)
      PROVE  TypeInv'
  <2>. DEFINE K == RowsFrom(tx[b].user, tx[b].senders)
              new == [step |-> "rows", user |-> tx[b].user,
                      senders |-> tx[b].senders, held |-> tx[b].held, locked |-> K]
  <2>1. K \subseteq rows /\ rows \subseteq Key
    BY RowSets DEF TypeInv, TypeOK
  <2>2. tx[b] \in TxState
    BY DEF TypeInv, TypeOK
  <2>3. new \in TxState /\ new.locked \subseteq rows
    BY <2>1, <2>2 DEF TxState
  <2>4. tx' = [tx EXCEPT ![b] = new] /\ UNCHANGED <<rows, flag, blocked, delivery, trash>>
    BY <1>3 DEF UpdateFromSenders
  <2>. QED
    BY <1>1, <2>3, <2>4
<1>4. ASSUME NEW b \in Blocking, RollbackTx(b)
      PROVE  TypeInv'
  <2>1. IdleTx \in TxState /\ IdleTx.locked \subseteq rows
    BY DEF IdleTx, TxState
  <2>. QED
    BY <1>1, <1>4, <2>1 DEF RollbackTx
<1>5. ASSUME NEW b \in Blocking, CommitBlock(b) \/ CommitUnblock(b)
      PROVE  TypeInv'
  <2>1. tx[b] \in TxState /\ tx[b].locked \subseteq rows
    BY DEF TypeInv, TypeOK, Bounded
  <2>2. rows' = rows /\ delivery' = delivery /\ trash' = trash
        /\ tx' = [tx EXCEPT ![b] = IdleTx]
    BY <1>5 DEF CommitBlock, CommitUnblock
  <2>3. flag' \in [Column -> SUBSET rows']
    BY <1>5, <2>1, <2>2 DEF CommitBlock, CommitUnblock, MarkedSpam, TypeInv, TypeOK
  <2>4. blocked' \subseteq Users \X Users
    BY <1>5, <2>1 DEF CommitBlock, CommitUnblock, TxState, TypeInv, TypeOK
  <2>5. tx' \in [Blocking -> TxState] /\ \A a \in Blocking : tx'[a].locked \subseteq rows'
    BY <2>2 DEF IdleTx, TxState, TypeInv, TypeOK, Bounded
  <2>. QED
    BY <1>0, <2>2, <2>3, <2>4, <2>5 DEF TypeInv, TypeOK, Bounded
<1>. QED
  BY <1>2, <1>3, <1>4, <1>5 DEF Filter, BlockStep, UnblockStep, Blocking

LEMMA NextType == TypeInv /\ [Next]_vars => TypeInv'
<1>1. CASE Next
  BY <1>1, DeliverType, SortType, DiscardType, FilterType DEF Next, Step
<1>2. CASE UNCHANGED vars
  BY <1>2 DEF vars, TypeInv, TypeOK, Bounded
<1>. QED
  BY <1>1, <1>2

(* Every variable keeps its type, a flag is never true of a row that does   *)
(* not exist, and an open transaction never holds a row that was deleted.   *)
THEOREM TypeCorrect == Spec => [](TypeOK /\ Bounded)
<1>1. TypeInv <=> TypeOK /\ Bounded
  BY DEF TypeInv
<1>. QED
  BY <1>1, InitType, NextType, PTL DEF Spec

-----------------------------------------------------------------------------
(* A row belongs to a mail whose delivery committed, and to one of the      *)
(* users it was delivered to: the rows of a mail appear once.               *)
Arrived ==
  \A k \in rows : /\ delivery[k[2]].status = "sent"
                  /\ k \in NewRows(k[2], delivery[k[2]].to)

LEMMA NewRowsOfMail ==
  ASSUME NEW e, NEW R, NEW k \in NewRows(e, R)
  PROVE  k[2] = e
  BY DEF NewRows

LEMMA InitArrived == Init => Arrived
  BY DEF Init, Arrived

LEMMA NextArrived == TypeInv /\ Arrived /\ [Next]_vars => Arrived'
<1>. SUFFICES ASSUME TypeInv, Arrived, [Next]_vars
              PROVE  Arrived'
  OBVIOUS
<1>1. ASSUME rows' \subseteq rows, delivery' = delivery
      PROVE  Arrived'
  BY <1>1 DEF Arrived
<1>2. ASSUME NEW e \in Emails, NEW d, rows' = rows, delivery[e].status # "sent",
             delivery' = [delivery EXCEPT ![e] = d]
      PROVE  Arrived'
  <2>. SUFFICES ASSUME NEW k \in rows
                PROVE  /\ delivery'[k[2]].status = "sent"
                       /\ k \in NewRows(k[2], delivery'[k[2]].to)
    BY <1>2 DEF Arrived, NewRows
  <2>1. k[2] # e /\ k[2] \in Emails
    BY <1>2 DEF Arrived, TypeInv, TypeOK, Key
  <2>2. delivery'[k[2]] = delivery[k[2]]
    BY <1>2, <2>1 DEF TypeInv, TypeOK
  <2>. QED
    BY <2>2 DEF Arrived
<1>3. ASSUME NEW e \in Emails, CommitDelivery(e)
      PROVE  Arrived'
  <2>1. delivery' = [delivery EXCEPT ![e] =
          [status |-> "sent", to |-> delivery[e].to, left |-> {}, spam |-> {}]]
        /\ delivery[e].status = "open"
    BY <1>3 DEF CommitDelivery
  <2>2. rows' = rows \cup NewRows(e, delivery[e].to)
    BY <1>3 DEF CommitDelivery
  <2>. SUFFICES ASSUME NEW k \in rows'
                PROVE  /\ delivery'[k[2]].status = "sent"
                       /\ k \in NewRows(k[2], delivery'[k[2]].to)
    BY DEF Arrived, NewRows
  <2>3. CASE k \in rows
    <3>1. k[2] # e /\ k[2] \in Emails
      BY <2>1, <2>3 DEF Arrived, TypeInv, TypeOK, Key
    <3>2. delivery'[k[2]] = delivery[k[2]]
      BY <2>1, <3>1 DEF TypeInv, TypeOK
    <3>. QED
      BY <2>3, <3>2 DEF Arrived
  <2>4. CASE k \in NewRows(e, delivery[e].to)
    <3>1. k[2] = e
      BY <2>4, NewRowsOfMail
    <3>2. delivery'[e].status = "sent" /\ delivery'[e].to = delivery[e].to
      BY <2>1 DEF TypeInv, TypeOK
    <3>. QED
      BY <2>4, <3>1, <3>2
  <2>. QED
    BY <2>2, <2>3, <2>4
<1>4. CASE Deliver
  <2>1. ASSUME NEW e \in Emails, NEW R \in SUBSET Users, BeginDelivery(e, R)
        PROVE  Arrived'
    BY <1>2, <2>1 DEF BeginDelivery
  <2>2. ASSUME NEW e \in Emails, NEW u \in Users, InsertUserEmail(e, u)
        PROVE  Arrived'
    BY <1>2, <2>2 DEF InsertUserEmail
  <2>3. ASSUME NEW e \in Emails, RollbackDelivery(e)
        PROVE  Arrived'
    BY <1>2, <2>3 DEF RollbackDelivery
  <2>. QED
    BY <1>3, <1>4, <2>1, <2>2, <2>3 DEF Deliver
<1>5. CASE Sort \/ Refile
  BY <1>1, <1>5 DEF Sort, Refile, MarkEmailAsRead, MarkEmailAsUnRead, Untrash,
     Favorite, Unfavorite, Spam, Unspam, SwitchIsInbox, setUserEmailFlagsBatch, Writes
<1>6. CASE Discard
  BY <1>1, <1>6 DEF Discard, TrashStep, Trash, Delete, ReadDeleted, TrashEmails,
     DeleteUserEmailsBatch, TrashFails
<1>7. CASE Filter
  BY <1>1, <1>7 DEF Filter, BlockStep, UnblockStep, BlockSenders, UnblockSenders,
     UpdateFromSenders, CommitBlock, CommitUnblock, RollbackTx
<1>8. CASE UNCHANGED vars
  BY <1>1, <1>8 DEF vars
<1>. QED
  BY <1>4, <1>5, <1>6, <1>7, <1>8 DEF Next, Step

-----------------------------------------------------------------------------
(* The new rows of a delivery carry no flag yet: this is what keeps a mail  *)
(* that arrives as spam out of the favorites and the trash.                 *)
LEMMA NextSpamExclusive ==
  TypeInv /\ Arrived /\ SpamExclusive /\ [Next]_vars => SpamExclusive'
<1>. SUFFICES ASSUME TypeInv, Arrived, SpamExclusive, [Next]_vars
              PROVE  SpamExclusive'
  OBVIOUS
<1>. USE DEF SpamExclusive
<1>0. flag \in [Column -> SUBSET rows]
  BY DEF TypeInv, TypeOK
<1>1. ASSUME UNCHANGED flag
      PROVE  SpamExclusive'
  BY <1>1
<1>2. ASSUME NEW e \in Emails, CommitDelivery(e)
      PROVE  SpamExclusive'
  <2>. DEFINE mark == delivery[e].spam \X {e} \X {"received"}
              new  == NewRows(e, delivery[e].to)
  <2>1. mark \cap rows = {}
    BY <1>2 DEF CommitDelivery, Arrived
  <2>2. flag' = [flag EXCEPT !["inbox"] = @ \cup new, !["spam"] = @ \cup mark]
    BY <1>2 DEF CommitDelivery
  <2>3. flag'["spam"] = flag["spam"] \cup mark /\ flag'["starred"] = flag["starred"]
        /\ flag'["deleted"] = flag["deleted"]
    BY <1>0, <2>2 DEF Column
  <2>. QED
    BY <1>0, <2>1, <2>3 DEF Column
<1>3. CASE Deliver
  BY <1>1, <1>2, <1>3 DEF Deliver, BeginDelivery, InsertUserEmail, RollbackDelivery
<1>4. ASSUME NEW u \in Users, NEW E \in Batches,
             \/ MarkEmailAsRead(u, E) \/ MarkEmailAsUnRead(u, E) \/ Untrash(u, E)
             \/ Unfavorite(u, E) \/ Unspam(u, E)
      PROVE  SpamExclusive'
  BY <1>0, <1>4 DEF MarkEmailAsRead, MarkEmailAsUnRead, Untrash, Unfavorite, Unspam,
     setUserEmailFlagsBatch, Writes, Column
<1>5. ASSUME NEW u \in Users, NEW E \in Batches, Favorite(u, E)
      PROVE  SpamExclusive'
  BY <1>0, <1>5 DEF Favorite, Writes, Column
<1>6. ASSUME NEW K, flag' = MarkedSpam(K)
      PROVE  SpamExclusive'
  BY <1>0, <1>6 DEF MarkedSpam, Column
<1>7. ASSUME NEW u \in Users, NEW E \in Batches, Spam(u, E)
      PROVE  SpamExclusive'
  BY <1>6, <1>7 DEF Spam, Writes
<1>8. ASSUME NEW u \in Users, NEW e \in Emails, SwitchIsInbox(u, e)
      PROVE  SpamExclusive'
  BY <1>0, <1>8 DEF SwitchIsInbox, Writes, Column
<1>9. ASSUME NEW t \in Trashers, TrashEmails(t)
      PROVE  SpamExclusive'
  BY <1>0, <1>9 DEF TrashEmails, Column
<1>10. ASSUME NEW t \in Trashers, DeleteUserEmailsBatch(t)
       PROVE  SpamExclusive'
  <2>. DEFINE K == RowsOf(trash[t].user, trash[t].toRemove)
  <2>1. \A c \in Column : flag'[c] = flag[c] \ K
    BY <1>10 DEF DeleteUserEmailsBatch
  <2>. QED
    BY <2>1 DEF Column
<1>11. CASE Discard
  BY <1>1, <1>9, <1>10, <1>11 DEF Discard, TrashStep, Trash, Delete, ReadDeleted,
     TrashFails
<1>12. ASSUME NEW b \in Blocking, CommitBlock(b)
       PROVE  SpamExclusive'
  BY <1>6, <1>12 DEF CommitBlock
<1>13. ASSUME NEW b \in Blocking, CommitUnblock(b)
       PROVE  SpamExclusive'
  BY <1>0, <1>13 DEF CommitUnblock, Column
<1>14. CASE Filter
  BY <1>1, <1>12, <1>13, <1>14 DEF Filter, BlockStep, UnblockStep, BlockSenders,
     UnblockSenders, UpdateFromSenders, RollbackTx, Blocking
<1>15. CASE Sort \/ Refile
  BY <1>4, <1>5, <1>7, <1>8, <1>15 DEF Sort, Refile
<1>16. CASE UNCHANGED vars
  BY <1>1, <1>16 DEF vars
<1>. QED
  BY <1>3, <1>11, <1>14, <1>15, <1>16 DEF Next, Step

(* In every interleaving of deliveries, requests and filters, no mail is in *)
(* the spam and also starred or in the trash.                               *)
THEOREM SpamExclusiveAlways == Spec => []SpamExclusive
<1>1. Init => SpamExclusive
  BY DEF Init, SpamExclusive, Column
<1>. QED
  BY <1>1, InitType, NextType, InitArrived, NextArrived, NextSpamExclusive, PTL DEF Spec

-----------------------------------------------------------------------------
(* The two rows of a mail to oneself.  Where no request can block a sender, *)
(* spam_senders stays empty and no delivery decides for spam, so that the   *)
(* two rows start equal; every statement then selects both or neither.      *)
NothingBlocked ==
  /\ blocked = {}
  /\ \A b \in Blocking : tx[b].held = {}
  /\ \A e \in Emails : delivery[e].spam = {}

TwinRows(u, e) ==
  /\ <<u, e, "received">> \in rows <=> <<u, e, "sent">> \in rows
  /\ \A c \in Column :
       <<u, e, "received">> \in flag[c] <=> <<u, e, "sent">> \in flag[c]

(* The set of rows of a statement holds both rows of the mail or neither. *)
Paired(K, u, e) == <<u, e, "received">> \in K <=> <<u, e, "sent">> \in K

LEMMA NextNothingBlocked ==
  Blockers = {} /\ TypeInv /\ NothingBlocked /\ [Next]_vars => NothingBlocked'
<1>. SUFFICES ASSUME Blockers = {}, TypeInv, NothingBlocked, [Next]_vars
              PROVE  NothingBlocked'
  OBVIOUS
<1>. USE DEF NothingBlocked
<1>1. CASE Deliver
  BY <1>1 DEF Deliver, BeginDelivery, InsertUserEmail, CommitDelivery,
     RollbackDelivery, NoDelivery, TypeInv, TypeOK
<1>2. CASE Sort \/ Refile
  BY <1>2 DEF Sort, Refile, MarkEmailAsRead, MarkEmailAsUnRead, Untrash,
     Favorite, Unfavorite, Spam, Unspam, SwitchIsInbox, setUserEmailFlagsBatch, Writes
<1>3. CASE Discard
  BY <1>3 DEF Discard, TrashStep, Trash, Delete, ReadDeleted, TrashEmails,
     DeleteUserEmailsBatch, TrashFails
<1>4. CASE Filter
  BY <1>4 DEF Filter, UnblockStep, UnblockSenders, UpdateFromSenders, CommitUnblock,
     RollbackTx, IdleTx, Blocking, TypeInv, TypeOK
<1>5. CASE UNCHANGED vars
  BY <1>5 DEF vars
<1>. QED
  BY <1>1, <1>2, <1>3, <1>4, <1>5 DEF Next, Step

LEMMA TwinsKept ==
  ASSUME Blockers = {}, TypeInv, [Next]_vars,
         NEW u \in Users, NEW e \in Emails, SenderOf[e] = u,
         delivery[e].status = "sent", TwinRows(u, e),
         \A b \in Blocking : Paired(tx[b].locked, u, e)
  PROVE  TwinRows(u, e)'
<1>. USE DEF TwinRows
<1>0. flag \in [Column -> SUBSET rows]
  BY DEF TypeInv, TypeOK
<1>1. ASSUME UNCHANGED <<rows, flag>>
      PROVE  TwinRows(u, e)'
  BY <1>1
<1>2. ASSUME NEW K, Paired(K, u, e), NEW c \in Column, rows' = rows,
             \/ flag' = [flag EXCEPT ![c] = @ \cup K]
             \/ flag' = [flag EXCEPT ![c] = @ \ K]
             \/ flag' = [flag EXCEPT ![c] = (@ \ K) \cup (K \ @)]
             \/ flag' = MarkedSpam(K)
      PROVE  TwinRows(u, e)'
  BY <1>0, <1>2 DEF MarkedSpam, Paired, Column
<1>3. \A v, E : Paired(RowsOf(v, E), u, e) /\ Paired(RowsOf(v, E) \ flag["spam"], u, e)
  BY DEF RowsOf, Paired, Column
<1>4. ASSUME NEW f \in Emails, CommitDelivery(f)
      PROVE  TwinRows(u, e)'
  <2>. DEFINE new  == NewRows(f, delivery[f].to)
              mark == delivery[f].spam \X {f} \X {"received"}
  <2>1. f # e
    BY <1>4 DEF CommitDelivery
  <2>2. <<u, e, "received">> \notin new \cup mark /\ <<u, e, "sent">> \notin new \cup mark
    BY <2>1 DEF NewRows
  <2>3. rows' = rows \cup new
    BY <1>4 DEF CommitDelivery
  <2>4. flag' = [flag EXCEPT !["inbox"] = @ \cup new, !["spam"] = @ \cup mark]
    BY <1>4 DEF CommitDelivery
  <2>. QED
    BY <1>0, <2>2, <2>3, <2>4 DEF Column
<1>5. CASE Deliver
  BY <1>1, <1>4, <1>5 DEF Deliver, BeginDelivery, InsertUserEmail, RollbackDelivery
<1>6. ASSUME NEW v \in Users, NEW E \in Batches,
             \/ MarkEmailAsRead(v, E) \/ MarkEmailAsUnRead(v, E) \/ Untrash(v, E)
             \/ Unfavorite(v, E) \/ Unspam(v, E)
      PROVE  TwinRows(u, e)'
  BY <1>2, <1>3, <1>6 DEF MarkEmailAsRead, MarkEmailAsUnRead, Untrash, Unfavorite,
     Unspam, setUserEmailFlagsBatch, Writes, Column
<1>7. ASSUME NEW v \in Users, NEW E \in Batches, Favorite(v, E)
      PROVE  TwinRows(u, e)'
  BY <1>2, <1>3, <1>7 DEF Favorite, Writes, Column
<1>8. ASSUME NEW v \in Users, NEW E \in Batches, Spam(v, E)
      PROVE  TwinRows(u, e)'
  <2>. DEFINE K == {k \in RowsOf(v, E) : SenderOf[k[2]] # v}
  <2>1. Paired(K, u, e)
    BY <1>3 DEF Paired
  <2>2. rows' = rows /\ flag' = MarkedSpam(K)
    BY <1>8 DEF Spam, Writes
  <2>. QED
    BY <1>2, <2>1, <2>2 DEF Column
<1>9. ASSUME NEW v \in Users, NEW f \in Emails, SwitchIsInbox(v, f)
      PROVE  TwinRows(u, e)'
  BY <1>2, <1>3, <1>9 DEF SwitchIsInbox, Writes, Column
<1>10. CASE Sort \/ Refile
  BY <1>6, <1>7, <1>8, <1>9, <1>10 DEF Sort, Refile
<1>11. ASSUME NEW t \in Trashers, TrashEmails(t)
       PROVE  TwinRows(u, e)'
  BY <1>2, <1>3, <1>11 DEF TrashEmails, Column
<1>12. ASSUME NEW t \in Trashers, DeleteUserEmailsBatch(t)
       PROVE  TwinRows(u, e)'
  <2>. DEFINE K == RowsOf(trash[t].user, trash[t].toRemove)
  <2>1. rows' = rows \ K /\ \A c \in Column : flag'[c] = flag[c] \ K
    BY <1>12 DEF DeleteUserEmailsBatch
  <2>. QED
    BY <1>3, <2>1 DEF Paired
<1>13. CASE Discard
  BY <1>1, <1>11, <1>12, <1>13 DEF Discard, TrashStep, Trash, Delete, ReadDeleted,
     TrashFails
<1>14. ASSUME NEW b \in Blocking, CommitUnblock(b)
       PROVE  TwinRows(u, e)'
  BY <1>2, <1>14 DEF CommitUnblock, Column
<1>15. CASE Filter
  BY <1>1, <1>14, <1>15 DEF Filter, BlockStep, UnblockStep, BlockSenders,
     UnblockSenders, UpdateFromSenders, RollbackTx, Blocking
<1>16. CASE UNCHANGED vars
  BY <1>1, <1>16 DEF vars
<1>. QED
  BY <1>5, <1>10, <1>13, <1>15, <1>16 DEF Next, Step

(* An UnblockSenders chooses both rows, as it selects by the sender alone. *)
LEMMA LocksKept ==
  ASSUME TypeInv, [Next]_vars,
         NEW u \in Users, NEW e \in Emails, TwinRows(u, e),
         \A b \in Blocking : Paired(tx[b].locked, u, e)
  PROVE  \A b \in Blocking : Paired(tx'[b].locked, u, e)
<1>. USE DEF Paired
<1>1. CASE tx' = tx
  BY <1>1
<1>2. ASSUME NEW b \in Blocking, NEW new, tx' = [tx EXCEPT ![b] = new],
             Paired(new.locked, u, e)
      PROVE  \A a \in Blocking : Paired(tx'[a].locked, u, e)
  BY <1>2 DEF TypeInv, TypeOK
<1>3. ASSUME NEW b \in Blocking, UpdateFromSenders(b)
      PROVE  \A a \in Blocking : Paired(tx'[a].locked, u, e)
  <2>. DEFINE K == RowsFrom(tx[b].user, tx[b].senders)
              new == [step |-> "rows", user |-> tx[b].user,
                      senders |-> tx[b].senders, held |-> tx[b].held, locked |-> K]
  <2>1. Paired(new.locked, u, e)
    BY DEF RowsFrom, TwinRows
  <2>2. tx' = [tx EXCEPT ![b] = new]
    BY <1>3 DEF UpdateFromSenders
  <2>. QED
    BY <1>2, <2>1, <2>2
<1>4. CASE Filter
  BY <1>2, <1>3, <1>4 DEF Filter, BlockStep, UnblockStep, BlockSenders,
     UnblockSenders, CommitBlock, CommitUnblock, RollbackTx, IdleTx, Blocking
<1>5. CASE Deliver \/ Sort \/ Refile \/ Discard \/ UNCHANGED vars
  BY <1>1, <1>5 DEF vars, Deliver, BeginDelivery, InsertUserEmail, CommitDelivery,
     RollbackDelivery, Sort, Refile, MarkEmailAsRead, MarkEmailAsUnRead, Untrash,
     Favorite, Unfavorite, Spam, Unspam, SwitchIsInbox, setUserEmailFlagsBatch,
     Writes, Discard, TrashStep, Trash, Delete, ReadDeleted, TrashEmails,
     DeleteUserEmailsBatch, TrashFails
<1>. QED
  BY <1>4, <1>5 DEF Next, Step

SelfMail(u, e) ==
  SenderOf[e] = u /\ u \in delivery[e].to /\ delivery[e].status = "sent"

SelfInv ==
  \A u \in Users, e \in Emails :
    SelfMail(u, e) => /\ TwinRows(u, e)
                      /\ \A b \in Blocking : Paired(tx[b].locked, u, e)

(* Only the commit of its delivery makes a mail one that was sent. *)
LEMMA SentBefore ==
  ASSUME TypeInv, [Next]_vars, NEW e \in Emails,
         delivery'[e].status = "sent", ~ CommitDelivery(e)
  PROVE  delivery'[e] = delivery[e]
<1>1. CASE delivery' = delivery
  BY <1>1
<1>2. CASE Deliver
  BY <1>2 DEF Deliver, BeginDelivery, InsertUserEmail, CommitDelivery,
     RollbackDelivery, NoDelivery, TypeInv, TypeOK
<1>3. CASE Sort \/ Refile \/ Discard \/ Filter \/ UNCHANGED vars
  BY <1>1, <1>3 DEF vars, Sort, Refile, MarkEmailAsRead, MarkEmailAsUnRead, Untrash,
     Favorite, Unfavorite, Spam, Unspam, SwitchIsInbox, setUserEmailFlagsBatch,
     Writes, Discard, TrashStep, Trash, Delete, ReadDeleted, TrashEmails,
     DeleteUserEmailsBatch, TrashFails, Filter, BlockStep, UnblockStep, BlockSenders,
     UnblockSenders, UpdateFromSenders, CommitBlock, CommitUnblock, RollbackTx
<1>. QED
  BY <1>2, <1>3 DEF Next, Step

LEMMA NextSelfInv ==
  Blockers = {} /\ TypeInv /\ Arrived /\ NothingBlocked /\ SelfInv /\ [Next]_vars
    => SelfInv'
<1>. SUFFICES ASSUME Blockers = {}, TypeInv, Arrived, NothingBlocked, SelfInv,
                     [Next]_vars, NEW u \in Users, NEW e \in Emails, SelfMail(u, e)'
              PROVE  (TwinRows(u, e) /\ \A b \in Blocking : Paired(tx[b].locked, u, e))'
  BY DEF SelfInv
<1>1. CASE CommitDelivery(e)
  <2>. DEFINE new == NewRows(e, delivery[e].to)
              r   == <<u, e, "received">>
              s   == <<u, e, "sent">>
  <2>1. delivery[e].status = "open" /\ delivery[e].spam = {}
    BY <1>1 DEF CommitDelivery, NothingBlocked
  <2>2. r \notin rows /\ s \notin rows
    BY <2>1 DEF Arrived
  <2>3. r \in new /\ s \in new
    BY <1>1 DEF SelfMail, CommitDelivery, NewRows, TypeInv, TypeOK
  <2>4. rows' = rows \cup new /\ tx' = tx
    BY <1>1 DEF CommitDelivery
  <2>5. flag' = [flag EXCEPT !["inbox"] = @ \cup new, !["spam"] = @ \cup {}]
    BY <1>1, <2>1 DEF CommitDelivery
  <2>6. \A c \in Column : r \notin flag[c] /\ s \notin flag[c]
    BY <2>2 DEF TypeInv, TypeOK
  <2>7. TwinRows(u, e)'
    BY <2>3, <2>4, <2>5, <2>6 DEF TwinRows, Column, TypeInv, TypeOK
  <2>8. \A b \in Blocking : tx[b].locked \subseteq rows
    BY DEF TypeInv, Bounded
  <2>. QED
    BY <2>2, <2>4, <2>7, <2>8 DEF Paired
<1>2. CASE ~ CommitDelivery(e)
  <2>1. SelfMail(u, e)
    BY <1>2, SentBefore DEF SelfMail
  <2>2. TwinRows(u, e) /\ \A b \in Blocking : Paired(tx[b].locked, u, e)
    BY <2>1 DEF SelfInv
  <2>3. TwinRows(u, e)'
    BY <2>1, <2>2, TwinsKept DEF SelfMail
  <2>4. \A b \in Blocking : Paired(tx'[b].locked, u, e)
    BY <2>2, LocksKept
  <2>. QED
    BY <2>3, <2>4 DEF Paired
<1>. QED
  BY <1>1, <1>2

(* Without BlockSenders, which the deployed router does not offer, the two  *)
(* rows of a mail to oneself exist together and carry the same flags,       *)
(* however Trash, the filters and the deliveries interleave.                *)
THEOREM SelfMailInStepAlways == Blockers = {} /\ Spec => []SelfMailInStep
<1>. SUFFICES ASSUME Blockers = {} PROVE Spec => []SelfMailInStep
  OBVIOUS
<1>1. Init => NothingBlocked /\ SelfInv
  BY DEF Init, NothingBlocked, SelfInv, SelfMail, IdleTx, NoDelivery
<1>2. TypeInv /\ NothingBlocked /\ [Next]_vars => NothingBlocked'
  BY NextNothingBlocked
<1>3. TypeInv /\ Arrived /\ NothingBlocked /\ SelfInv /\ [Next]_vars => SelfInv'
  BY NextSelfInv
<1>4. SelfInv => SelfMailInStep
  BY DEF SelfInv, SelfMail, SelfMailInStep, TwinRows
<1>. QED
  BY <1>1, <1>2, <1>3, <1>4, InitType, NextType, InitArrived, NextArrived, PTL DEF Spec

-----------------------------------------------------------------------------
(* The life of a mail.  Beyond the types, the argument needs that what a    *)
(* Trash has decided to remove was seen in the spam or in the trash: the    *)
(* flags may have changed since, so "disposed" carries the fact over.       *)
MailOf(k) == <<k[1], k[2]>>
HasRow(m) == \E k \in rows : MailOf(k) = m
Flagged   == flag["spam"] \cup flag["deleted"]

(* What is in the spam or in the trash is recorded. *)
Marked == \A k \in Flagged : MailOf(k) \in disposed

(* Nothing is recorded of a mail before its delivery commits. *)
Disposed == \A m \in disposed : delivery[m[2]].status = "sent"

(* A request removes only mails that were recorded for its user. *)
Chosen ==
  \A t \in Trashers : \A e \in trash[t].toRemove : <<trash[t].user, e>> \in disposed

(* A transaction writes the rows of one user. *)
LockedOwn ==
  \A b \in Blocking : \A k \in tx[b].locked : k[1] = tx[b].user

LifeInv == TypeInv /\ Arrived /\ Marked /\ Disposed /\ Chosen /\ LockedOwn

-----------------------------------------------------------------------------
LEMMA InitLifeInv == Init => LifeInv
  BY InitType, InitArrived
     DEF Init, LifeInv, Marked, Flagged, Disposed, Chosen, LockedOwn, IdleTrash, IdleTx,
         Column

(* The record grows by the mails the step leaves flagged, and no others. *)
LEMMA RecordGrows ==
  ASSUME TypeInv', Record
  PROVE  /\ disposed \subseteq disposed'
         /\ \A k \in Flagged' : MailOf(k) \in disposed'
         /\ \A m \in disposed' : m \in disposed \/ \E k \in Flagged' : MailOf(k) = m
<1>1. \A k \in Flagged' : k \in rows' /\ MailOf(k) \in Mail
  BY DEF Flagged, TypeInv, TypeOK, Column, Key, Mail, MailOf
<1>. QED
  BY <1>1 DEF Record, Flagged, MailOf

LEMMA NextMarked == Marked /\ TypeInv' /\ [Next]_vars => Marked'
<1>1. ASSUME TypeInv', Next PROVE Marked'
  BY <1>1, RecordGrows DEF Next, Marked
<1>2. ASSUME Marked, UNCHANGED vars PROVE Marked'
  BY <1>2 DEF vars, Marked, Flagged, MailOf
<1>. QED
  BY <1>1, <1>2

(* A committed delivery is final. *)
LEMMA SentStays ==
  ASSUME TypeInv, [Next]_vars, NEW e \in Emails, delivery[e].status = "sent"
  PROVE  delivery'[e] = delivery[e]
<1>1. CASE delivery' = delivery
  BY <1>1
<1>2. CASE Deliver
  BY <1>2 DEF Deliver, BeginDelivery, InsertUserEmail, CommitDelivery,
     RollbackDelivery, NoDelivery, TypeInv, TypeOK
<1>3. CASE Sort \/ Refile \/ Discard \/ Filter \/ UNCHANGED vars
  BY <1>1, <1>3 DEF vars, Sort, Refile, MarkEmailAsRead, MarkEmailAsUnRead, Untrash,
     Favorite, Unfavorite, Spam, Unspam, SwitchIsInbox, setUserEmailFlagsBatch,
     Writes, Discard, TrashStep, Trash, Delete, ReadDeleted, TrashEmails,
     DeleteUserEmailsBatch, TrashFails, Filter, BlockStep, UnblockStep, BlockSenders,
     UnblockSenders, UpdateFromSenders, CommitBlock, CommitUnblock, RollbackTx
<1>. QED
  BY <1>2, <1>3 DEF Next, Step

LEMMA NextDisposed ==
  TypeInv /\ Disposed /\ (TypeInv /\ Arrived)' /\ [Next]_vars => Disposed'
<1>. SUFFICES ASSUME TypeInv, Disposed, TypeInv', Arrived', [Next]_vars,
                     NEW m \in disposed'
              PROVE  delivery'[m[2]].status = "sent"
  BY DEF Disposed
<1>1. CASE m \in disposed
  <2>1. m[2] \in Emails
    BY <1>1 DEF TypeInv, TypeOK, Mail
  <2>. QED
    BY <1>1, <2>1, SentStays DEF Disposed
<1>2. CASE m \notin disposed
  <2>1. Next
    BY <1>2 DEF vars
  <2>2. PICK k \in Flagged' : MailOf(k) = m
    BY <1>2, <2>1, RecordGrows DEF Next
  <2>3. k \in rows' /\ m[2] = k[2]
    BY <2>2 DEF Flagged, TypeInv, TypeOK, Column, MailOf
  <2>. QED
    BY <2>3 DEF Arrived
<1>. QED
  BY <1>1, <1>2

LEMMA NextChosen ==
  TypeInv /\ Marked /\ Chosen /\ TypeInv' /\ [Next]_vars => Chosen'
<1>. SUFFICES ASSUME TypeInv, Marked, Chosen, TypeInv', [Next]_vars
              PROVE  Chosen'
  OBVIOUS
<1>0. disposed \subseteq disposed'
  BY RecordGrows DEF Next, vars
<1>1. CASE trash' = trash
  BY <1>0, <1>1 DEF Chosen
<1>2. ASSUME NEW t \in Trashers, NEW new, trash' = [trash EXCEPT ![t] = new],
             \A e \in new.toRemove : <<new.user, e>> \in disposed
      PROVE  Chosen'
  BY <1>0, <1>2 DEF Chosen, TypeInv, TypeOK
<1>3. ASSUME NEW c \in {"spam", "deleted"}, NEW u, NEW E, NEW e \in MailsIn(c, u, E)
      PROVE  <<u, e>> \in disposed
  BY <1>3 DEF MailsIn, Marked, Flagged, MailOf
<1>4. ASSUME NEW t \in Trashers, NEW u \in Users, NEW E \in Batches, Trash(t, u, E)
      PROVE  Chosen'
  <2>. DEFINE new == [step |-> "spamRead", user |-> u,
                      toTrash |-> E \ MailsIn("spam", u, E),
                      toRemove |-> MailsIn("spam", u, E)]
  <2>1. trash' = [trash EXCEPT ![t] = new]
    BY <1>4 DEF Trash
  <2>2. \A e \in new.toRemove : <<new.user, e>> \in disposed
    BY <1>3
  <2>. QED
    BY <1>2, <2>1, <2>2
<1>5. ASSUME NEW t \in Trashers, ReadDeleted(t)
      PROVE  Chosen'
  <2>. DEFINE r   == trash[t]
              del == MailsIn("deleted", r.user, r.toTrash)
              new == [step |-> "decided", user |-> r.user,
                      toTrash |-> r.toTrash \ del, toRemove |-> r.toRemove \cup del]
  <2>1. trash' = [trash EXCEPT ![t] = new]
    BY <1>5 DEF ReadDeleted
  <2>2. \A e \in new.toRemove : <<new.user, e>> \in disposed
    BY <1>3 DEF Chosen
  <2>. QED
    BY <1>2, <2>1, <2>2
<1>6. ASSUME NEW t \in Trashers, TrashEmails(t)
      PROVE  Chosen'
  <2>. DEFINE new == [step |-> "trashed", user |-> trash[t].user,
                      toTrash |-> {}, toRemove |-> trash[t].toRemove]
  <2>1. trash' = [trash EXCEPT ![t] = new]
    BY <1>6 DEF TrashEmails
  <2>2. \A e \in new.toRemove : <<new.user, e>> \in disposed
    BY DEF Chosen
  <2>. QED
    BY <1>2, <2>1, <2>2
<1>7. ASSUME NEW t \in Trashers, trash' = [trash EXCEPT ![t] = IdleTrash]
      PROVE  Chosen'
  <2>1. \A e \in IdleTrash.toRemove : <<IdleTrash.user, e>> \in disposed
    BY DEF IdleTrash
  <2>. QED
    BY <1>2, <1>7, <2>1
<1>8. CASE Discard
  BY <1>4, <1>5, <1>6, <1>7, <1>8
     DEF Discard, TrashStep, Delete, DeleteUserEmailsBatch, TrashFails
<1>9. CASE Deliver \/ Sort \/ Refile \/ Filter \/ UNCHANGED vars
  BY <1>1, <1>9 DEF vars, Deliver, BeginDelivery, InsertUserEmail, CommitDelivery,
     RollbackDelivery, Sort, Refile, MarkEmailAsRead, MarkEmailAsUnRead, Untrash,
     Favorite, Unfavorite, Spam, Unspam, SwitchIsInbox, setUserEmailFlagsBatch,
     Writes, Filter, BlockStep, UnblockStep, BlockSenders, UnblockSenders,
     UpdateFromSenders, CommitBlock, CommitUnblock, RollbackTx
<1>. QED
  BY <1>8, <1>9 DEF Next, Step

LEMMA NextLockedOwn == TypeInv /\ LockedOwn /\ [Next]_vars => LockedOwn'
<1>. SUFFICES ASSUME TypeInv, LockedOwn, [Next]_vars
              PROVE  LockedOwn'
  OBVIOUS
<1>1. CASE tx' = tx
  BY <1>1 DEF LockedOwn
<1>2. ASSUME NEW b \in Blocking, NEW new, tx' = [tx EXCEPT ![b] = new],
             \A k \in new.locked : k[1] = new.user
      PROVE  LockedOwn'
  BY <1>2 DEF LockedOwn, TypeInv, TypeOK
<1>3. ASSUME NEW b \in Blocking, UpdateFromSenders(b)
      PROVE  LockedOwn'
  <2>. DEFINE K == RowsFrom(tx[b].user, tx[b].senders)
              new == [step |-> "rows", user |-> tx[b].user,
                      senders |-> tx[b].senders, held |-> tx[b].held, locked |-> K]
  <2>1. tx' = [tx EXCEPT ![b] = new]
    BY <1>3 DEF UpdateFromSenders
  <2>2. \A k \in new.locked : k[1] = new.user
    BY DEF RowsFrom
  <2>. QED
    BY <1>2, <2>1, <2>2
<1>4. ASSUME NEW b \in Blocking, NEW u, NEW S,
             BlockSenders(b, u, S) \/ UnblockSenders(b, u, S)
      PROVE  LockedOwn'
  <2>. DEFINE Opened(H) == [step |-> "pairs", user |-> u, senders |-> S,
                            held |-> H, locked |-> {}]
  <2>1. \A H : \A k \in Opened(H).locked : k[1] = Opened(H).user
    OBVIOUS
  <2>2. PICK H : tx' = [tx EXCEPT ![b] = Opened(H)]
    BY <1>4 DEF BlockSenders, UnblockSenders
  <2>. HIDE DEF Opened
  <2>. QED
    BY <1>2, <2>1, <2>2
<1>5. ASSUME NEW b \in Blocking, tx' = [tx EXCEPT ![b] = IdleTx]
      PROVE  LockedOwn'
  <2>1. \A k \in IdleTx.locked : k[1] = IdleTx.user
    BY DEF IdleTx
  <2>. QED
    BY <1>2, <1>5, <2>1
<1>6. CASE Filter
  BY <1>3, <1>4, <1>5, <1>6 DEF Filter, BlockStep, UnblockStep, Blocking,
     CommitBlock, CommitUnblock, RollbackTx
<1>7. CASE Deliver \/ Sort \/ Refile \/ Discard \/ UNCHANGED vars
  BY <1>1, <1>7 DEF vars, Deliver, BeginDelivery, InsertUserEmail, CommitDelivery,
     RollbackDelivery, Sort, Refile, MarkEmailAsRead, MarkEmailAsUnRead, Untrash,
     Favorite, Unfavorite, Spam, Unspam, SwitchIsInbox, setUserEmailFlagsBatch,
     Writes, Discard, TrashStep, Trash, Delete, ReadDeleted, TrashEmails,
     DeleteUserEmailsBatch, TrashFails
<1>. QED
  BY <1>6, <1>7 DEF Next, Step

LEMMA NextLifeInv == LifeInv /\ [Next]_vars => LifeInv'
  BY NextType, NextArrived, NextMarked, NextDisposed, NextChosen, NextLockedOwn
     DEF LifeInv

-----------------------------------------------------------------------------
(* The steps of the abstract life.                                          *)
lifeBar == [m \in Mail |-> lifeOf(m)]

LEMMA InitLife == Init => Life!Init
  BY DEF Init, Life!Init, Life!Mail, Mail, lifeOf, NoDelivery

(* A step that changes neither the rows nor the delivery of a mail, and     *)
(* records nothing new, leaves its life as it is.                           *)
LEMMA SameLife ==
  ASSUME NEW m \in Mail, HasRow(m)' <=> HasRow(m), m \in disposed' <=> m \in disposed,
         HasRow(m) \/ delivery'[m[2]] = delivery[m[2]]
  PROVE  lifeOf(m)' = lifeOf(m)
  BY DEF lifeOf, HasRow, MailOf

(* A step whose new flags are all on rows of the user v moves mails of v to *)
(* the bin: exactly the ones it records.                                    *)
LEMMA BinStep ==
  ASSUME LifeInv, LifeInv', Record, NEW v,
         rows' = rows, delivery' = delivery,
         \A k \in Flagged' : k \in Flagged \/ k[1] = v
  PROVE  Life!Next \/ UNCHANGED lifeBar
<1>. DEFINE E == {e \in Emails : <<v, e>> \in disposed' \ disposed}
<1>0. \A m \in Mail : HasRow(m)' <=> HasRow(m)
  BY DEF HasRow, MailOf
<1>1. disposed \subseteq disposed' /\ disposed' \subseteq Mail
  BY RecordGrows DEF LifeInv, TypeInv, TypeOK
<1>2. ASSUME NEW m \in disposed' \ disposed
      PROVE  m \in {v} \X E /\ m[1] \in Users /\ HasRow(m)
  <2>1. PICK k \in Flagged' : MailOf(k) = m
    BY <1>2, RecordGrows DEF LifeInv
  <2>2. k \notin Flagged
    BY <1>2, <2>1 DEF LifeInv, Marked
  <2>3. k[1] = v /\ k \in rows
    BY <2>1, <2>2 DEF Flagged, LifeInv, TypeInv, TypeOK, Column
  <2>4. m \in Mail
    BY <1>1, <1>2
  <2>. QED
    BY <1>2, <2>1, <2>3, <2>4 DEF HasRow, MailOf, Mail
<1>3. CASE disposed' = disposed
  BY <1>0, <1>3, SameLife DEF lifeBar
<1>4. CASE disposed' # disposed
  <2>1. v \in Users
    BY <1>1, <1>2, <1>4
  <2>2. \A m \in {v} \X E : m \in Mail /\ lifeOf(m) = "kept" /\ lifeOf(m)' = "binned"
    BY <1>0, <1>2, <2>1 DEF lifeOf, HasRow, MailOf, Mail
  <2>3. \A m \in Mail : m \notin {v} \X E => lifeOf(m)' = lifeOf(m)
    BY <1>0, <1>1, <1>2, SameLife
  <2>4. Life!Bin(v, E)
    BY <2>1, <2>2, <2>3 DEF Life!Bin, Life!In, Life!Mail, Mail
  <2>. QED
    BY <2>1, <2>4 DEF Life!Next
<1>. QED
  BY <1>3, <1>4

(* A delivery that is not committed is invisible. *)
LEMMA OpenStep ==
  ASSUME LifeInv, LifeInv', Record, NEW e \in Emails, UNCHANGED <<rows, flag>>,
         delivery[e].status # "sent", delivery'[e].status # "sent",
         \A f \in Emails : f # e => delivery'[f] = delivery[f]
  PROVE  UNCHANGED lifeBar
<1>1. disposed' = disposed
  BY RecordGrows DEF LifeInv, Marked, Flagged
<1>2. ASSUME NEW m \in Mail, m[2] = e
      PROVE  lifeOf(m)' = lifeOf(m)
  <2>1. ~ HasRow(m)
    BY <1>2 DEF LifeInv, Arrived, HasRow, MailOf
  <2>. QED
    BY <1>2, <2>1 DEF lifeOf, HasRow, MailOf
<1>3. ASSUME NEW m \in Mail, m[2] # e
      PROVE  lifeOf(m)' = lifeOf(m)
  BY <1>1, <1>3 DEF lifeOf, Mail
<1>. QED
  BY <1>2, <1>3 DEF lifeBar

(* The commit of a delivery is the arrival of the mail for its recipients   *)
(* and its sender, filtered for the recipients that blocked the sender.     *)
LEMMA CommitStep ==
  ASSUME LifeInv, LifeInv', Record, NEW e \in Emails, CommitDelivery(e)
  PROVE  Life!Next
<1>. DEFINE new == NewRows(e, delivery[e].to)
            U   == delivery[e].to \cup ({SenderOf[e]} \cap Users)
            F   == delivery[e].spam
<1>1. U \in SUBSET Users /\ F \in SUBSET Users /\ F \subseteq U
  BY DEF LifeInv, TypeInv, TypeOK, Bounded, DeliveryState
<1>2. /\ rows' = rows \cup new
      /\ flag'["spam"] = flag["spam"] \cup (F \X {e} \X {"received"})
      /\ flag'["deleted"] = flag["deleted"]
      /\ delivery[e].status = "open"
  BY DEF CommitDelivery, LifeInv, TypeInv, TypeOK, Column
<1>3. /\ delivery'[e].status = "sent"
      /\ delivery'[e].to = delivery[e].to
      /\ \A f \in Emails : f # e => delivery'[f] = delivery[f]
  BY DEF CommitDelivery, LifeInv, TypeInv, TypeOK
<1>4. ASSUME NEW m \in Mail, m[2] # e
      PROVE  lifeOf(m)' = lifeOf(m)
  <2>1. m \in disposed' <=> m \in disposed
    BY <1>2, <1>4, RecordGrows DEF LifeInv, Marked, Flagged, MailOf
  <2>2. HasRow(m)' <=> HasRow(m)
    BY <1>2, <1>4, NewRowsOfMail DEF HasRow, MailOf
  <2>3. delivery'[m[2]] = delivery[m[2]]
    BY <1>3, <1>4 DEF Mail
  <2>. QED
    BY <2>1, <2>2, <2>3, SameLife
<1>5. ASSUME NEW u \in Users
      PROVE  /\ ~ HasRow(<<u, e>>)
             /\ <<u, e>> \notin disposed
             /\ HasRow(<<u, e>>)' <=> u \in U
             /\ <<u, e>> \in disposed' <=> u \in F
  <2>1. ~ HasRow(<<u, e>>)
    BY <1>2 DEF LifeInv, Arrived, HasRow, MailOf
  <2>2. <<u, e>> \notin disposed
    BY <1>2 DEF LifeInv, Disposed
  <2>3. ASSUME u \in U PROVE HasRow(<<u, e>>)'
    <3>1. <<u, e, "received">> \in new \/ <<u, e, "sent">> \in new
      BY <2>3 DEF NewRows
    <3>. QED
      BY <1>2, <3>1 DEF HasRow, MailOf
  <2>4. ASSUME HasRow(<<u, e>>)' PROVE u \in U
    <3>1. PICK k \in new : MailOf(k) = <<u, e>>
      BY <1>2, <2>1, <2>4 DEF HasRow, MailOf
    <3>. QED
      BY <3>1 DEF NewRows, MailOf
  <2>5. ASSUME u \in F PROVE <<u, e>> \in disposed'
    <3>1. <<u, e, "received">> \in Flagged'
      BY <1>2, <2>5 DEF Flagged
    <3>. QED
      BY <3>1, RecordGrows DEF LifeInv, MailOf
  <2>6. ASSUME <<u, e>> \in disposed' PROVE u \in F
    <3>1. PICK k \in Flagged' : MailOf(k) = <<u, e>>
      BY <2>2, <2>6, RecordGrows DEF LifeInv
    <3>2. k \notin Flagged
      BY <2>2, <3>1 DEF LifeInv, Marked
    <3>. QED
      BY <1>2, <3>1, <3>2 DEF Flagged, MailOf
  <2>. QED
    BY <2>1, <2>2, <2>3, <2>4, <2>5, <2>6
<1>6. ASSUME NEW u \in Users
      PROVE  /\ lifeOf(<<u, e>>) = "absent"
             /\ lifeOf(<<u, e>>)' = IF u \in F THEN "binned"
                                    ELSE IF u \in U THEN "kept" ELSE "absent"
  BY <1>1, <1>2, <1>3, <1>5 DEF lifeOf, HasRow, MailOf
<1>7. Life!Arrive(e, U, F)
  <2>1. ASSUME NEW m \in Mail
        PROVE  lifeOf(m)' = IF m \in F \X {e} THEN "binned"
                           ELSE IF m \in U \X {e} THEN "kept" ELSE lifeOf(m)
    <3>1. CASE m[2] = e
      <4>1. m = <<m[1], e>> /\ m[1] \in Users
        BY <3>1 DEF Mail
      <4>. QED
        BY <1>6, <4>1
    <3>2. CASE m[2] # e
      BY <1>4, <3>2
    <3>. QED
      BY <3>1, <3>2
  <2>2. \A u \in U : <<u, e>> \in Mail /\ lifeOf(<<u, e>>) = "absent"
    BY <1>1, <1>6 DEF Mail
  <2>. QED
    BY <1>1, <2>1, <2>2 DEF Life!Arrive, Life!In, Life!Mail, Mail
<1>. QED
  BY <1>1, <1>7 DEF Life!Next

(* DeleteUserEmailsBatch loses the mails of its user that still have a row; *)
(* all of them were recorded when the request chose them.                   *)
LEMMA LoseStep ==
  ASSUME LifeInv, LifeInv', Record, NEW t \in Trashers, DeleteUserEmailsBatch(t)
  PROVE  Life!Next \/ UNCHANGED lifeBar
<1>. PICK u : u = trash[t].user
  OBVIOUS
<1>. PICK E : E = {e \in trash[t].toRemove : HasRow(<<u, e>>)}
  OBVIOUS
<1>. DEFINE K == RowsOf(u, trash[t].toRemove)
<1>1. /\ rows' = rows \ K
      /\ \A c \in Column : flag'[c] = flag[c] \ K
      /\ delivery' = delivery
  BY DEF DeleteUserEmailsBatch
<1>2. disposed' = disposed
  BY <1>1, RecordGrows DEF LifeInv, Marked, Flagged, Column
<1>3. ASSUME NEW m \in Mail, m \notin {u} \X E
      PROVE  lifeOf(m)' = lifeOf(m)
  <2>1. HasRow(m)' <=> HasRow(m)
    BY <1>1, <1>3 DEF HasRow, MailOf, RowsOf
  <2>. QED
    BY <1>1, <1>2, <2>1, SameLife
<1>4. ASSUME NEW e \in E
      PROVE  /\ u \in Users /\ e \in Emails
             /\ lifeOf(<<u, e>>) = "binned" /\ lifeOf(<<u, e>>)' = "gone"
  <2>1. PICK k \in rows : MailOf(k) = <<u, e>>
    BY <1>4 DEF HasRow
  <2>2. k[1] = u /\ k[2] = e /\ u \in Users /\ e \in Emails
    BY <2>1 DEF LifeInv, TypeInv, TypeOK, Key, MailOf
  <2>3. lifeOf(<<u, e>>) = "binned"
    BY <1>4, <2>1 DEF LifeInv, Chosen, lifeOf, MailOf
  <2>4. ~ HasRow(<<u, e>>)'
    BY <1>1, <1>4 DEF HasRow, MailOf, RowsOf
  <2>5. delivery[e].status = "sent" /\ u \in delivery[e].to \cup {SenderOf[e]}
    BY <2>2 DEF LifeInv, Arrived, NewRows
  <2>6. lifeOf(<<u, e>>)' = "gone"
    BY <1>1, <2>4, <2>5 DEF lifeOf, HasRow, MailOf
  <2>. QED
    BY <2>2, <2>3, <2>6
<1>5. CASE E = {}
  BY <1>3, <1>5 DEF lifeBar
<1>6. CASE E # {}
  <2>1. u \in Users /\ E \in SUBSET Emails
    BY <1>4, <1>6
  <2>2. \A m \in {u} \X E : m \in Mail /\ lifeOf(m) = "binned" /\ lifeOf(m)' = "gone"
    BY <1>4, <2>1 DEF Mail
  <2>3. Life!Lose(u, E)
    BY <1>3, <2>2 DEF Life!Lose, Life!In, Life!Mail, Mail
  <2>. QED
    BY <2>1, <2>3 DEF Life!Next
<1>. QED
  BY <1>5, <1>6

-----------------------------------------------------------------------------
(* Every step of the mailbox is a step of the life of its mails, or none.   *)
LEMMA NextLife == LifeInv /\ LifeInv' /\ [Next]_vars => [Life!Next]_lifeBar
<1>. SUFFICES ASSUME LifeInv, LifeInv', [Next]_vars
              PROVE  Life!Next \/ UNCHANGED lifeBar
  OBVIOUS
<1>1. CASE UNCHANGED vars
  BY <1>1 DEF vars, lifeBar, lifeOf
<1>. SUFFICES ASSUME Step, Record
              PROVE  Life!Next \/ UNCHANGED lifeBar
  BY <1>1 DEF Next
<1>0. flag \in [Column -> SUBSET rows]
  BY DEF LifeInv, TypeInv, TypeOK
<1>2. CASE Deliver
  <2>1. ASSUME NEW e \in Emails,
               \/ \E R \in SUBSET Users : BeginDelivery(e, R)
               \/ \E u \in Users : InsertUserEmail(e, u)
               \/ RollbackDelivery(e)
        PROVE  UNCHANGED lifeBar
    <3>1. UNCHANGED <<rows, flag>> /\ delivery[e].status # "sent"
          /\ delivery'[e].status # "sent"
          /\ \A f \in Emails : f # e => delivery'[f] = delivery[f]
      BY <2>1 DEF BeginDelivery, InsertUserEmail, RollbackDelivery, NoDelivery,
         LifeInv, TypeInv, TypeOK
    <3>. QED
      BY <3>1, OpenStep
  <2>. QED
    BY <1>2, <2>1, CommitStep DEF Deliver
<1>3. CASE Sort \/ Refile
  <2>1. rows' = rows /\ delivery' = delivery
    BY <1>3 DEF Sort, Refile, MarkEmailAsRead, MarkEmailAsUnRead, Untrash, Favorite,
       Unfavorite, Spam, Unspam, SwitchIsInbox, setUserEmailFlagsBatch, Writes
  <2>2. ASSUME NEW u \in Users, NEW E \in Batches,
               \/ MarkEmailAsRead(u, E) \/ MarkEmailAsUnRead(u, E) \/ Untrash(u, E)
               \/ Unfavorite(u, E) \/ Unspam(u, E)
        PROVE  Flagged' \subseteq Flagged
    BY <1>0, <2>2 DEF MarkEmailAsRead, MarkEmailAsUnRead, Untrash, Unfavorite, Unspam,
       setUserEmailFlagsBatch, Writes, Column, Flagged
  <2>3. ASSUME NEW u \in Users, NEW E \in Batches, Favorite(u, E)
        PROVE  Flagged' \subseteq Flagged
    BY <1>0, <2>3 DEF Favorite, Writes, Column, Flagged
  <2>4. ASSUME NEW u \in Users, NEW e \in Emails, SwitchIsInbox(u, e)
        PROVE  Flagged' \subseteq Flagged
    BY <1>0, <2>4 DEF SwitchIsInbox, Writes, Column, Flagged
  <2>5. ASSUME NEW u \in Users, NEW E \in Batches, Spam(u, E)
        PROVE  \A k \in Flagged' : k \in Flagged \/ k[1] = u
    BY <1>0, <2>5 DEF Spam, Writes, MarkedSpam, RowsOf, Column, Flagged
  <2>6. PICK u \in Users : \A k \in Flagged' : k \in Flagged \/ k[1] = u
    BY <1>3, <2>2, <2>3, <2>4, <2>5 DEF Sort, Refile
  <2>. QED
    BY <2>1, <2>6, BinStep
<1>4. ASSUME NEW t \in Trashers, TrashEmails(t)
      PROVE  Life!Next \/ UNCHANGED lifeBar
  <2>1. rows' = rows /\ delivery' = delivery
    BY <1>4 DEF TrashEmails
  <2>2. \A k \in Flagged' : k \in Flagged \/ k[1] = trash[t].user
    BY <1>0, <1>4 DEF TrashEmails, RowsOf, Column, Flagged
  <2>. QED
    BY <2>1, <2>2, BinStep
<1>5. ASSUME NEW b \in Blocking, CommitBlock(b) \/ CommitUnblock(b)
      PROVE  Life!Next \/ UNCHANGED lifeBar
  <2>1. rows' = rows /\ delivery' = delivery
    BY <1>5 DEF CommitBlock, CommitUnblock
  <2>2. \A k \in Flagged' : k \in Flagged \/ k \in tx[b].locked
    BY <1>0, <1>5 DEF CommitBlock, CommitUnblock, MarkedSpam, Column, Flagged
  <2>3. \A k \in Flagged' : k \in Flagged \/ k[1] = tx[b].user
    BY <2>2 DEF LifeInv, LockedOwn
  <2>. QED
    BY <2>1, <2>3, BinStep
<1>6. ASSUME UNCHANGED <<rows, flag, delivery>>
      PROVE  Life!Next \/ UNCHANGED lifeBar
  BY <1>6, BinStep DEF Flagged
<1>7. CASE Discard
  BY <1>4, <1>6, <1>7, LoseStep DEF Discard, TrashStep, Trash, Delete, ReadDeleted,
     TrashFails
<1>8. CASE Filter
  BY <1>5, <1>6, <1>8 DEF Filter, BlockStep, UnblockStep, BlockSenders,
     UnblockSenders, UpdateFromSenders, RollbackTx, Blocking
<1>. QED
  BY <1>2, <1>3, <1>7, <1>8 DEF Step

(* The mailbox implements MailLife: however the four statements of a Trash  *)
(* or a Delete interleave with other requests and fail, no mail is lost     *)
(* that was never in the spam or the trash, none arrives twice, and a lost  *)
(* mail does not come back.                                                 *)
THEOREM MailboxImplementsLife == Spec => LifeSpec
<1>1. LifeInv /\ [Next]_vars => LifeInv' /\ [Life!Next]_lifeBar
  BY NextLifeInv, NextLife
<1>. QED
  BY <1>1, InitLifeInv, InitLife, PTL DEF Spec, LifeSpec, Life!Spec, lifeBar

-----------------------------------------------------------------------------
(* What a block covers.                                                     *)
(* A block or an unblock holds pairs of its own user and senders.           *)
HeldOwn == \A b \in Blocking : tx[b].held \subseteq {tx[b].user} \X tx[b].senders

(* A transaction that has written one row of a mail has written all of this *)
(* user: they appear with the commit of the delivery, at once.              *)
LockedWhole ==
  \A b \in Blocking : \A k \in tx[b].locked, j \in rows :
    j[1] = k[1] /\ j[2] = k[2] => j \in tx[b].locked

CrossingExempt == Crossing \subseteq exempt

(* A decision that a row is no spam was taken before the block.             *)
DecidedBefore ==
  \A e \in Emails : delivery[e].status = "open" =>
    \A u \in delivery[e].to \ (delivery[e].left \cup delivery[e].spam) :
      <<u, SenderOf[e]>> \in blocked => <<u, e>> \in exempt

(* What a block that is open has missed came from a delivery it crossed.    *)
MissedByBlock ==
  \A b \in Blockers : tx[b].step = "rows" =>
    \A k \in RowsFrom(tx[b].user, tx[b].senders) \ tx[b].locked :
      k[3] = "received" => k \in flag["spam"] \/ <<k[1], k[2]>> \in exempt

Filtered ==
  /\ HeldOwn /\ LockedWhole /\ CrossingExempt
  /\ DecidedBefore /\ MissedByBlock /\ BlockedIsSpam

FilterInv == TypeInv /\ Arrived /\ Filtered

LEMMA InitFilterInv == FilterInit => FilterInv
<1> SUFFICES ASSUME FilterInit PROVE FilterInv
  OBVIOUS
<1>1. TypeInv /\ Arrived
  BY InitType, InitArrived DEF FilterInit
<1>2. HeldOwn /\ LockedWhole
  BY DEF FilterInit, Init, HeldOwn, LockedWhole, IdleTx, Blocking
<1>3. Crossing = {} /\ DecidedBefore
  BY SenderAssumption DEF FilterInit, Init, Crossing, DecidedBefore, NoDelivery, Mail
<1>4. MissedByBlock /\ BlockedIsSpam
  BY DEF FilterInit, Init, MissedByBlock, BlockedIsSpam, RowsFrom
<1> QED
  BY <1>1, <1>2, <1>3, <1>4 DEF FilterInv, Filtered, CrossingExempt

(* Every step of the filter is one of the mailbox.                          *)
LEMMA FilterStep == FilterNext => Next
  BY DEF FilterNext, TakeOut, PutBack, SortOther, FilterOther, Next, Step, Deliver,
         Sort, Refile, Discard, Filter, BlockStep, UnblockStep, Blocking

(* A step that takes no mail out of the spam but those it makes exempt, and *)
(* neither delivers nor blocks.                                             *)
LEMMA QuietStep ==
  ASSUME Filtered, rows' \subseteq rows, blocked' \subseteq blocked, delivery' = delivery,
         exempt \subseteq exempt',
         \A k \in rows' : k \in flag["spam"] =>
           k \in flag'["spam"] \/ <<k[1], k[2]>> \in exempt',
         \A b \in Blocking : tx'[b] = tx[b] \/ tx'[b] = IdleTx
  PROVE  Filtered'
<1>0. \A b \in Blockers : b \in Blocking
  BY DEF Blocking
<1>1. HeldOwn'
  BY <1>0 DEF Filtered, HeldOwn, IdleTx
<1>2. LockedWhole'
  BY DEF Filtered, LockedWhole, IdleTx
<1>3. CrossingExempt'
  <2>1. \A b \in Blockers : tx'[b].step = "rows" => tx'[b] = tx[b]
    BY <1>0 DEF IdleTx
  <2>2. Crossing' \subseteq Crossing
    BY <2>1 DEF Crossing
  <2> QED BY <2>2 DEF Filtered, CrossingExempt
<1>4. DecidedBefore'
  BY DEF Filtered, DecidedBefore
<1>5. MissedByBlock'
  <2> SUFFICES ASSUME NEW b \in Blockers, tx'[b].step = "rows", NEW k \in rows',
                      k[1] = tx'[b].user, SenderOf[k[2]] \in tx'[b].senders,
                      k \notin tx'[b].locked, k[3] = "received"
               PROVE  k \in flag'["spam"] \/ <<k[1], k[2]>> \in exempt'
    BY DEF MissedByBlock, RowsFrom
  <2>1. tx'[b] = tx[b]
    BY <1>0 DEF IdleTx
  <2>2. k \in flag["spam"] \/ <<k[1], k[2]>> \in exempt
    BY <2>1 DEF Filtered, MissedByBlock, RowsFrom
  <2> QED BY <2>2
<1>6. BlockedIsSpam'
  BY DEF Filtered, BlockedIsSpam
<1> QED
  BY <1>1, <1>2, <1>3, <1>4, <1>5, <1>6 DEF Filtered

(* A statement of a block or an unblock, which its transaction keeps to     *)
(* itself so far: it has the rows of all its mails, or none.                *)
LEMMA TransactionStep ==
  ASSUME FilterInv, NEW b \in Blocking, NEW r, tx' = [tx EXCEPT ![b] = r],
         UNCHANGED <<rows, flag, blocked, delivery>>,
         exempt' = exempt \cup Crossing',
         r.held \subseteq {r.user} \X r.senders,
         \/ r.step = "pairs" /\ r.locked = {}
         \/ r.step = "rows" /\ r.locked = RowsFrom(r.user, r.senders)
  PROVE  Filtered'
<1>0. tx \in [Blocking -> TxState] /\ (\A c \in Blockers : c \in Blocking)
  BY DEF FilterInv, TypeInv, TypeOK, Blocking
<1>a. tx'[b] = r /\ \A c \in Blocking \ {b} : tx'[c] = tx[c]
  BY <1>0
<1>1. HeldOwn'
  BY <1>0, <1>a DEF FilterInv, Filtered, HeldOwn
<1>2. LockedWhole'
  <2>1. \A c \in Blocking \ {b} : \A k \in tx'[c].locked, j \in rows' :
          j[1] = k[1] /\ j[2] = k[2] => j \in tx'[c].locked
    BY <1>a DEF FilterInv, Filtered, LockedWhole
  <2>2. \A k \in r.locked, j \in rows : j[1] = k[1] /\ j[2] = k[2] => j \in r.locked
    BY DEF RowsFrom
  <2> QED BY <1>a, <2>1, <2>2 DEF LockedWhole
<1>3. CrossingExempt'
  BY DEF CrossingExempt
<1>4. DecidedBefore'
  BY DEF FilterInv, Filtered, DecidedBefore
<1>5. MissedByBlock'
  <2> SUFFICES ASSUME NEW c \in Blockers, tx'[c].step = "rows", NEW k \in rows,
                      k[1] = tx'[c].user, SenderOf[k[2]] \in tx'[c].senders,
                      k \notin tx'[c].locked, k[3] = "received"
               PROVE  k \in flag["spam"] \/ <<k[1], k[2]>> \in exempt'
    BY DEF MissedByBlock, RowsFrom
  <2>1. CASE c = b
    BY <1>a, <2>1 DEF RowsFrom
  <2>2. CASE c # b
    <3>1. tx'[c] = tx[c]
      BY <1>0, <1>a, <2>2
    <3> QED BY <3>1 DEF FilterInv, Filtered, MissedByBlock, RowsFrom
  <2> QED BY <2>1, <2>2
<1>6. BlockedIsSpam'
  BY DEF FilterInv, Filtered, BlockedIsSpam
<1> QED
  BY <1>1, <1>2, <1>3, <1>4, <1>5, <1>6 DEF Filtered

(* The commit of a block: what it missed is exempt, and what it marks is    *)
(* exempt no more.                                                          *)
LEMMA CommitBlockStep ==
  ASSUME FilterInv, NEW b \in Blockers, CommitBlock(b),
         exempt' = exempt \ MailsOf(tx[b].locked)
  PROVE  Filtered'
<1> DEFINE K == tx[b].locked
<1>0. /\ tx \in [Blocking -> TxState] /\ (\A c \in Blockers : c \in Blocking)
      /\ K \subseteq rows /\ rows \subseteq Key
  BY DEF FilterInv, TypeInv, TypeOK, Blocking, Bounded
<1>a. /\ tx'[b] = IdleTx /\ (\A c \in Blocking \ {b} : tx'[c] = tx[c])
      /\ tx[b].step = "rows"
      /\ blocked' = blocked \cup tx[b].held
      /\ rows' = rows /\ delivery' = delivery
  BY <1>0 DEF CommitBlock
<1>b. flag'["spam"] = flag["spam"] \cup K
  <2>1. flag \in [Column -> SUBSET rows] /\ flag' = MarkedSpam(K)
    BY DEF FilterInv, TypeInv, TypeOK, CommitBlock
  <2> QED BY <2>1 DEF MarkedSpam, Column
<1>c. ASSUME NEW k \in rows, <<k[1], k[2]>> \in MailsOf(K)
      PROVE  k \in K
  <2>1. PICK j \in K : <<k[1], k[2]>> = <<j[1], j[2]>>
    BY <1>c DEF MailsOf
  <2>2. k[1] = j[1] /\ k[2] = j[2]
    BY <2>1
  <2> QED BY <1>0, <2>2 DEF FilterInv, Filtered, LockedWhole
<1>d. ASSUME NEW e \in Emails, NEW u, delivery[e].status = "open"
      PROVE  <<u, e>> \notin MailsOf(K)
  <2> SUFFICES ASSUME <<u, e>> \in MailsOf(K) PROVE FALSE
    OBVIOUS
  <2>1. PICK j \in K : <<u, e>> = <<j[1], j[2]>>
    BY DEF MailsOf
  <2>2. e = j[2] /\ j \in rows
    BY <1>0, <2>1
  <2> QED BY <1>d, <2>2 DEF FilterInv, Arrived
<1>1. HeldOwn'
  BY <1>0, <1>a DEF FilterInv, Filtered, HeldOwn, IdleTx
<1>2. LockedWhole'
  BY <1>0, <1>a DEF FilterInv, Filtered, LockedWhole, IdleTx
<1>3. CrossingExempt'
  <2>1. \A c \in Blockers : tx'[c].step = "rows" => tx'[c] = tx[c]
    BY <1>0, <1>a DEF IdleTx
  <2>2. Crossing' \subseteq Crossing
    BY <1>a, <2>1 DEF Crossing
  <2>3. Crossing \cap MailsOf(K) = {}
    BY <1>d DEF Crossing, Mail
  <2> QED BY <2>2, <2>3 DEF FilterInv, Filtered, CrossingExempt
<1>4. DecidedBefore'
  <2> SUFFICES ASSUME NEW e \in Emails, delivery[e].status = "open",
                      NEW u \in delivery[e].to \ (delivery[e].left \cup delivery[e].spam),
                      <<u, SenderOf[e]>> \in blocked \cup tx[b].held
               PROVE  <<u, e>> \in exempt
    BY <1>a, <1>d DEF DecidedBefore
  <2>1. CASE <<u, SenderOf[e]>> \in blocked
    BY <2>1 DEF FilterInv, Filtered, DecidedBefore
  <2>2. CASE <<u, SenderOf[e]>> \in tx[b].held
    <3>1. u = tx[b].user /\ SenderOf[e] \in tx[b].senders
      BY <1>0, <2>2 DEF FilterInv, Filtered, HeldOwn
    <3>2. u \in Users
      BY DEF FilterInv, TypeInv, TypeOK, DeliveryState
    <3>3. <<u, e>> \in Crossing
      BY <1>a, <3>1, <3>2 DEF Crossing, Mail
    <3> QED BY <3>3 DEF FilterInv, Filtered, CrossingExempt
  <2> QED BY <2>1, <2>2
<1>5. ASSUME NEW k \in rows, k \in flag["spam"] \/ <<k[1], k[2]>> \in exempt
      PROVE  k \in flag'["spam"] \/ <<k[1], k[2]>> \in exempt'
  BY <1>b, <1>c, <1>5
<1>6. MissedByBlock'
  <2> SUFFICES ASSUME NEW c \in Blockers, tx'[c].step = "rows", NEW k \in rows,
                      k[1] = tx'[c].user, SenderOf[k[2]] \in tx'[c].senders,
                      k \notin tx'[c].locked, k[3] = "received"
               PROVE  k \in flag["spam"] \/ <<k[1], k[2]>> \in exempt
    BY <1>5, <1>a DEF MissedByBlock, RowsFrom
  <2>1. tx'[c] = tx[c]
    BY <1>0, <1>a DEF IdleTx
  <2> QED BY <2>1 DEF FilterInv, Filtered, MissedByBlock, RowsFrom
<1>7. BlockedIsSpam'
  <2> SUFFICES ASSUME NEW k \in rows, k[3] = "received",
                      <<k[1], SenderOf[k[2]]>> \in blocked \cup tx[b].held
               PROVE  k \in flag'["spam"] \/ <<k[1], k[2]>> \in exempt'
    BY <1>a DEF BlockedIsSpam
  <2>1. CASE <<k[1], SenderOf[k[2]]>> \in blocked
    BY <1>5, <2>1 DEF FilterInv, Filtered, BlockedIsSpam
  <2>2. CASE <<k[1], SenderOf[k[2]]>> \in tx[b].held /\ k \notin K
    <3>1. k[1] = tx[b].user /\ SenderOf[k[2]] \in tx[b].senders
      BY <1>0, <2>2 DEF FilterInv, Filtered, HeldOwn
    <3> QED BY <1>5, <1>a, <2>2, <3>1 DEF FilterInv, Filtered, MissedByBlock, RowsFrom
  <2> QED BY <1>b, <2>1, <2>2
<1> QED
  BY <1>1, <1>2, <1>3, <1>4, <1>6, <1>7 DEF Filtered

(* A step of a delivery before its commit.                                  *)
LEMMA DeliveryStep ==
  ASSUME FilterInv, NEW e \in Emails, NEW d, delivery' = [delivery EXCEPT ![e] = d],
         UNCHANGED <<rows, flag, blocked, tx>>,
         exempt' = exempt \cup Crossing',
         d.status = "open" =>
           \A u \in d.to \ (d.left \cup d.spam) :
             <<u, SenderOf[e]>> \in blocked => <<u, e>> \in exempt
  PROVE  Filtered'
<1>1. HeldOwn' /\ LockedWhole' /\ CrossingExempt'
  BY DEF FilterInv, Filtered, HeldOwn, LockedWhole, CrossingExempt
<1>2. DecidedBefore'
  <2>1. delivery'[e] = d /\ \A f \in Emails \ {e} : delivery'[f] = delivery[f]
    BY DEF FilterInv, TypeInv, TypeOK
  <2> QED BY <2>1 DEF FilterInv, Filtered, DecidedBefore
<1>3. MissedByBlock' /\ BlockedIsSpam'
  BY DEF FilterInv, Filtered, MissedByBlock, RowsFrom, BlockedIsSpam
<1> QED
  BY <1>1, <1>2, <1>3 DEF Filtered

(* The commit of a delivery: a received row that is not spam is of a sender *)
(* who is not blocked, or crossed the block.                                *)
LEMMA CommitDeliveryStep ==
  ASSUME FilterInv, NEW e \in Emails, CommitDelivery(e), exempt' = exempt \cup Crossing'
  PROVE  Filtered'
<1> DEFINE d == delivery[e]
           new == NewRows(e, d.to)
<1>0. /\ d.status = "open" /\ d.left = {}
      /\ rows' = rows \cup new /\ blocked' = blocked /\ tx' = tx
      /\ delivery \in [Emails -> DeliveryState]
      /\ delivery'[e].status = "sent" /\ \A f \in Emails \ {e} : delivery'[f] = delivery[f]
      /\ \A c \in Blockers : c \in Blocking
  BY DEF CommitDelivery, FilterInv, TypeInv, TypeOK, Blocking
<1>a. flag'["spam"] = flag["spam"] \cup (d.spam \X {e} \X {"received"})
  BY DEF CommitDelivery, FilterInv, TypeInv, TypeOK, Column
<1>b. ASSUME NEW k \in new
      PROVE  /\ k[2] = e
             /\ k[3] = "received" => k[1] \in d.to /\ k = <<k[1], e, "received">>
  BY DEF NewRows
<1>c. \A k \in rows : k[2] # e
  BY <1>0 DEF FilterInv, Arrived
<1>1. HeldOwn'
  BY <1>0 DEF FilterInv, Filtered, HeldOwn
<1>2. LockedWhole'
  <2>1. \A b \in Blocking : tx[b].locked \subseteq rows
    BY DEF FilterInv, TypeInv, Bounded
  <2> QED BY <1>0, <1>b, <1>c, <2>1 DEF FilterInv, Filtered, LockedWhole
<1>3. CrossingExempt'
  BY DEF CrossingExempt
<1>4. DecidedBefore'
  BY <1>0 DEF FilterInv, Filtered, DecidedBefore
<1>5. MissedByBlock'
  <2> SUFFICES ASSUME NEW c \in Blockers, tx[c].step = "rows", NEW k \in rows \cup new,
                      k[1] = tx[c].user, SenderOf[k[2]] \in tx[c].senders,
                      k \notin tx[c].locked, k[3] = "received"
               PROVE  k \in flag'["spam"] \/ <<k[1], k[2]>> \in exempt'
    BY <1>0 DEF MissedByBlock, RowsFrom
  <2>1. CASE k \in rows
    BY <1>a, <2>1 DEF FilterInv, Filtered, MissedByBlock, RowsFrom
  <2>2. CASE k \in new
    <3>1. k[2] = e /\ k[1] \in d.to /\ k = <<k[1], e, "received">>
      BY <1>b, <2>2
    <3>2. CASE k[1] \in d.spam
      BY <1>a, <3>1, <3>2
    <3>3. CASE k[1] \notin d.spam
      <4>1. k[1] \in Users
        BY <1>0, <3>1 DEF DeliveryState
      <4>2. <<k[1], e>> \in Crossing
        BY <1>0, <3>1, <3>3, <4>1 DEF Crossing, Mail
      <4> QED BY <3>1, <4>2 DEF FilterInv, Filtered, CrossingExempt
    <3> QED BY <3>2, <3>3
  <2> QED BY <2>1, <2>2
<1>6. BlockedIsSpam'
  <2> SUFFICES ASSUME NEW k \in rows \cup new, k[3] = "received",
                      <<k[1], SenderOf[k[2]]>> \in blocked
               PROVE  k \in flag'["spam"] \/ <<k[1], k[2]>> \in exempt'
    BY <1>0 DEF BlockedIsSpam
  <2>1. CASE k \in rows
    BY <1>a, <2>1 DEF FilterInv, Filtered, BlockedIsSpam
  <2>2. CASE k \in new
    <3>1. k[2] = e /\ k[1] \in d.to /\ k = <<k[1], e, "received">>
      BY <1>b, <2>2
    <3>2. k[1] \notin d.spam => <<k[1], e>> \in exempt
      BY <1>0, <3>1 DEF FilterInv, Filtered, DecidedBefore
    <3> QED BY <1>a, <3>1, <3>2
  <2> QED BY <2>1, <2>2
<1> QED
  BY <1>1, <1>2, <1>3, <1>4, <1>5, <1>6 DEF Filtered

LEMMA NextFilterInv == FilterInv /\ [FilterNext]_filterVars => FilterInv'
<1> SUFFICES ASSUME FilterInv, [FilterNext]_filterVars PROVE FilterInv'
  OBVIOUS
<1>1. TypeInv' /\ Arrived'
  BY FilterStep, NextType, NextArrived DEF FilterInv, filterVars
<1> SUFFICES Filtered'
  BY <1>1 DEF FilterInv
<1>0. Filtered /\ TypeOK /\ flag \in [Column -> SUBSET rows] /\ tx \in [Blocking -> TxState]
  BY DEF FilterInv, TypeInv, TypeOK
<1>2. ASSUME NEW u \in Users, NEW E \in Batches, Unspam(u, E), exempt' = exempt \cup ({u} \X E)
      PROVE  Filtered'
  <2>1. flag'["spam"] = flag["spam"] \ RowsOf(u, E)
    BY <1>0, <1>2 DEF Unspam, setUserEmailFlagsBatch, Writes, Column
  <2>2. UNCHANGED <<rows, blocked, delivery, tx>>
    BY <1>2 DEF Unspam, setUserEmailFlagsBatch, Writes
  <2>3. \A k \in RowsOf(u, E) : <<k[1], k[2]>> \in exempt'
    BY <1>2 DEF RowsOf
  <2>4. \A k \in rows' : k \in flag["spam"] =>
           k \in flag'["spam"] \/ <<k[1], k[2]>> \in exempt'
    BY <2>1, <2>3
  <2> QED BY <1>0, <1>2, <2>2, <2>4, QuietStep
<1>3. ASSUME NEW x \in Unblockers, CommitUnblock(x), exempt' = exempt \cup MailsOf(tx[x].locked)
      PROVE  Filtered'
  <2>1. flag'["spam"] = flag["spam"] \ tx[x].locked
    BY <1>0, <1>3 DEF CommitUnblock, Column
  <2>2. /\ UNCHANGED <<rows, delivery>> /\ blocked' \subseteq blocked
        /\ \A b \in Blocking : tx'[b] = tx[b] \/ tx'[b] = IdleTx
    BY <1>0, <1>3 DEF CommitUnblock
  <2>3. \A k \in tx[x].locked : <<k[1], k[2]>> \in exempt'
    BY <1>3 DEF MailsOf
  <2>4. \A k \in rows' : k \in flag["spam"] =>
           k \in flag'["spam"] \/ <<k[1], k[2]>> \in exempt'
    BY <2>1, <2>3
  <2> QED BY <1>0, <1>3, <2>2, <2>4, QuietStep
<1>4. ASSUME PutBack
      PROVE  Filtered'
  BY <1>4, CommitBlockStep DEF PutBack
<1>5. ASSUME exempt' = exempt \cup Crossing', rows' \subseteq rows,
             UNCHANGED <<blocked, delivery, tx>>,
             \A k \in rows' : k \in flag["spam"] => k \in flag'["spam"]
      PROVE  Filtered'
  BY <1>0, <1>5, QuietStep
<1>6. ASSUME SortOther \/ Refile, exempt' = exempt \cup Crossing'
      PROVE  Filtered'
  <2>1. UNCHANGED <<rows, blocked, delivery, tx>>
    BY <1>6 DEF SortOther, Refile, MarkEmailAsRead, MarkEmailAsUnRead, Untrash, Favorite,
       Unfavorite, Spam, SwitchIsInbox, setUserEmailFlagsBatch, Writes
  <2>2. flag["spam"] \subseteq flag'["spam"]
    <3>1. ASSUME SortOther
          PROVE  flag["spam"] \subseteq flag'["spam"]
      BY <1>0, <3>1 DEF SortOther, MarkEmailAsRead, MarkEmailAsUnRead, Untrash,
         Favorite, Unfavorite, Spam, MarkedSpam, setUserEmailFlagsBatch, Writes, Column
    <3>2. ASSUME Refile
          PROVE  flag["spam"] \subseteq flag'["spam"]
      BY <1>0, <3>2 DEF Refile, SwitchIsInbox, Writes, Column
    <3> QED BY <1>6, <3>1, <3>2
  <2> QED BY <1>5, <1>6, <2>1, <2>2
<1>7. ASSUME Discard, exempt' = exempt \cup Crossing'
      PROVE  Filtered'
  <2>1. UNCHANGED <<blocked, delivery, tx>>
    BY <1>7 DEF Discard, Trash, Delete, TrashStep, ReadDeleted, TrashEmails,
       DeleteUserEmailsBatch, TrashFails
  <2>2. rows' \subseteq rows /\ \A k \in rows' : k \in flag["spam"] => k \in flag'["spam"]
    <3>1. ASSUME NEW t \in Trashers, TrashEmails(t)
          PROVE  rows' = rows /\ flag'["spam"] = flag["spam"]
      BY <1>0, <3>1 DEF TrashEmails, Column
    <3>2. ASSUME NEW t \in Trashers, DeleteUserEmailsBatch(t)
          PROVE  rows' \subseteq rows /\ \A k \in rows' : k \in flag["spam"] => k \in flag'["spam"]
      BY <1>0, <3>2 DEF DeleteUserEmailsBatch, Column
    <3> QED BY <1>7, <3>1, <3>2 DEF Discard, Trash, Delete, TrashStep, ReadDeleted, TrashFails
  <2> QED BY <1>5, <1>7, <2>1, <2>2
<1>8. ASSUME Deliver, exempt' = exempt \cup Crossing'
      PROVE  Filtered'
  <2>1. ASSUME NEW e \in Emails, NEW R \in SUBSET Users, BeginDelivery(e, R)
        PROVE  Filtered'
    <3>1. PICK d : /\ d = [status |-> "open", to |-> R, left |-> R, spam |-> {}]
                   /\ delivery' = [delivery EXCEPT ![e] = d]
      BY <2>1 DEF BeginDelivery
    <3>2. UNCHANGED <<rows, flag, blocked, tx>>
      BY <2>1 DEF BeginDelivery
    <3> QED BY <1>8, <3>1, <3>2, DeliveryStep
  <2>2. ASSUME NEW e \in Emails, NEW u \in Users, InsertUserEmail(e, u)
        PROVE  Filtered'
    <3>1. PICK caught : caught = {v \in {u} : <<v, SenderOf[e]>> \in blocked}
      OBVIOUS
    <3>2. PICK d : /\ d = [status |-> "open", to |-> delivery[e].to,
                           left |-> delivery[e].left \ {u}, spam |-> delivery[e].spam \cup caught]
                   /\ delivery' = [delivery EXCEPT ![e] = d]
      BY <2>2, <3>1 DEF InsertUserEmail
    <3>3. UNCHANGED <<rows, flag, blocked, tx>> /\ delivery[e].status = "open"
      BY <2>2 DEF InsertUserEmail
    <3>4. ASSUME NEW v \in d.to \ (d.left \cup d.spam), <<v, SenderOf[e]>> \in blocked
          PROVE  <<v, e>> \in exempt
      <4>1. v # u
        BY <3>1, <3>2, <3>4
      <4>2. v \in delivery[e].to \ (delivery[e].left \cup delivery[e].spam)
        BY <3>2, <4>1
      <4> QED BY <1>0, <3>3, <3>4, <4>2 DEF Filtered, DecidedBefore
    <3> QED BY <1>8, <3>2, <3>3, <3>4, DeliveryStep
  <2>3. ASSUME NEW e \in Emails, RollbackDelivery(e)
        PROVE  Filtered'
    <3>1. /\ delivery' = [delivery EXCEPT ![e] = NoDelivery]
          /\ UNCHANGED <<rows, flag, blocked, tx>> /\ NoDelivery.status # "open"
      BY <2>3 DEF RollbackDelivery, NoDelivery
    <3> QED BY <1>8, <3>1, DeliveryStep
  <2> QED BY <1>8, <2>1, <2>2, <2>3, CommitDeliveryStep DEF Deliver
<1>9. ASSUME FilterOther, exempt' = exempt \cup Crossing'
      PROVE  Filtered'
  <2>1. ASSUME NEW b \in Blocking, NEW u \in Users, NEW S \in SUBSET Users,
               BlockSenders(b, u, S) \/ UnblockSenders(b, u, S)
        PROVE  Filtered'
    <3>1. PICK H \in SUBSET ({u} \X S) :
            tx' = [tx EXCEPT ![b] = [step |-> "pairs", user |-> u, senders |-> S,
                                     held |-> H, locked |-> {}]]
      BY <2>1 DEF BlockSenders, UnblockSenders
    <3>2. UNCHANGED <<rows, flag, blocked, delivery>>
      BY <2>1 DEF BlockSenders, UnblockSenders
    <3>3. PICK r : /\ r = [step |-> "pairs", user |-> u, senders |-> S, held |-> H, locked |-> {}]
                   /\ tx' = [tx EXCEPT ![b] = r]
      BY <3>1
    <3>4. r.held \subseteq {r.user} \X r.senders /\ r.step = "pairs" /\ r.locked = {}
      BY <3>3
    <3> QED BY <1>9, <3>2, <3>3, <3>4, TransactionStep
  <2>2. ASSUME NEW b \in Blocking, UpdateFromSenders(b)
        PROVE  Filtered'
    <3>1. PICK r : /\ r = [step |-> "rows", user |-> tx[b].user, senders |-> tx[b].senders,
                           held |-> tx[b].held, locked |-> RowsFrom(tx[b].user, tx[b].senders)]
                   /\ tx' = [tx EXCEPT ![b] = r]
      BY <2>2 DEF UpdateFromSenders
    <3>2. UNCHANGED <<rows, flag, blocked, delivery>>
      BY <2>2 DEF UpdateFromSenders
    <3>3. r.step = "rows" /\ r.locked = RowsFrom(r.user, r.senders)
      BY <3>1
    <3>4. r.held \subseteq {r.user} \X r.senders
      BY <1>0, <3>1 DEF Filtered, HeldOwn
    <3> QED BY <1>9, <3>1, <3>2, <3>3, <3>4, TransactionStep
  <2>3. ASSUME NEW b \in Blocking, RollbackTx(b)
        PROVE  Filtered'
    <3>1. /\ UNCHANGED <<rows, flag, blocked, delivery>>
          /\ \A c \in Blocking : tx'[c] = tx[c] \/ tx'[c] = IdleTx
      BY <1>0, <2>3 DEF RollbackTx
    <3> QED BY <1>0, <1>9, <3>1, QuietStep
  <2> QED BY <1>9, <2>1, <2>2, <2>3 DEF FilterOther, Blocking
<1>10. CASE UNCHANGED filterVars
  BY <1>0, <1>10, QuietStep DEF filterVars, vars
<1>11. CASE FilterNext
  BY <1>2, <1>3, <1>4, <1>6, <1>7, <1>8, <1>9, <1>11 DEF FilterNext, TakeOut
<1> QED
  BY <1>10, <1>11

(* The history changes nothing: what holds of the mailbox holds here.       *)
THEOREM FilterIsMailbox == FilterSpec => Spec
<1>1. FilterInit => Init
  BY DEF FilterInit
<1>2. [FilterNext]_filterVars => [Next]_vars
  BY FilterStep DEF filterVars
<1> QED
  BY <1>1, <1>2, PTL DEF FilterSpec, Spec

(* A received mail of a blocked sender is in the spam, but for what the     *)
(* user took out and for deliveries that crossed the block, with any number *)
(* of users, mails, blocks and unblocks at a time.                          *)
THEOREM BlockedIsSpamAlways == FilterSpec => []BlockedIsSpam
<1>1. FilterInv => BlockedIsSpam
  BY DEF FilterInv, Filtered
<1> QED
  BY <1>1, InitFilterInv, NextFilterInv, PTL DEF FilterSpec

-----------------------------------------------------------------------------
(* The requests of u that have counted and not inserted yet. *)
Pending(u) == {c \in Creators : creating[c].step = "counted" /\ creating[c].user = u}

(* A request that has counted holds the right to one folder of its user. *)
CountInv ==
  /\ IsFiniteSet(DOMAIN folders)
  /\ \A u \in Users :
       Cardinality(Table!FoldersOf(u)) + Cardinality(Pending(u)) + 1
         <= MaxCustomFolders + Cardinality(Creators)

-----------------------------------------------------------------------------
(* The table, which is a module of its own, counts as this one does.        *)
LEMMA SameCount ==
  ASSUME NEW S
  PROVE  Table!Cardinality(S) = Cardinality(S)
  BY DEF Cardinality, Table!Cardinality

LEMMA InitTable == Table!TableInit => Table!TableTypeOK
  BY DEF Table!TableInit, Table!TableTypeOK, Table!IdleCreate

LEMMA NextTable == Table!TableTypeOK /\ [Table!TableNext]_tableVars => Table!TableTypeOK'
<1>. SUFFICES ASSUME Table!TableTypeOK, [Table!TableNext]_tableVars
              PROVE  Table!TableTypeOK'
  OBVIOUS
<1>. USE DEF Table!TableTypeOK
<1>1. ASSUME NEW c \in Creators, NEW u \in Users, NEW n \in Names, Table!CreateNewFolder(c, u, n)
      PROVE  Table!TableTypeOK'
  BY <1>1 DEF Table!CreateNewFolder
<1>2. ASSUME NEW c \in Creators, NEW f \in Folders, Table!CreateFolder(c, f)
      PROVE  Table!TableTypeOK'
  <2>. DEFINE u == creating[c].user
              n == creating[c].name
  <2>1. /\ folders' = [g \in DOMAIN folders \cup {f} |->
             IF g = f THEN [owner |-> u, name |-> n] ELSE folders[g]]
        /\ used' = used \cup {f} /\ f \notin used /\ n \notin Table!NamesOf(u, Folders)
    BY <1>2 DEF Table!CreateFolder
  <2>2. \A g \in DOMAIN folders' : folders'[g] \in Table!Row
    BY <1>2, <2>1 DEF Table!CreateFolder, Table!Row
  <2>3. \A g \in DOMAIN folders : folders[g] # [owner |-> u, name |-> n]
    BY <2>1 DEF Table!NamesOf, Table!FoldersOf
  <2>5. \A g, h \in DOMAIN folders' : folders'[g] = folders'[h] => g = h
    BY <2>1, <2>3
  <2>4. creating' \in [Creators -> [step : {"idle", "counted"},
                                    user : Users \cup {Nobody},
                                    name : Names \cup {Nobody}]]
    BY <1>2 DEF Table!CreateFolder, Table!IdleCreate
  <2>. QED
    BY <1>2, <2>1, <2>2, <2>4, <2>5 DEF Table!CreateFolder, Table!IdleCreate
<1>3. ASSUME NEW c \in Creators, Table!CreateFails(c)
      PROVE  Table!TableTypeOK'
  BY <1>3 DEF Table!CreateFails, Table!IdleCreate
<1>4. ASSUME NEW u \in Users, NEW f \in Folders, NEW n \in Names, Table!ChangeFolderName(u, f, n)
      PROVE  Table!TableTypeOK'
  <2>1. folders' = [folders EXCEPT ![f] = [owner |-> u, name |-> n]]
        /\ f \in DOMAIN folders /\ UNCHANGED <<used, creating>>
    BY <1>4 DEF Table!ChangeFolderName, Table!FoldersOf
  <2>2. \A g \in DOMAIN folders \ {f} : folders[g] # [owner |-> u, name |-> n]
    BY <1>4 DEF Table!ChangeFolderName, Table!NamesOf, Table!FoldersOf
  <2>. QED
    BY <2>1, <2>2 DEF Table!Row
<1>5. ASSUME NEW u \in Users, NEW f \in Folders, Table!DeleteFolder(u, f)
      PROVE  Table!TableTypeOK'
  BY <1>5 DEF Table!DeleteFolder
<1>6. CASE UNCHANGED tableVars
  BY <1>6 DEF tableVars
<1>. QED
  BY <1>1, <1>2, <1>3, <1>4, <1>5, <1>6 DEF Table!TableNext, Table!Create, Table!Rename, Table!Remove

-----------------------------------------------------------------------------
LEMMA InitCount == Table!TableInit => CountInv
<1>. SUFFICES ASSUME Table!TableInit PROVE CountInv
  OBVIOUS
<1>1. DOMAIN folders = {}
  BY DEF Table!TableInit
<1>2. \A u \in Users : Table!FoldersOf(u) = {} /\ Pending(u) = {}
  BY <1>1 DEF Table!TableInit, Table!FoldersOf, Pending, Table!IdleCreate
<1>3. Cardinality(Creators) \in Nat
  BY CreatorsAssumption, FS_CardinalityType
<1>4. IsFiniteSet(DOMAIN folders)
  BY <1>1, FS_EmptySet
<1>5. ASSUME NEW u \in Users
      PROVE  Cardinality(Table!FoldersOf(u)) = 0 /\ Cardinality(Pending(u)) = 0
  BY <1>2, FS_EmptySet
<1>. QED
  BY <1>3, <1>4, <1>5, LimitAssumption DEF CountInv

(* The sets that are counted are finite. *)
LEMMA Counted ==
  ASSUME CountInv, NEW u
  PROVE  /\ IsFiniteSet(Table!FoldersOf(u)) /\ Cardinality(Table!FoldersOf(u)) \in Nat
         /\ IsFiniteSet(Pending(u)) /\ Cardinality(Pending(u)) \in Nat
         /\ Cardinality(Pending(u)) <= Cardinality(Creators)
         /\ Cardinality(Creators) \in Nat
<1>1. Table!FoldersOf(u) \in SUBSET DOMAIN folders /\ Pending(u) \in SUBSET Creators
  BY DEF Table!FoldersOf, Pending
<1>. QED
  BY <1>1, CreatorsAssumption, FS_Subset, FS_CardinalityType DEF CountInv

LEMMA NextCount == Table!TableTypeOK /\ CountInv /\ [Table!TableNext]_tableVars => CountInv'
<1>. SUFFICES ASSUME Table!TableTypeOK, CountInv, [Table!TableNext]_tableVars
              PROVE  CountInv'
  OBVIOUS
<1>. USE LimitAssumption
(* Neither count of any user grows. *)
<1>1. ASSUME IsFiniteSet(DOMAIN folders'),
             \A u \in Users : /\ Table!FoldersOf(u)' \subseteq Table!FoldersOf(u)
                              /\ Pending(u)' \subseteq Pending(u)
      PROVE  CountInv'
  <2>. SUFFICES ASSUME NEW u \in Users
                PROVE  Cardinality(Table!FoldersOf(u)') + Cardinality(Pending(u)') + 1
                         <= MaxCustomFolders + Cardinality(Creators)
    BY <1>1 DEF CountInv
  <2>1. Table!FoldersOf(u)' \in SUBSET Table!FoldersOf(u) /\ Pending(u)' \in SUBSET Pending(u)
    BY <1>1
  <2>2. /\ Cardinality(Table!FoldersOf(u)') <= Cardinality(Table!FoldersOf(u))
        /\ Cardinality(Table!FoldersOf(u)') \in Nat
        /\ Cardinality(Pending(u)') <= Cardinality(Pending(u))
        /\ Cardinality(Pending(u)') \in Nat
    BY <2>1, Counted, FS_Subset, FS_CardinalityType
  <2>. QED
    BY <2>2, Counted DEF CountInv
(* Only a request that counted fewer folders than the limit gets the right. *)
<1>2. ASSUME NEW c \in Creators, NEW v \in Users, NEW n \in Names, Table!CreateNewFolder(c, v, n)
      PROVE  CountInv'
  <2>. SUFFICES ASSUME NEW u \in Users
                PROVE  Cardinality(Table!FoldersOf(u)') + Cardinality(Pending(u)') + 1
                         <= MaxCustomFolders + Cardinality(Creators)
    BY <1>2 DEF CountInv, Table!CreateNewFolder
  <2>1. Table!FoldersOf(u)' = Table!FoldersOf(u)
    BY <1>2 DEF Table!CreateNewFolder, Table!FoldersOf
  <2>2. CASE u = v
    <3>1. Pending(u)' \in SUBSET Creators
      BY DEF Pending
    <3>2. Cardinality(Pending(u)') <= Cardinality(Creators)
          /\ Cardinality(Pending(u)') \in Nat
      BY <3>1, CreatorsAssumption, FS_Subset, FS_CardinalityType
    <3>3. Cardinality(Table!FoldersOf(v)) < MaxCustomFolders
      BY <1>2, SameCount DEF Table!CreateNewFolder
    <3>. QED
      BY <2>1, <2>2, <3>2, <3>3, Counted
  <2>3. CASE u # v
    <3>1. Pending(u)' = Pending(u)
      BY <1>2, <2>3 DEF Table!CreateNewFolder, Pending, Table!TableTypeOK
    <3>. QED
      BY <2>1, <3>1 DEF CountInv
  <2>. QED
    BY <2>2, <2>3
(* An insertion turns the right of its request into a folder. *)
<1>3. ASSUME NEW c \in Creators, NEW f \in Folders, Table!CreateFolder(c, f)
      PROVE  CountInv'
  <2>1. /\ creating[c].step = "counted" /\ f \notin DOMAIN folders
        /\ DOMAIN folders' = DOMAIN folders \cup {f}
        /\ \A g \in DOMAIN folders : folders'[g] = folders[g]
        /\ folders'[f].owner = creating[c].user
        /\ creating' = [creating EXCEPT ![c] = Table!IdleCreate]
    BY <1>3 DEF Table!CreateFolder, Table!TableTypeOK
  <2>2. IsFiniteSet(DOMAIN folders')
    BY <2>1, FS_AddElement DEF CountInv
  <2>. SUFFICES ASSUME NEW u \in Users
                PROVE  Cardinality(Table!FoldersOf(u)') + Cardinality(Pending(u)') + 1
                         <= MaxCustomFolders + Cardinality(Creators)
    BY <2>2 DEF CountInv
  <2>3. CASE u = creating[c].user
    <3>1. Table!FoldersOf(u)' = Table!FoldersOf(u) \cup {f} /\ f \notin Table!FoldersOf(u)
      BY <2>1, <2>3 DEF Table!FoldersOf
    <3>2. Pending(u)' = Pending(u) \ {c} /\ c \in Pending(u)
      BY <2>1, <2>3 DEF Pending, Table!TableTypeOK, Table!IdleCreate
    <3>3. Cardinality(Table!FoldersOf(u)') = Cardinality(Table!FoldersOf(u)) + 1
      BY <3>1, Counted, FS_AddElement
    <3>4. Cardinality(Pending(u)') = Cardinality(Pending(u)) - 1
      BY <3>2, Counted, FS_RemoveElement
    <3>. QED
      BY <3>3, <3>4, Counted DEF CountInv
  <2>4. CASE u # creating[c].user
    <3>1. Table!FoldersOf(u)' = Table!FoldersOf(u)
      BY <2>1, <2>4 DEF Table!FoldersOf
    <3>2. Pending(u)' = Pending(u)
      BY <2>1, <2>4 DEF Pending, Table!TableTypeOK, Table!IdleCreate
    <3>. QED
      BY <3>1, <3>2 DEF CountInv
  <2>. QED
    BY <2>3, <2>4
<1>4. ASSUME NEW c \in Creators, Table!CreateFails(c)
      PROVE  CountInv'
  <2>1. \A u \in Users : Table!FoldersOf(u)' = Table!FoldersOf(u) /\ Pending(u)' \subseteq Pending(u)
    BY <1>4 DEF Table!CreateFails, Table!FoldersOf, Pending, Table!TableTypeOK, Table!IdleCreate
  <2>. QED
    BY <1>1, <1>4, <2>1 DEF Table!CreateFails, CountInv
<1>5. ASSUME NEW v \in Users, NEW f \in Folders, NEW n \in Names, Table!ChangeFolderName(v, f, n)
      PROVE  CountInv'
  <2>1. DOMAIN folders' = DOMAIN folders
    BY <1>5 DEF Table!ChangeFolderName
  <2>2. \A u \in Users : Table!FoldersOf(u)' = Table!FoldersOf(u) /\ Pending(u)' = Pending(u)
    BY <1>5, <2>1 DEF Table!ChangeFolderName, Table!FoldersOf, Pending
  <2>. QED
    BY <1>1, <2>1, <2>2 DEF CountInv
<1>6. ASSUME NEW v \in Users, NEW f \in Folders, Table!DeleteFolder(v, f)
      PROVE  CountInv'
  <2>1. DOMAIN folders' = DOMAIN folders \ {f}
    BY <1>6 DEF Table!DeleteFolder
  <2>2. IsFiniteSet(DOMAIN folders')
    BY <2>1, FS_RemoveElement DEF CountInv
  <2>3. \A u \in Users : Table!FoldersOf(u)' \subseteq Table!FoldersOf(u) /\ Pending(u)' = Pending(u)
    BY <1>6 DEF Table!DeleteFolder, Table!FoldersOf, Pending
  <2>. QED
    BY <1>1, <2>2, <2>3
<1>7. CASE UNCHANGED tableVars
  BY <1>7 DEF tableVars, CountInv, Table!FoldersOf, Pending
<1>. QED
  BY <1>2, <1>3, <1>4, <1>5, <1>6, <1>7 DEF Table!TableNext, Table!Create, Table!Rename, Table!Remove
-----------------------------------------------------------------------------
(* The requests that file mails.                                            *)
RowOf(r) == <<r.user, Head(r.mails), "received">>

(* What a request knows: its folder, if it is still there, is one of its    *)
(* user, as ids are never used again; and a row it has found was delivered. *)
Knows(r) ==
  r.step # "idle" =>
    /\ r.user \in Users /\ r.mails \in Lists /\ r.folder \in used
    /\ r.folder \in DOMAIN folders => folders[r.folder].owner = r.user
    /\ r.step \in {"found", "filed"} => delivery[Head(r.mails)].status = "sent"

Working ==
  /\ filing \in [Filers -> FilingState]
  /\ \A s \in Filers : Knows(filing[s])

(* The requests that are going to switch is_inbox of the row k.             *)
Pend(k) == {s \in Filers : filing[s].step = "filed" /\ RowOf(filing[s]) = k}

Even(S) == Cardinality(S) % 2 = 0

(* A row that never went astray is in one folder at most, and shown in the  *)
(* inbox or not as the number of outstanding switches has it.               *)
OneFolder == \A k \in Key \ astray : \A f, g \in FolderOf(k) : f = g

Balanced ==
  \A k \in rows \ astray :
    k[3] = "received" => (k \in flag["inbox"] <=> (FolderOf(k) = {} <=> Even(Pend(k))))

Filed ==
  /\ filed \subseteq Folders \X Key /\ astray \subseteq Key
  /\ FiledIsReceived /\ OneFolder

Switching ==
  /\ \A k \in Key : IsFiniteSet(Pend(k))
  /\ Balanced

(* The mailbox and the table keep their own invariants, see below.          *)
MailInv  == TypeInv /\ Arrived /\ Marked
FilingInv == MailInv /\ Table!TableTypeOK /\ Working /\ Filed /\ Switching

-----------------------------------------------------------------------------
LEMMA Parity ==
  ASSUME NEW S, IsFiniteSet(S), NEW s
  PROVE  /\ IsFiniteSet(S \cup {s}) /\ IsFiniteSet(S \ {s})
         /\ s \notin S => (Even(S \cup {s}) <=> ~ Even(S))
         /\ s \in S => (Even(S \ {s}) <=> ~ Even(S))
<1>1. Cardinality(S) \in Nat
  BY FS_CardinalityType
<1>2. s \notin S => Cardinality(S \cup {s}) = Cardinality(S) + 1
  BY FS_AddElement
<1>3. s \in S => Cardinality(S \ {s}) = Cardinality(S) - 1 /\ Cardinality(S \ {s}) \in Nat
  BY FS_RemoveElement, FS_CardinalityType
<1>4. IsFiniteSet(S \cup {s}) /\ IsFiniteSet(S \ {s})
  BY FS_AddElement, FS_RemoveElement
<1>5. \A n \in Nat : ((n + 1) % 2 = 0) <=> ~ (n % 2 = 0)
  OBVIOUS
<1> QED
  BY <1>1, <1>2, <1>3, <1>4, <1>5 DEF Even

LEMMA ListFacts ==
  ASSUME NEW m \in Lists
  PROVE  /\ Head(m) \in Emails
         /\ Len(m) > 1 => Tail(m) \in Lists
<1>1. PICK n \in 1..MaxBatch : m \in [1..n -> Emails]
  BY DEF Lists
<1>2. n \in Nat /\ n >= 1 /\ n <= MaxBatch /\ m \in Seq(Emails) /\ Len(m) = n
  BY <1>1, BatchAssumption
<1>3. Head(m) \in Emails
  BY <1>1, <1>2
<1>4. ASSUME n > 1 PROVE Tail(m) \in Lists
  <2>3. Tail(m) \in Seq(Emails) /\ Len(Tail(m)) = n - 1
    BY <1>2, <1>4
  <2>1. Tail(m) \in [1..(n - 1) -> Emails]
    BY <2>3, LenProperties
  <2>2. n - 1 \in 1..MaxBatch
    BY <1>2, <1>4, BatchAssumption
  <2> QED BY <2>1, <2>2 DEF Lists
<1> QED
  BY <1>2, <1>3, <1>4

(* The row of a request at work.                                            *)
LEMMA RowOfKnown ==
  ASSUME Working, NEW s \in Filers, filing[s].step # "idle"
  PROVE  /\ RowOf(filing[s]) \in Key /\ FiledRow(s) = RowOf(filing[s])
         /\ filing[s].user \in Users /\ Head(filing[s].mails) \in Emails
         /\ filing[s].folder \in used
  BY ListFacts DEF Working, Knows, RowOf, FiledRow, Key, Role

(* A step of a request changes its own record.                              *)
LEMMA Goes ==
  ASSUME Working, NEW s \in Filers, NEW x \in {"allowed", "found", "filed"}, Go(s, x)
  PROVE  \E r \in FilingState :
           /\ filing' = [filing EXCEPT ![s] = r]
           /\ r.step = x /\ r.user = filing[s].user /\ r.folder = filing[s].folder
           /\ r.mails = filing[s].mails
<1>1. filing[s] \in FilingState
  BY DEF Working
<1>2. [filing[s] EXCEPT !.step = x] \in FilingState
  BY <1>1 DEF FilingState
<1>3. filing' = [filing EXCEPT ![s] = [filing[s] EXCEPT !.step = x]]
  BY DEF Go
<1>4. PICK r : r = [filing[s] EXCEPT !.step = x]
  OBVIOUS
<1>5. r.step = x /\ r.user = filing[s].user /\ r.folder = filing[s].folder
      /\ r.mails = filing[s].mails
  BY <1>1, <1>4 DEF FilingState
<1> QED
  BY <1>2, <1>3, <1>4, <1>5

LEMMA WorkingStep ==
  ASSUME Working, NEW s \in Filers, NEW r \in FilingState,
         filing' = [filing EXCEPT ![s] = r], Knows(r),
         UNCHANGED <<folders, used, delivery>>
  PROVE  Working'
<1>1. filing'[s] = r /\ \A t \in Filers \ {s} : filing'[t] = filing[t]
  BY DEF Working
<1>2. filing' \in [Filers -> FilingState]
  BY DEF Working
<1>3. ASSUME NEW t \in Filers
      PROVE  Knows(filing[t])'
  BY <1>1 DEF Working, Knows
<1> QED
  BY <1>2, <1>3 DEF Working

(* and joins or leaves the requests that wait for the switch of their row.  *)
LEMMA PendStep ==
  ASSUME Working, NEW s \in Filers, NEW r, filing' = [filing EXCEPT ![s] = r]
  PROVE  \A k : Pend(k)' = IF r.step = "filed" /\ RowOf(r) = k
                           THEN Pend(k) \cup {s} ELSE Pend(k) \ {s}
<1>1. filing'[s] = r /\ \A t \in Filers \ {s} : filing'[t] = filing[t]
  BY DEF Working
<1> QED
  BY <1>1 DEF Pend, RowOf

-----------------------------------------------------------------------------
(* Filing runs the mailbox and the table as they are.                       *)
LEMMA MailSteps == FilingInv /\ [FilingNext]_filingVars => [Next]_vars
<1> SUFFICES ASSUME FilingInv, [FilingNext]_filingVars
             PROVE  [Next]_vars
  OBVIOUS
<1>1. ASSUME File, disposed' = disposed
      PROVE  [Next]_vars
  <2>1. ASSUME NEW s \in Filers, SwitchFiled(s)
        PROVE  Next
    <3>1. /\ filing[s].user \in Users /\ Head(filing[s].mails) \in Emails
          /\ SwitchIsInbox(filing[s].user, Head(filing[s].mails))
      BY <2>1, RowOfKnown DEF FilingInv, SwitchFiled, At
    <3>2. flag'["spam"] = flag["spam"] /\ flag'["deleted"] = flag["deleted"]
      BY <3>1 DEF SwitchIsInbox, Writes, FilingInv, MailInv, TypeInv, TypeOK, Column
    <3>3. \A k \in flag["spam"] \cup flag["deleted"] : <<k[1], k[2]>> \in disposed
      BY DEF FilingInv, MailInv, Marked, Flagged, MailOf
    <3>4. Record
      BY <1>1, <3>2, <3>3 DEF Record
    <3>5. Refile
      BY <3>1 DEF Refile
    <3> QED BY <3>4, <3>5 DEF Next, Step
  <2>2. (\E s \in Filers : SwitchFiled(s)) \/ UNCHANGED mailVars
    BY <1>1 DEF File, AddEmailsInFolder, DeleteEmailsFromFolder, Begin, CheckEmailAccess,
       GetUserEmailID, AddEmailToFolder, DeleteEmailFromFolder, Switch, SwitchLost, FilingFails
  <2> QED BY <2>1, <2>2 DEF mailVars
<1>2. ASSUME MailStep, Record
      PROVE  Next
  BY <1>2 DEF MailStep, Next, Step, Sort
<1>3. ASSUME \/ UNCHANGED mailVars
             \/ \E u \in Users, f \in Folders : DeleteFolder(u, f)
      PROVE  UNCHANGED vars
  BY <1>3 DEF DeleteFolder, mailVars
<1> QED
  BY <1>1, <1>2, <1>3 DEF FilingNext, filingVars

LEMMA TableSteps == [FilingNext]_filingVars => [Table!TableNext]_tableVars
<1> SUFFICES ASSUME [FilingNext]_filingVars
             PROVE  [Table!TableNext]_tableVars
  OBVIOUS
<1>1. ASSUME File
      PROVE  UNCHANGED tableVars
  BY <1>1 DEF File, AddEmailsInFolder, DeleteEmailsFromFolder, Begin, CheckEmailAccess,
     GetUserEmailID, AddEmailToFolder, DeleteEmailFromFolder, Switch, SwitchLost, FilingFails
<1>2. ASSUME NEW u \in Users, NEW f \in Folders, DeleteFolder(u, f)
      PROVE  Table!TableNext
  BY <1>2 DEF DeleteFolder, Table!TableNext, Table!Remove
<1> QED
  BY <1>1, <1>2 DEF FilingNext, filingVars, Table!TableNext

-----------------------------------------------------------------------------
Local == Working /\ Filed /\ Switching

(* A step of a request that neither writes a membership nor switches.       *)
LEMMA Proceeds ==
  ASSUME FilingInv, NEW s \in Filers, NEW r \in FilingState, Knows(r),
         filing' = [filing EXCEPT ![s] = r],
         filing[s].step # "filed", r.step # "filed",
         UNCHANGED <<rows, flag, delivery, folders, used, filed, astray>>
  PROVE  Local'
<1>1. Working'
  BY WorkingStep DEF FilingInv
<1>2. Filed'
  BY DEF FilingInv, Filed, FiledIsReceived, OneFolder, FolderOf
<1>3. \A k : Pend(k)' = Pend(k)
  BY PendStep DEF FilingInv, Pend
<1>4. \A k : FolderOf(k)' = FolderOf(k)
  BY DEF FolderOf
<1>5. Switching'
  BY <1>3, <1>4 DEF FilingInv, Switching, Balanced
<1> QED
  BY <1>1, <1>2, <1>5 DEF Local

(* The membership is written: the row leaves the inbox with the switch.     *)
LEMMA Adds ==
  ASSUME FilingInv, NEW s \in Filers, AddEmailToFolder(s),
         filing[s].folder \in DOMAIN folders, FiledRow(s) \in rows
  PROVE  Local'
<1>0. PICK f, k : f = filing[s].folder /\ k = FiledRow(s)
  OBVIOUS
<1>1. /\ filing[s].step = "found"
      /\ filed' = filed \cup {<<f, k>>}
      /\ astray' = astray \cup {j \in {k} : FolderOf(j) # {}}
      /\ Go(s, "filed")
      /\ UNCHANGED <<rows, flag, delivery, folders, used>>
  BY <1>0 DEF AddEmailToFolder, At, mailVars, vars, tableVars
<1>2. PICK r \in FilingState :
        /\ filing' = [filing EXCEPT ![s] = r]
        /\ r.step = "filed" /\ r.user = filing[s].user /\ r.folder = filing[s].folder
        /\ r.mails = filing[s].mails
  BY <1>1, Goes DEF FilingInv
<1>3. Knows(filing[s]) /\ Working
  BY DEF FilingInv, Working
<1>4. k \in Key /\ k = RowOf(r) /\ k[1] = filing[s].user /\ k[3] = "received"
      /\ f \in used
  BY <1>0, <1>1, <1>2, <1>3, RowOfKnown DEF RowOf, FiledRow
<1>5. Working'
  <2>1. Knows(r)
    BY <1>1, <1>2, <1>3 DEF Knows
  <2> QED BY <1>1, <1>2, <1>3, <2>1, WorkingStep
<1>6. folders[f].owner = k[1] /\ f \in Folders
  BY <1>0, <1>1, <1>3, <1>4 DEF Knows, FilingInv, Table!TableTypeOK
<1>7. /\ \A j : FolderOf(j)' = IF j = k THEN FolderOf(k) \cup {f} ELSE FolderOf(j)
      /\ \A j \in Key \ astray' : j \notin astray /\ (j = k => FolderOf(k) = {})
  BY <1>0, <1>1 DEF FolderOf
<1>8. Filed'
  <2>1. filed' \subseteq Folders \X Key /\ astray' \subseteq Key
    BY <1>1, <1>4, <1>6 DEF FilingInv, Filed
  <2>2. FiledIsReceived'
    BY <1>0, <1>1, <1>4, <1>6 DEF FilingInv, Filed, FiledIsReceived
  <2>3. OneFolder'
    BY <1>7 DEF FilingInv, Filed, OneFolder
  <2> QED BY <2>1, <2>2, <2>3 DEF Filed
<1>9. /\ \A j : Pend(j)' = IF j = k THEN Pend(k) \cup {s} ELSE Pend(j)
      /\ s \notin Pend(k)
  <2>1. \A j : s \notin Pend(j)
    BY <1>1 DEF Pend
  <2>2. \A j : Pend(j)' = IF r.step = "filed" /\ RowOf(r) = j
                         THEN Pend(j) \cup {s} ELSE Pend(j) \ {s}
    BY <1>2, <1>3, PendStep
  <2> QED BY <1>2, <1>4, <2>1, <2>2
<1>10. \A j \in Key : IsFiniteSet(Pend(j)')
  BY <1>4, <1>9, Parity DEF FilingInv, Switching
<1>11. Balanced'
  <2> SUFFICES ASSUME NEW j \in rows \ astray', j[3] = "received"
               PROVE  j \in flag["inbox"] <=> (FolderOf(j)' = {} <=> Even(Pend(j)'))
    BY <1>1 DEF Balanced, Even
  <2>0. j \in Key /\ j \notin astray
    BY <1>7 DEF FilingInv, MailInv, TypeInv, TypeOK
  <2>1. j \in flag["inbox"] <=> (FolderOf(j) = {} <=> Even(Pend(j)))
    BY <2>0 DEF FilingInv, Switching, Balanced
  <2>2. CASE j # k
    BY <1>7, <1>9, <2>1, <2>2
  <2>3. CASE j = k
    <3>0. IsFiniteSet(Pend(k))
      BY <1>4 DEF FilingInv, Switching
    <3>1. Even(Pend(k)') <=> ~ Even(Pend(k))
      BY <1>9, <3>0, Parity
    <3>2. FolderOf(k) = {} /\ FolderOf(k)' # {}
      BY <1>7, <2>0, <2>3
    <3> QED BY <2>1, <2>3, <3>1, <3>2
  <2> QED BY <2>2, <2>3
<1> QED
  BY <1>5, <1>8, <1>10, <1>11 DEF Local, Switching

(* The membership is deleted: the row returns to the inbox with the switch. *)
LEMMA Takes ==
  ASSUME FilingInv, NEW s \in Filers, DeleteEmailFromFolder(s)
  PROVE  Local'
<1>0. PICK f, k : f = filing[s].folder /\ k = FiledRow(s)
  OBVIOUS
<1>1. /\ filing[s].step = "found"
      /\ filed' = filed \ {<<f, k>>}
      /\ astray' = astray \cup {j \in {k} : <<f, j>> \notin filed}
      /\ Go(s, "filed")
      /\ UNCHANGED <<rows, flag, delivery, folders, used>>
  BY <1>0 DEF DeleteEmailFromFolder, At, mailVars, vars, tableVars
<1>2. PICK r \in FilingState :
        /\ filing' = [filing EXCEPT ![s] = r]
        /\ r.step = "filed" /\ r.user = filing[s].user /\ r.folder = filing[s].folder
        /\ r.mails = filing[s].mails
  BY <1>1, Goes DEF FilingInv
<1>3. Knows(filing[s]) /\ Working
  BY DEF FilingInv, Working
<1>4. k \in Key /\ k = RowOf(r)
  BY <1>0, <1>1, <1>2, <1>3, RowOfKnown DEF RowOf, FiledRow
<1>5. Working'
  <2>1. Knows(r)
    BY <1>1, <1>2, <1>3 DEF Knows
  <2> QED BY <1>1, <1>2, <1>3, <2>1, WorkingStep
<1>6. /\ \A j : FolderOf(j)' \subseteq FolderOf(j) /\ (j # k => FolderOf(j)' = FolderOf(j))
      /\ \A j \in Key \ astray' : j \notin astray /\ (j = k => <<f, k>> \in filed)
  BY <1>1 DEF FolderOf
<1>7. Filed'
  <2>1. filed' \subseteq Folders \X Key /\ astray' \subseteq Key
    BY <1>1, <1>4 DEF FilingInv, Filed
  <2>2. FiledIsReceived'
    BY <1>1 DEF FilingInv, Filed, FiledIsReceived
  <2>3. OneFolder'
    BY <1>6 DEF FilingInv, Filed, OneFolder
  <2> QED BY <2>1, <2>2, <2>3 DEF Filed
<1>9. /\ \A j : Pend(j)' = IF j = k THEN Pend(k) \cup {s} ELSE Pend(j)
      /\ s \notin Pend(k)
  <2>1. \A j : s \notin Pend(j)
    BY <1>1 DEF Pend
  <2>2. \A j : Pend(j)' = IF r.step = "filed" /\ RowOf(r) = j
                         THEN Pend(j) \cup {s} ELSE Pend(j) \ {s}
    BY <1>2, <1>3, PendStep
  <2> QED BY <1>2, <1>4, <2>1, <2>2
<1>10. \A j \in Key : IsFiniteSet(Pend(j)')
  BY <1>4, <1>9, Parity DEF FilingInv, Switching
<1>11. Balanced'
  <2> SUFFICES ASSUME NEW j \in rows \ astray', j[3] = "received"
               PROVE  j \in flag["inbox"] <=> (FolderOf(j)' = {} <=> Even(Pend(j)'))
    BY <1>1 DEF Balanced, Even
  <2>0. j \in Key /\ j \notin astray
    BY <1>6 DEF FilingInv, MailInv, TypeInv, TypeOK
  <2>1. j \in flag["inbox"] <=> (FolderOf(j) = {} <=> Even(Pend(j)))
    BY <2>0 DEF FilingInv, Switching, Balanced
  <2>2. CASE j # k
    BY <1>6, <1>9, <2>1, <2>2
  <2>3. CASE j = k
    <3>0. IsFiniteSet(Pend(k))
      BY <1>4 DEF FilingInv, Switching
    <3>1. Even(Pend(k)') <=> ~ Even(Pend(k))
      BY <1>9, <3>0, Parity
    <3>2. <<f, k>> \in filed /\ f \in FolderOf(k)
      <4>1. <<f, k>> \in filed
        BY <1>6, <2>0, <2>3
      <4>2. f \in DOMAIN folders
        BY <4>1 DEF FilingInv, Filed, FiledIsReceived
      <4> QED BY <4>1, <4>2 DEF FolderOf
    <3>3. \A g \in FolderOf(k) : g = f
      BY <1>4, <2>0, <2>3, <3>2 DEF FilingInv, Filed, OneFolder
    <3>4. FolderOf(k)' = {}
      BY <1>1, <3>3 DEF FolderOf
    <3> QED BY <2>1, <2>3, <3>1, <3>2, <3>4
  <2> QED BY <2>2, <2>3
<1> QED
  BY <1>5, <1>7, <1>10, <1>11 DEF Local, Switching

(* The switch: unless the row is spam, it moves in or out of the inbox.     *)
LEMMA Switches ==
  ASSUME FilingInv, NEW s \in Filers, SwitchFiled(s), NEW r \in FilingState, Knows(r),
         filing' = [filing EXCEPT ![s] = r], r.step # "filed",
         UNCHANGED <<folders, used, filed>>
  PROVE  Local'
<1>0. PICK k, K : /\ k = FiledRow(s)
                  /\ K = RowsOf(filing[s].user, {Head(filing[s].mails)}) \ flag["spam"]
  OBVIOUS
<1>1. /\ filing[s].step = "filed"
      /\ flag' = [flag EXCEPT !["inbox"] = (@ \ K) \cup (K \ @)]
      /\ UNCHANGED <<rows, delivery>>
      /\ astray' = astray \cup {j \in {k} : j \in flag["spam"]}
  BY <1>0 DEF SwitchFiled, At, SwitchIsInbox, Writes
<1>2. flag'["inbox"] = (flag["inbox"] \ K) \cup (K \ flag["inbox"])
  BY <1>1 DEF FilingInv, MailInv, TypeInv, TypeOK, Column
<1>3. Working
  BY DEF FilingInv
<1>4. k \in Key /\ k = RowOf(filing[s])
  BY <1>0, <1>1, <1>3, RowOfKnown
<1>5. Working'
  BY <1>1, <1>3, WorkingStep
<1>6. \A j : FolderOf(j)' = FolderOf(j)
  BY DEF FolderOf
<1>7. Filed'
  <2>1. filed' \subseteq Folders \X Key /\ astray' \subseteq Key
    BY <1>1, <1>4 DEF FilingInv, Filed
  <2>2. FiledIsReceived' /\ OneFolder'
    BY <1>1, <1>6 DEF FilingInv, Filed, FiledIsReceived, OneFolder
  <2> QED BY <2>1, <2>2 DEF Filed
<1>8. /\ \A j : Pend(j)' = IF j = k THEN Pend(k) \ {s} ELSE Pend(j)
      /\ s \in Pend(k)
  <2>1. \A j : s \in Pend(j) <=> j = k
    BY <1>1, <1>4 DEF Pend
  <2>2. \A j : Pend(j)' = IF r.step = "filed" /\ RowOf(r) = j
                         THEN Pend(j) \cup {s} ELSE Pend(j) \ {s}
    BY <1>3, PendStep
  <2> QED BY <2>1, <2>2
<1>9. \A j \in Key : IsFiniteSet(Pend(j)')
  BY <1>4, <1>8, Parity DEF FilingInv, Switching
<1>10. Balanced'
  <2> SUFFICES ASSUME NEW j \in rows \ astray', j[3] = "received"
               PROVE  j \in flag'["inbox"] <=> (FolderOf(j) = {} <=> Even(Pend(j)'))
    BY <1>1, <1>6 DEF Balanced, Even
  <2>0. j \in Key /\ j \notin astray /\ (j = k => j \notin flag["spam"])
    BY <1>1 DEF FilingInv, MailInv, TypeInv, TypeOK
  <2>1. j \in flag["inbox"] <=> (FolderOf(j) = {} <=> Even(Pend(j)))
    BY <2>0 DEF FilingInv, Switching, Balanced
  <2>2. CASE j # k
    <3>1. j \notin K
      BY <1>0, <2>0, <2>2 DEF RowsOf, FiledRow, Key
    <3> QED BY <1>2, <1>8, <2>1, <2>2, <3>1
  <2>3. CASE j = k
    <3>0. IsFiniteSet(Pend(k))
      BY <1>4 DEF FilingInv, Switching
    <3>1. Even(Pend(k)') <=> ~ Even(Pend(k))
      BY <1>8, <3>0, Parity
    <3>2. k \in K
      BY <1>0, <2>0, <2>3 DEF RowsOf, FiledRow
    <3> QED BY <1>2, <2>1, <2>3, <3>1, <3>2
  <2> QED BY <2>2, <2>3
<1> QED
  BY <1>5, <1>7, <1>9, <1>10 DEF Local, Switching

(* A request that ends between its two writes leaves its row astray.        *)
LEMMA BreaksOff ==
  ASSUME FilingInv, NEW s \in Filers, FilingFails(s), filing[s].step = "filed"
  PROVE  Local'
<1>0. PICK k : k = FiledRow(s)
  OBVIOUS
<1>1. /\ filing' = [filing EXCEPT ![s] = IdleFiling]
      /\ astray' = astray \cup {k}
      /\ UNCHANGED <<rows, flag, delivery, folders, used, filed>>
  BY <1>0 DEF FilingFails, EndFiling, At, mailVars, vars, tableVars
<1>2. IdleFiling \in FilingState /\ Knows(IdleFiling) /\ IdleFiling.step = "idle"
  BY DEF IdleFiling, FilingState, Knows
<1>3. Working /\ k \in Key /\ k = RowOf(filing[s])
  BY <1>0, RowOfKnown DEF FilingInv
<1>4. Working'
  BY <1>1, <1>2, <1>3, WorkingStep
<1>5. \A j : FolderOf(j)' = FolderOf(j)
  BY <1>1 DEF FolderOf
<1>6. Filed'
  <2>1. filed' \subseteq Folders \X Key /\ astray' \subseteq Key
    BY <1>1, <1>3 DEF FilingInv, Filed
  <2>2. FiledIsReceived' /\ OneFolder'
    BY <1>1, <1>5 DEF FilingInv, Filed, FiledIsReceived, OneFolder
  <2> QED BY <2>1, <2>2 DEF Filed
<1>7. \A j : Pend(j)' = Pend(j) \ {s} /\ (j # k => Pend(j)' = Pend(j))
  <2>1. \A j : s \in Pend(j) => j = k
    BY <1>3 DEF Pend
  <2>2. \A j : Pend(j)' = IF IdleFiling.step = "filed" /\ RowOf(IdleFiling) = j
                         THEN Pend(j) \cup {s} ELSE Pend(j) \ {s}
    BY <1>1, <1>3, PendStep
  <2> QED BY <1>2, <2>1, <2>2
<1>8. Switching'
  <2>1. \A j \in Key : IsFiniteSet(Pend(j)')
    BY <1>7, Parity DEF FilingInv, Switching
  <2>2. Balanced'
    <3> SUFFICES ASSUME NEW j \in rows \ astray', j[3] = "received"
                 PROVE  j \in flag["inbox"] <=> (FolderOf(j) = {} <=> Even(Pend(j)'))
      BY <1>1, <1>5 DEF Balanced, Even
    <3>1. j # k /\ j \notin astray
      BY <1>1
    <3> QED BY <1>7, <3>1 DEF FilingInv, Switching, Balanced
  <2> QED BY <2>1, <2>2 DEF Switching
<1> QED
  BY <1>4, <1>6, <1>8 DEF Local

(* What the mailbox does meanwhile: a new row is in the inbox, and no       *)
(* request has heard of it yet.                                             *)
LEMMA MailFacts ==
  ASSUME MailInv, MailStep, Record
  PROVE  /\ \A k \in rows' : k \in rows => (k \in flag'["inbox"] <=> k \in flag["inbox"])
         /\ \A k \in rows' \ rows :
              k \in flag'["inbox"] /\ delivery[k[2]].status # "sent"
         /\ \A e \in Emails : delivery[e].status = "sent" => delivery'[e].status = "sent"
<1>0. TypeOK /\ flag \in [Column -> SUBSET rows] /\ Next
  BY DEF MailInv, TypeInv, TypeOK, MailStep, Next, Step, Sort
<1>1. \A e \in Emails : delivery[e].status = "sent" => delivery'[e].status = "sent"
  BY <1>0, SentStays DEF MailInv
<1>2. ASSUME NEW e \in Emails, CommitDelivery(e)
      PROVE  /\ \A k \in rows' : k \in rows => (k \in flag'["inbox"] <=> k \in flag["inbox"])
             /\ \A k \in rows' \ rows :
                  k \in flag'["inbox"] /\ delivery[k[2]].status # "sent"
  <2>1. PICK new : new = NewRows(e, delivery[e].to)
    OBVIOUS
  <2>2. /\ rows' = rows \cup new /\ delivery[e].status = "open"
        /\ flag'["inbox"] = flag["inbox"] \cup new
    BY <1>0, <1>2, <2>1 DEF CommitDelivery, Column
  <2>3. \A k \in new : k[2] = e
    BY <2>1, NewRowsOfMail
  <2>4. \A k \in rows : k \notin new
    BY <2>2, <2>3 DEF MailInv, Arrived
  <2> QED BY <2>2, <2>3, <2>4
<1>3. ASSUME NEW u \in Users, NEW E \in Batches, Spam(u, E) \/ Unspam(u, E)
      PROVE  rows' = rows /\ flag'["inbox"] = flag["inbox"]
  BY <1>0, <1>3 DEF Spam, MarkedSpam, Unspam, setUserEmailFlagsBatch, Writes, Column
<1>4. ASSUME NEW t \in Trashers, TrashEmails(t)
      PROVE  rows' = rows /\ flag'["inbox"] = flag["inbox"]
  BY <1>0, <1>4 DEF TrashEmails, Column
<1>5. ASSUME NEW t \in Trashers, DeleteUserEmailsBatch(t)
      PROVE  /\ rows' \subseteq rows
             /\ \A k \in rows' : k \in flag'["inbox"] <=> k \in flag["inbox"]
  BY <1>0, <1>5 DEF DeleteUserEmailsBatch, Column
<1>6. ASSUME rows' = rows, flag' = flag
      PROVE  /\ \A k \in rows' : k \in rows => (k \in flag'["inbox"] <=> k \in flag["inbox"])
             /\ \A k \in rows' \ rows :
                  k \in flag'["inbox"] /\ delivery[k[2]].status # "sent"
  BY <1>6
<1>7. ASSUME Discard
      PROVE  /\ \A k \in rows' : k \in rows => (k \in flag'["inbox"] <=> k \in flag["inbox"])
             /\ \A k \in rows' \ rows :
                  k \in flag'["inbox"] /\ delivery[k[2]].status # "sent"
  BY <1>4, <1>5, <1>6, <1>7 DEF Discard, Trash, Delete, TrashStep, ReadDeleted, TrashFails
<1>8. ASSUME Deliver
      PROVE  /\ \A k \in rows' : k \in rows => (k \in flag'["inbox"] <=> k \in flag["inbox"])
             /\ \A k \in rows' \ rows :
                  k \in flag'["inbox"] /\ delivery[k[2]].status # "sent"
  BY <1>2, <1>6, <1>8 DEF Deliver, BeginDelivery, InsertUserEmail, RollbackDelivery
<1> QED
  BY <1>1, <1>3, <1>7, <1>8 DEF MailStep

LEMMA Beside ==
  ASSUME FilingInv, MailStep, Record, Cascade, TypeInv',
         UNCHANGED <<folders, used, creating, filing, astray>>
  PROVE  Local'
<1>0. MailInv /\ Working /\ rows \subseteq Key /\ rows' \subseteq Key
  BY DEF FilingInv, MailInv, TypeInv, TypeOK
<1>1. Working'
  <2>1. ASSUME NEW s \in Filers
        PROVE  Knows(filing[s])'
    <3>1. Knows(filing[s])
      BY <1>0 DEF Working
    <3>2. filing[s].step # "idle" =>
            (delivery[Head(filing[s].mails)].status = "sent" =>
               delivery'[Head(filing[s].mails)].status = "sent")
      BY <1>0, MailFacts, RowOfKnown
    <3> QED BY <3>1, <3>2 DEF Knows
  <2> QED BY <1>0, <2>1 DEF Working
<1>2. filed' = {p \in filed : p[2] \in rows'}
  BY DEF Cascade
<1>3. \A k : FolderOf(k)' \subseteq FolderOf(k)
  BY <1>2 DEF FolderOf
<1>4. Filed'
  BY <1>2, <1>3 DEF FilingInv, Filed, FiledIsReceived, OneFolder
<1>5. \A k : Pend(k)' = Pend(k)
  BY DEF Pend, RowOf
<1>6. Balanced'
  <2> SUFFICES ASSUME NEW k \in rows' \ astray, k[3] = "received"
               PROVE  k \in flag'["inbox"] <=> (FolderOf(k)' = {} <=> Even(Pend(k)))
    BY <1>5 DEF Balanced
  <2>1. CASE k \in rows
    <3>1. FolderOf(k)' = FolderOf(k)
      BY <1>2 DEF FolderOf
    <3>2. k \in flag'["inbox"] <=> k \in flag["inbox"]
      BY <1>0, <2>1, MailFacts
    <3> QED BY <2>1, <3>1, <3>2 DEF FilingInv, Switching, Balanced
  <2>2. CASE k \notin rows
    <3>1. FolderOf(k)' = {}
      BY <1>3, <2>2 DEF FolderOf, FilingInv, Filed, FiledIsReceived
    <3>2. k \in flag'["inbox"] /\ delivery[k[2]].status # "sent"
      BY <1>0, <2>2, MailFacts
    <3>3. Pend(k) = {}
      <4> SUFFICES ASSUME NEW s \in Filers, filing[s].step = "filed", RowOf(filing[s]) = k
                   PROVE  FALSE
        BY DEF Pend
      <4>1. k[2] = Head(filing[s].mails)
        BY DEF RowOf
      <4> QED BY <1>0, <3>2, <4>1 DEF Working, Knows
    <3>4. Even(Pend(k))
      BY <3>3, FS_EmptySet DEF Even
    <3> QED BY <3>1, <3>2, <3>4
  <2> QED BY <2>1, <2>2
<1> QED
  BY <1>1, <1>4, <1>5, <1>6 DEF Local, Switching, FilingInv

(* Folders are created and renamed beside the requests.                     *)
LEMMA TableBeside ==
  ASSUME FilingInv, Table!Create \/ Table!Rename, UNCHANGED <<mailVars, fileVars>>
  PROVE  Local'
<1>0. /\ UNCHANGED <<rows, flag, delivery, filed, filing, astray>>
      /\ Working /\ Table!TableTypeOK
  BY DEF mailVars, vars, fileVars, FilingInv
<1>1. /\ used \subseteq used' /\ DOMAIN folders \subseteq DOMAIN folders'
      /\ \A f \in DOMAIN folders : folders'[f].owner = folders[f].owner
      /\ \A f \in DOMAIN folders' \ DOMAIN folders : f \notin used
  <2>1. ASSUME NEW c \in Creators, NEW f \in Folders, Table!CreateFolder(c, f)
        PROVE  /\ used' = used \cup {f} /\ f \notin used
               /\ DOMAIN folders' = DOMAIN folders \cup {f}
               /\ \A g \in DOMAIN folders : folders'[g] = folders[g]
    BY <1>0, <2>1 DEF Table!CreateFolder, Table!TableTypeOK
  <2>2. ASSUME NEW u \in Users, NEW f \in Folders, NEW n \in Names, Table!ChangeFolderName(u, f, n)
        PROVE  /\ used' = used /\ DOMAIN folders' = DOMAIN folders
               /\ \A g \in DOMAIN folders : folders'[g].owner = folders[g].owner
    BY <2>2 DEF Table!ChangeFolderName, Table!FoldersOf
  <2>3. ASSUME NEW c \in Creators,
               Table!CreateFails(c) \/ \E u \in Users, n \in Names : Table!CreateNewFolder(c, u, n)
        PROVE  used' = used /\ folders' = folders
    BY <2>3 DEF Table!CreateFails, Table!CreateNewFolder
  <2>4. CASE Table!Create
    BY <2>1, <2>3, <2>4 DEF Table!Create
  <2>5. CASE Table!Rename
    BY <2>2, <2>5 DEF Table!Rename
  <2> QED BY <2>4, <2>5
<1>2. Working'
  <2>1. ASSUME NEW s \in Filers
        PROVE  Knows(filing[s])'
    BY <1>0, <1>1 DEF Working, Knows
  <2> QED BY <1>0, <2>1 DEF Working
<1>3. \A p \in filed : p[1] \in DOMAIN folders
  BY DEF FilingInv, Filed, FiledIsReceived
<1>4. \A k : FolderOf(k)' = FolderOf(k)
  BY <1>0, <1>1, <1>3 DEF FolderOf
<1>5. Filed'
  BY <1>0, <1>1, <1>4 DEF FilingInv, Filed, FiledIsReceived, OneFolder
<1>6. \A k : Pend(k)' = Pend(k)
  BY <1>0 DEF Pend, RowOf
<1>7. Switching'
  BY <1>0, <1>4, <1>6 DEF FilingInv, Switching, Balanced
<1> QED
  BY <1>2, <1>5, <1>7 DEF Local

(* A folder goes with its memberships, and its rows are astray.             *)
LEMMA FolderGone ==
  ASSUME FilingInv, NEW u \in Users, NEW f \in Folders, DeleteFolder(u, f)
  PROVE  Local'
<1>0. /\ UNCHANGED <<rows, flag, delivery, filing, used>>
      /\ DOMAIN folders' = DOMAIN folders \ {f}
      /\ \A g \in DOMAIN folders' : folders'[g] = folders[g]
      /\ filed' = {p \in filed : p[1] # f}
      /\ astray' = astray \cup {p[2] : p \in {q \in filed : q[1] = f}}
      /\ Working
  BY DEF DeleteFolder, Table!DeleteFolder, mailVars, vars, FilingInv
<1>1. Working'
  <2>1. ASSUME NEW s \in Filers
        PROVE  Knows(filing[s])'
    BY <1>0 DEF Working, Knows
  <2> QED BY <1>0, <2>1 DEF Working
<1>2. \A k : FolderOf(k)' = FolderOf(k) \ {f}
  BY <1>0 DEF FolderOf
<1>3. ASSUME NEW k, k \notin astray'
      PROVE  FolderOf(k)' = FolderOf(k) /\ k \notin astray
  <2>1. <<f, k>> \notin filed
    BY <1>0, <1>3
  <2>2. f \notin FolderOf(k)
    BY <2>1 DEF FolderOf
  <2>3. k \notin astray
    BY <1>0, <1>3
  <2> QED BY <1>2, <2>2, <2>3
<1>4. Filed'
  <2>1. filed' \subseteq Folders \X Key /\ astray' \subseteq Key
    BY <1>0 DEF FilingInv, Filed
  <2>2. FiledIsReceived'
    BY <1>0 DEF FilingInv, Filed, FiledIsReceived
  <2>3. OneFolder'
    BY <1>3 DEF FilingInv, Filed, OneFolder
  <2> QED BY <2>1, <2>2, <2>3 DEF Filed
<1>5. \A k : Pend(k)' = Pend(k)
  BY <1>0 DEF Pend, RowOf
<1>6. Switching'
  <2> SUFFICES ASSUME NEW k \in rows \ astray', k[3] = "received"
               PROVE  k \in flag["inbox"] <=> (FolderOf(k)' = {} <=> Even(Pend(k)))
    BY <1>0, <1>5 DEF FilingInv, Switching, Balanced
  <2> QED BY <1>3 DEF FilingInv, Switching, Balanced
<1> QED
  BY <1>1, <1>4, <1>6 DEF Local

-----------------------------------------------------------------------------
LEMMA FileStep ==
  ASSUME FilingInv, File
  PROVE  Local'
<1>0. Working
  BY DEF FilingInv
<1>1. IdleFiling \in FilingState /\ Knows(IdleFiling) /\ IdleFiling.step = "idle"
  BY DEF IdleFiling, FilingState, Knows
<1>2. ASSUME NEW s \in Filers, NEW u \in Users, NEW f \in Folders, NEW mails \in Lists,
             NEW op \in {"add", "take"}, Begin(s, op, u, f, mails)
      PROVE  Local'
  <2>1. /\ filing[s].step = "idle" /\ f \in DOMAIN folders /\ folders[f].owner = u
        /\ UNCHANGED <<rows, flag, delivery, folders, used, filed, astray>>
    BY <1>2 DEF Begin, At, Table!FoldersOf, mailVars, vars, tableVars
  <2>2. PICK r : /\ r = [op |-> op, step |-> op, user |-> u, folder |-> f, mails |-> mails]
                 /\ filing' = [filing EXCEPT ![s] = r]
    BY <1>2 DEF Begin
  <2>3. r \in FilingState /\ r.step # "filed"
    BY <2>2 DEF FilingState
  <2>4. Knows(r)
    BY <2>1, <2>2 DEF Knows, FilingInv, Table!TableTypeOK
  <2> QED BY <2>1, <2>2, <2>3, <2>4, Proceeds
<1>3. ASSUME NEW s \in Filers, EndFiling(s), filing[s].step # "filed",
             UNCHANGED <<rows, flag, delivery, folders, used, filed, astray>>
      PROVE  Local'
  BY <1>1, <1>3, Proceeds DEF EndFiling
<1>4. ASSUME NEW s \in Filers, NEW x \in {"allowed", "found"}, Go(s, x),
             filing[s].step \notin {"idle", "filed"},
             x = "found" => FiledRow(s) \in rows,
             UNCHANGED <<rows, flag, delivery, folders, used, filed, astray>>
      PROVE  Local'
  <2>1. PICK r \in FilingState :
          /\ filing' = [filing EXCEPT ![s] = r]
          /\ r.step = x /\ r.user = filing[s].user /\ r.folder = filing[s].folder
          /\ r.mails = filing[s].mails
    BY <1>0, <1>4, Goes
  <2>2. x = "found" => delivery[Head(filing[s].mails)].status = "sent"
    BY <1>4 DEF FiledRow, FilingInv, MailInv, Arrived
  <2>3. Knows(r)
    BY <1>0, <1>4, <2>1, <2>2 DEF Working, Knows
  <2> QED BY <1>4, <2>1, <2>3, Proceeds
<1>5. ASSUME NEW s \in Filers, CheckEmailAccess(s)
      PROVE  Local'
  <2>1. /\ filing[s].step = "add" /\ (Go(s, "allowed") \/ EndFiling(s))
        /\ UNCHANGED <<rows, flag, delivery, folders, used, filed, astray>>
    BY <1>5 DEF CheckEmailAccess, At, mailVars, vars, tableVars
  <2> QED BY <1>3, <1>4, <2>1
<1>6. ASSUME NEW s \in Filers, GetUserEmailID(s)
      PROVE  Local'
  <2>1. /\ filing[s].step \in {"allowed", "take"}
        /\ (FiledRow(s) \in rows /\ Go(s, "found")) \/ EndFiling(s)
        /\ UNCHANGED <<rows, flag, delivery, folders, used, filed, astray>>
    BY <1>6 DEF GetUserEmailID, At, mailVars, vars, tableVars
  <2> QED BY <1>3, <1>4, <2>1
<1>7. ASSUME NEW s \in Filers, AddEmailToFolder(s)
      PROVE  Local'
  <2>1. CASE filing[s].folder \in DOMAIN folders /\ FiledRow(s) \in rows
    BY <1>7, <2>1, Adds
  <2>2. CASE ~ (filing[s].folder \in DOMAIN folders /\ FiledRow(s) \in rows)
    <3>1. /\ filing[s].step = "found" /\ EndFiling(s)
          /\ UNCHANGED <<rows, flag, delivery, folders, used, filed, astray>>
      BY <1>7, <2>2 DEF AddEmailToFolder, At, mailVars, vars, tableVars
    <3> QED BY <1>3, <3>1
  <2> QED BY <2>1, <2>2
<1>8. ASSUME NEW s \in Filers, Switch(s)
      PROVE  Local'
  <2>1. SwitchFiled(s) /\ NextMail(s) /\ filing[s].step = "filed"
        /\ UNCHANGED <<folders, used, filed>>
    BY <1>8 DEF Switch, SwitchFiled, At, tableVars
  <2>2. Knows(filing[s]) /\ filing[s] \in FilingState /\ filing[s].mails \in Lists
    BY <1>0, <2>1 DEF Working, Knows
  <2>3. CASE Len(filing[s].mails) > 1
    <3>1. PICK r : /\ r = [op |-> filing[s].op, step |-> filing[s].op, user |-> filing[s].user,
                           folder |-> filing[s].folder, mails |-> Tail(filing[s].mails)]
                   /\ filing' = [filing EXCEPT ![s] = r]
      BY <2>1, <2>3 DEF NextMail
    <3>2. Tail(filing[s].mails) \in Lists
      BY <2>2, <2>3, ListFacts
    <3>3. r \in FilingState /\ r.step \in {"add", "take"}
      BY <2>2, <3>1, <3>2 DEF FilingState
    <3>4. Knows(r)
      BY <2>1, <2>2, <3>1, <3>2, <3>3 DEF Knows
    <3> QED BY <2>1, <3>1, <3>3, <3>4, Switches
  <2>4. CASE ~ (Len(filing[s].mails) > 1)
    <3>1. filing' = [filing EXCEPT ![s] = IdleFiling]
      BY <2>1, <2>4 DEF NextMail
    <3> QED BY <1>1, <2>1, <3>1, Switches
  <2> QED BY <2>3, <2>4
<1>9. ASSUME NEW s \in Filers, SwitchLost(s)
      PROVE  Local'
  <2>1. SwitchFiled(s) /\ filing' = [filing EXCEPT ![s] = IdleFiling]
        /\ UNCHANGED <<folders, used, filed>>
    BY <1>9 DEF SwitchLost, EndFiling, tableVars
  <2> QED BY <1>1, <2>1, Switches
<1>10. ASSUME NEW s \in Filers, FilingFails(s)
       PROVE  Local'
  <2>1. CASE filing[s].step = "filed"
    BY <1>10, <2>1, BreaksOff
  <2>2. CASE filing[s].step # "filed"
    <3>1. EndFiling(s) /\ UNCHANGED <<rows, flag, delivery, folders, used, filed, astray>>
      BY <1>10, <2>2 DEF FilingFails, At, mailVars, vars, tableVars
    <3> QED BY <1>3, <2>2, <3>1
  <2> QED BY <2>1, <2>2
<1> QED
  BY <1>2, <1>5, <1>6, <1>7, <1>8, <1>9, <1>10, Takes
     DEF File, AddEmailsInFolder, DeleteEmailsFromFolder

LEMMA NextFiling == FilingInv /\ [FilingNext]_filingVars => FilingInv'
<1> SUFFICES ASSUME FilingInv, [FilingNext]_filingVars PROVE FilingInv'
  OBVIOUS
<1>1. MailInv'
  BY MailSteps, NextType, NextArrived, NextMarked DEF FilingInv, MailInv
<1>2. Table!TableTypeOK'
  BY TableSteps, NextTable DEF FilingInv
<1>3. Local'
  <2>1. ASSUME MailStep, Record, Cascade, UNCHANGED <<tableVars, filing, astray>>
        PROVE  Local'
    BY <1>1, <2>1, Beside DEF tableVars, MailInv
  <2>2. ASSUME UNCHANGED filingVars
        PROVE  Local'
    <3>1. UNCHANGED <<rows, flag, delivery, folders, used, filed, filing, astray>>
      BY <2>2 DEF filingVars, mailVars, vars, tableVars, fileVars
    <3>2. \A k : Pend(k)' = Pend(k) /\ FolderOf(k)' = FolderOf(k)
      BY <3>1 DEF Pend, RowOf, FolderOf
    <3>3. Working'
      BY <3>1 DEF FilingInv, Working, Knows
    <3>4. Filed'
      BY <3>1, <3>2 DEF FilingInv, Filed, FiledIsReceived, OneFolder
    <3>5. Switching'
      BY <3>1, <3>2 DEF FilingInv, Switching, Balanced
    <3> QED BY <3>3, <3>4, <3>5 DEF Local
  <2>3. CASE FilingNext
    BY <2>1, <2>3, FileStep, TableBeside, FolderGone DEF FilingNext
  <2> QED BY <2>2, <2>3
<1> QED
  BY <1>1, <1>2, <1>3 DEF FilingInv, Local

LEMMA InitFiling == FilingInit => FilingInv
<1> SUFFICES ASSUME FilingInit PROVE FilingInv
  OBVIOUS
<1>1. MailInv
  BY InitLifeInv DEF FilingInit, MailInv, LifeInv
<1>2. Table!TableTypeOK
  BY InitTable DEF FilingInit
<1>3. Working
  BY DEF FilingInit, Working, Knows, IdleFiling, FilingState
<1>4. Filed
  BY DEF FilingInit, Filed, FiledIsReceived, OneFolder, FolderOf
<1>5. \A k : Pend(k) = {}
  BY DEF FilingInit, Pend, IdleFiling
<1>6. Switching
  BY <1>5, FS_EmptySet DEF FilingInit, Init, Switching, Balanced
<1> QED
  BY <1>1, <1>2, <1>3, <1>4, <1>6 DEF FilingInv

THEOREM FilingInvariant == FilingSpec => []FilingInv
  BY InitFiling, NextFiling, PTL DEF FilingSpec

-----------------------------------------------------------------------------
(* The folder service and the email service, composed, remain what each of  *)
(* them is by itself: what is proved of Mailbox and of the table of folders *)
(* holds here too.                                                          *)
THEOREM FilingImplementsParts == FilingSpec => Spec /\ Table!TableSpec
<1>1. FilingInit => Init /\ Table!TableInit
  BY DEF FilingInit
<1>2. FilingInv /\ [FilingNext]_filingVars => [Next]_vars /\ [Table!TableNext]_tableVars
  BY MailSteps, TableSteps
<1>3. Table!TableSpec <=> Table!TableInit /\ [][Table!TableNext]_tableVars
  BY DEF Table!TableSpec, Table!tableVars, tableVars
<1> QED
  BY <1>1, <1>2, <1>3, FilingInvariant, PTL DEF FilingSpec, Spec

(* The types of the tables of both services and of the requests, for any    *)
(* number of users, mails, folders and requests.                            *)
THEOREM FilingTypes == FilingSpec => []FilingTypeOK
<1>1. FilingInv => FilingTypeOK
  BY DEF FilingInv, MailInv, TypeInv, Working, Filed, FilingTypeOK
<1> QED
  BY <1>1, FilingInvariant, PTL

(* A folder holds only mails that its owner received and still has, though  *)
(* folder and row were looked up several calls before the membership.       *)
THEOREM FiledIsReceivedAlways == FilingSpec => []FiledIsReceived
<1>1. FilingInv => FiledIsReceived
  BY DEF FilingInv, Filed
<1> QED
  BY <1>1, FilingInvariant, PTL

(* A received mail is in the inbox or in a folder, whichever requests       *)
(* interleave on it, unless one of the named accidents befell it.           *)
THEOREM InboxOrFolderAlways == FilingSpec => []InboxOrFolder
<1>1. FilingInv => InboxOrFolder
  <2> SUFFICES ASSUME FilingInv, NEW k \in rows \ astray, k[3] = "received",
                      \A s \in Filers : ~ (At(s, "filed") /\ FiledRow(s) = k)
               PROVE  k \in flag["inbox"] <=> FolderOf(k) = {}
    BY DEF InboxOrFolder
  <2>1. Pend(k) = {}
    BY DEF Pend, At, FiledRow, RowOf
  <2>2. Even(Pend(k))
    BY <2>1, FS_EmptySet DEF Even
  <2> QED BY <2>2 DEF FilingInv, Switching, Balanced
<1> QED
  BY <1>1, FilingInvariant, PTL

(* With n requests at a time a user never has more than n - 1 folders above *)
(* the limit: CreateNewFolder keeps the limit exactly when requests of a    *)
(* user do not overlap, and overlapping requests gain one folder each.      *)
THEOREM OverrunBounded == FilingSpec => []FolderOverrun
<1>1. CountInv => FolderOverrun
  <2> SUFFICES ASSUME CountInv, NEW u \in Users
               PROVE  Cardinality(Table!FoldersOf(u)) + 1
                        <= MaxCustomFolders + Cardinality(Creators)
    BY SameCount DEF FolderOverrun, Table!FolderOverrun
  <2> QED
    BY Counted, LimitAssumption DEF CountInv
<1>2. FilingInit => CountInv
  BY InitCount DEF FilingInit
<1>3. FilingInv /\ CountInv /\ [FilingNext]_filingVars => CountInv'
  BY TableSteps, NextCount DEF FilingInv
<1> QED
  BY <1>1, <1>2, <1>3, FilingInvariant, PTL DEF FilingSpec

=============================================================================
