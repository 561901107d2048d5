---------------------------- MODULE DraftsProofs ----------------------------
(***************************************************************************)
(* Proofs about Drafts, for any ids, users, addresses and request slots:   *)
(* the types and locks, SentAsRead, and that Drafts implement DraftLife.   *)
(***************************************************************************)
EXTENDS Drafts, FiniteSetTheorems, TLAPS

(* A request knows its user and its draft, which was inserted some time;    *)
(* a draft has a text.                                                      *)
Known ==
  /\ \A c \in Creators : creating[c].step = "counted" => creating[c].user \in Users
  /\ \A e \in Editors : editing[e].step = "written" => editing[e].draft \in Ids
  /\ \A s \in Senders : sending[s].step # "idle" =>
       /\ sending[s].user \in Users /\ sending[s].draft \in Ids
       /\ mail[sending[s].draft].state # "absent"
  /\ \A d \in Ids : mail[d].state = "draft" => mail[d].text \in Texts

(* What a SendDraft has read of a draft is what the draft is, until an edit *)
(* makes it stale; and it was complete when it was read.                    *)
Reading ==
  \A s \in Senders :
    LET r == sending[s]
    IN  (r.step # "idle" /\ s \notin stale /\ mail[r.draft].state = "draft")
          => /\ mail[r.draft].text = r.text
             /\ r.step # "row" => mail[r.draft].to = r.to /\ r.text # Partial /\ r.to # {}

DraftInv == TypeOK /\ Known /\ Reading /\ SentAsRead

-----------------------------------------------------------------------------
LEMMA DraftInit == Init => DraftInv
  BY DEF Init, DraftInv, TypeOK, Known, Reading, SentAsRead, NoMail, MailRow,
         IdleCreate, IdleEdit, IdleSend

LEMMA DraftStep == DraftInv /\ [Next]_vars => DraftInv'
<1> SUFFICES ASSUME DraftInv, [Next]_vars PROVE DraftInv'
  OBVIOUS
<1> USE DEF DraftInv, TypeOK, Known, Reading, SentAsRead, MailRow, IsDraft
<1>1. ASSUME NEW c \in Creators, NEW u \in Users, CreateDraft(c, u)
      PROVE  DraftInv'
  BY <1>1 DEF CreateDraft
<1>2. ASSUME NEW c \in Creators, NEW d \in Ids, NEW t \in Texts,
             NEW R \in SUBSET Addresses, InsertDraft(c, d, t, R)
      PROVE  DraftInv'
  <2>1. mail[d].state = "absent"
    BY <1>2 DEF InsertDraft, NoMail
  <2>2. TypeOK'
    BY <1>2, <2>1 DEF InsertDraft, IdleCreate
  <2>3. Known'
    BY <1>2, <2>1 DEF InsertDraft, IdleCreate
  <2>4. Reading' /\ SentAsRead'
    BY <1>2, <2>1 DEF InsertDraft
  <2>5. QED BY <2>2, <2>3, <2>4
<1>3. ASSUME NEW c \in Creators, CreateFails(c)
      PROVE  DraftInv'
  BY <1>3 DEF CreateFails, IdleCreate
<1>4. ASSUME NEW e \in Editors, NEW u \in Users, NEW d \in Ids, UpdateDraft(e, u, d)
      PROVE  DraftInv'
  BY <1>4 DEF UpdateDraft, Locked
<1>5. ASSUME NEW e \in Editors, NEW t \in Texts, NEW R \in SUBSET Addresses,
             CommitUpdate(e, t, R)
      PROVE  DraftInv'
  <2> DEFINE d == editing[e].draft
  <2>1. d \in Ids /\ mail[d].state = "draft"
    BY <1>5 DEF CommitUpdate
  <2>2. /\ editing' = [editing EXCEPT ![e] = IdleEdit]
        /\ mail' = [mail EXCEPT ![d] = [state |-> "draft", owner |-> mail[d].owner,
                                        text |-> t, to |-> R, got |-> {}]]
        /\ stale' = stale \cup {s \in Senders : sending[s].draft = d}
        /\ UNCHANGED <<creating, sending, overtaken>>
    BY <1>5 DEF CommitUpdate
  <2> HIDE DEF d
  <2>3. TypeOK'
    BY <2>1, <2>2 DEF IdleEdit, d
  <2>4. Known'
    BY <2>1, <2>2 DEF IdleEdit
  <2>5. Reading'
    BY <2>1, <2>2
  <2>6. SentAsRead'
    BY <2>1, <2>2
  <2>7. QED BY <2>3, <2>4, <2>5, <2>6
<1>6. ASSUME NEW e \in Editors, RollbackUpdate(e)
      PROVE  DraftInv'
  BY <1>6 DEF RollbackUpdate, IdleEdit
<1>7. ASSUME NEW u \in Users, NEW D \in SUBSET Ids, DeleteDrafts(u, D)
      PROVE  DraftInv'
  <2> DEFINE gone == {d \in D : IsDraft(d, u)}
  <2>1. /\ \A d \in gone : ~ Locked(d)
        /\ mail' = [d \in Ids |-> IF d \in gone THEN Removed(d) ELSE mail[d]]
        /\ UNCHANGED <<creating, editing, sending, stale, overtaken>>
    BY <1>7 DEF DeleteDrafts
  <2>2. \A d \in Ids : Removed(d) \in MailRow /\ Removed(d).state = "removed"
    BY DEF Removed, NoMail
  <2>3. TypeOK'
    BY <2>1, <2>2 DEF Locked
  <2>4. Known' /\ Reading' /\ SentAsRead'
    BY <2>1, <2>2
  <2>5. QED BY <2>3, <2>4
<1>8. ASSUME NEW s \in Senders, NEW u \in Users, NEW d \in Ids, SendDraft(s, u, d)
      PROVE  DraftInv'
  BY <1>8 DEF SendDraft, Goes
<1>9. ASSUME NEW s \in Senders, fillRecipients(s)
      PROVE  DraftInv'
  <2>1. CASE EndSend(s)
    BY <1>9, <2>1 DEF fillRecipients, EndSend, IdleSend
  <2>2. CASE Goes(s, "read", sending[s].user, sending[s].draft, sending[s].text,
                  mail[sending[s].draft].to)
    <3>1. /\ sending[s].user \in Users /\ sending[s].draft \in Ids
          /\ sending[s].text \in Texts \cup {Nobody}
          /\ mail[sending[s].draft].to \in SUBSET Addresses
      BY <1>9 DEF fillRecipients
    <3>2. TypeOK'
      BY <1>9, <2>2, <3>1 DEF fillRecipients, Goes
    <3>3. Known'
      BY <1>9, <2>2, <3>1 DEF fillRecipients, Goes
    <3>4. Reading' /\ SentAsRead'
      <4>1. CASE sending[s].text = Partial \/ mail[sending[s].draft].to = {}
        BY <1>9, <2>2, <4>1 DEF fillRecipients, Goes, EndSend, IdleSend
      <4>2. CASE sending[s].text # Partial /\ mail[sending[s].draft].to # {}
        BY <1>9, <2>2, <4>2 DEF fillRecipients, Goes
      <4>3. QED BY <4>1, <4>2
    <3>5. QED BY <3>2, <3>3, <3>4
  <2>3. QED BY <1>9, <2>1, <2>2 DEF fillRecipients
<1>10. ASSUME NEW s \in Senders, MarkDraftAsSentTx(s)
       PROVE  DraftInv'
  <2>1. CASE EndSend(s)
    BY <1>10, <2>1 DEF MarkDraftAsSentTx, EndSend, IdleSend
  <2>2. CASE /\ IsDraft(sending[s].draft, sending[s].user)
             /\ Goes(s, "marked", sending[s].user, sending[s].draft,
                     sending[s].text, sending[s].to)
    BY <1>10, <2>2 DEF MarkDraftAsSentTx, Goes, Locked
  <2>3. QED BY <1>10, <2>1, <2>2 DEF MarkDraftAsSentTx
<1>11. ASSUME NEW s \in Senders, CommitSend(s)
       PROVE  DraftInv'
  <2> DEFINE d == sending[s].draft
  <2>1. /\ d \in Ids /\ mail[d].state = "draft"
        /\ mail' = [mail EXCEPT ![d] =
             [state |-> "sent", owner |-> mail[d].owner, text |-> mail[d].text,
              to |-> mail[d].to \cup sending[s].to, got |-> sending[s].to \cap Users]]
        /\ sending' = [sending EXCEPT ![s] = IdleSend] /\ stale' = stale \ {s}
        /\ overtaken' \subseteq overtaken \cup {d} /\ overtaken \subseteq overtaken'
        /\ s \in stale => d \in overtaken'
        /\ UNCHANGED <<creating, editing>>
    BY <1>11 DEF CommitSend, EndSend
  <2>2. TypeOK'
    BY <1>11, <2>1 DEF CommitSend, IdleSend
  <2>3. Known'
    BY <1>11, <2>1 DEF IdleSend
  <2>4. Reading'
    BY <1>11, <2>1 DEF IdleSend
  <2>5. SentAsRead'
    BY <1>11, <2>1 DEF CommitSend
  <2>6. QED BY <2>2, <2>3, <2>4, <2>5
<1>12. ASSUME NEW s \in Senders, SendFails(s)
       PROVE  DraftInv'
  BY <1>12 DEF SendFails, EndSend, IdleSend, Goes
<1>13. CASE UNCHANGED vars
  BY <1>13 DEF vars
<1>14. QED
  BY <1>1, <1>2, <1>3, <1>4, <1>5, <1>6, <1>7, <1>8, <1>9, <1>10, <1>11,
     <1>12, <1>13 DEF Next, Create, Edit, Remove, Send

-----------------------------------------------------------------------------
(* Types and row locks in every reachable state.                            *)
THEOREM DraftTypes == Spec => []TypeOK
<1>1. DraftInv => TypeOK
  BY DEF DraftInv
<1>2. QED BY DraftInit, DraftStep, <1>1, PTL DEF Spec

(* A mail sent from a draft was complete and lists exactly the users that   *)
(* received it, whatever requests interleave, unless it was edited between  *)
(* SendDraft's reading and its UPDATE.                                      *)
THEOREM SentAsReadAlways == Spec => []SentAsRead
<1>1. DraftInv => SentAsRead
  BY DEF DraftInv
<1>2. QED BY DraftInit, DraftStep, <1>1, PTL DEF Spec

-----------------------------------------------------------------------------
(* Drafts implement DraftLife.                                              *)
lives == [d \in Ids |-> lifeOf(d)]

LEMMA LifeAt ==
  ASSUME DraftInv, NEW d \in Ids
  PROVE  /\ mail[d].state \in {"absent", "draft", "sent", "removed"}
         /\ mail[d].state = "absent" => lifeOf(d) = Life!Absent
         /\ mail[d].state = "removed" => lifeOf(d) = Life!Removed
         /\ mail[d].state = "draft" =>
              lifeOf(d) = [phase |-> "draft", text |-> mail[d].text]
         /\ mail[d].state = "draft" => lifeOf(d) \in Life!Drafts
         /\ mail[d].state = "sent" =>
              lifeOf(d) = [phase |-> "sent", text |-> mail[d].text, got |-> mail[d].got]
  BY DEF DraftInv, TypeOK, MailRow, Known, lifeOf, Life!Absent, Life!Removed, Life!Drafts

(* The rows of the other mails are the same, and so are their lives.        *)
LEMMA OtherLives ==
  ASSUME NEW d \in Ids, mail'[d] = mail[d]
  PROVE  lifeOf(d)' = lifeOf(d)
  BY DEF lifeOf

LEMMA LifeStep == DraftInv /\ DraftInv' /\ [Next]_vars => [Life!Next]_lives
<1> SUFFICES ASSUME DraftInv, DraftInv', [Next]_vars PROVE [Life!Next]_lives
  OBVIOUS
<1>a. mail \in [Ids -> MailRow] /\ mail' \in [Ids -> MailRow]
  BY DEF DraftInv, TypeOK
<1>0. ASSUME mail' = mail PROVE [Life!Next]_lives
  BY <1>0 DEF lives, lifeOf
<1>1. ASSUME NEW d \in Ids, NEW r \in MailRow, mail' = [mail EXCEPT ![d] = r]
      PROVE  lives' = [lives EXCEPT ![d] = lifeOf(d)'] /\ mail'[d] = r
  <2>1. \A x \in Ids : x # d => lifeOf(x)' = lifeOf(x)
    BY <1>1, <1>a, OtherLives
  <2>2. QED BY <1>1, <1>a, <2>1 DEF lives
<1>2. ASSUME NEW c \in Creators, NEW d \in Ids, NEW t \in Texts,
             NEW R \in SUBSET Addresses, InsertDraft(c, d, t, R)
      PROVE  [Life!Next]_lives
  <2> DEFINE r == [state |-> "draft", owner |-> creating[c].user,
                   text |-> t, to |-> R, got |-> {}]
  <2>1. mail[d].state = "absent" /\ mail' = [mail EXCEPT ![d] = r] /\ r \in MailRow
    BY <1>2 DEF InsertDraft, NoMail, DraftInv, TypeOK, MailRow
  <2>2. lives' = [lives EXCEPT ![d] = lifeOf(d)'] /\ mail'[d] = r
    BY <1>1, <2>1
  <2>3. lifeOf(d)' = [phase |-> "draft", text |-> t]
    BY <2>2 DEF lifeOf
  <2>4. Life!Create(d, t)
    BY <2>1, <2>2, <2>3, LifeAt DEF Life!Create, lives
  <2>5. QED BY <2>4 DEF Life!Next
<1>3. ASSUME NEW e \in Editors, NEW t \in Texts, NEW R \in SUBSET Addresses,
             CommitUpdate(e, t, R)
      PROVE  [Life!Next]_lives
  <2>a. PICK d \in Ids : d = editing[e].draft
    BY <1>3 DEF CommitUpdate, DraftInv, Known
  <2>b. PICK r \in MailRow : r = [state |-> "draft", owner |-> mail[d].owner,
                                 text |-> t, to |-> R, got |-> {}]
    BY <1>a DEF MailRow
  <2>1. mail[d].state = "draft" /\ mail' = [mail EXCEPT ![d] = r]
    BY <1>3, <2>a, <2>b DEF CommitUpdate, DraftInv, TypeOK
  <2>3. lives' = [lives EXCEPT ![d] = lifeOf(d)'] /\ mail'[d] = r
    BY <1>1, <2>1
  <2>4. lifeOf(d)' = [phase |-> "draft", text |-> t]
    BY <2>b, <2>3 DEF lifeOf
  <2>5. Life!Edit(d, t)
    BY <2>1, <2>3, <2>4, LifeAt DEF Life!Edit, lives
  <2>6. QED BY <2>5 DEF Life!Next
<1>4. ASSUME NEW u \in Users, NEW D \in SUBSET Ids, DeleteDrafts(u, D)
      PROVE  [Life!Next]_lives
  <2> DEFINE gone == {d \in D : IsDraft(d, u)}
  <2>1. mail' = [d \in Ids |-> IF d \in gone THEN Removed(d) ELSE mail[d]]
    BY <1>4 DEF DeleteDrafts
  <2>2. \A d \in gone : d \in Ids /\ lifeOf(d) \in Life!Drafts
    BY LifeAt DEF IsDraft
  <2>3. \A d \in gone : lifeOf(d)' = Life!Removed
    BY <2>1 DEF lifeOf, Removed, NoMail, Life!Removed
  <2>4. \A d \in Ids \ gone : lifeOf(d)' = lifeOf(d)
    BY <2>1, OtherLives
  <2> HIDE DEF gone
  <2>5. Life!Remove(gone)
    BY <2>2, <2>3, <2>4 DEF Life!Remove, lives
  <2>6. gone \in SUBSET Ids
    BY <2>2
  <2>7. QED BY <2>5, <2>6 DEF Life!Next
<1>5. ASSUME NEW s \in Senders, CommitSend(s)
      PROVE  [Life!Next]_lives
  <2>1. PICK d \in Ids : d = sending[s].draft
    BY <1>5 DEF CommitSend, DraftInv, Known
  <2>2. PICK R \in SUBSET Users : R = sending[s].to \cap Users
    OBVIOUS
  <2>3. PICK r \in MailRow :
          r = [state |-> "sent", owner |-> mail[d].owner, text |-> mail[d].text,
               to |-> mail[d].to \cup sending[s].to, got |-> R]
    BY <1>a DEF MailRow, DraftInv, TypeOK
  <2>a. mail[d].state = "draft" /\ mail' = [mail EXCEPT ![d] = r]
    BY <1>5, <2>1, <2>2, <2>3 DEF CommitSend, DraftInv, TypeOK, IsDraft
  <2>4. lives' = [lives EXCEPT ![d] = lifeOf(d)'] /\ mail'[d] = r
    BY <1>1, <2>a
  <2>5. lifeOf(d)' = [phase |-> "sent", text |-> mail[d].text, got |-> R]
    BY <2>3, <2>4 DEF lifeOf
  <2>6. lifeOf(d) = [phase |-> "draft", text |-> mail[d].text] /\ lifeOf(d) \in Life!Drafts
    BY <2>a, LifeAt
  <2>7. Life!Send(d, R)
    <3>1. lives[d] = lifeOf(d) /\ lifeOf(d).text = mail[d].text
      BY <2>6 DEF lives
    <3>2. lives' = [lives EXCEPT ![d] =
                     [phase |-> "sent", text |-> lifeOf(d).text, got |-> R]]
      BY <2>4, <2>5, <3>1
    <3>3. QED BY <2>6, <3>1, <3>2 DEF Life!Send, lives
  <2>8. QED BY <2>7 DEF Life!Next
<1>6. QED
  BY <1>0, <1>2, <1>3, <1>4, <1>5
     DEF Next, vars, Create, Edit, Remove, Send, CreateDraft, CreateFails, UpdateDraft,
         RollbackUpdate, SendDraft, fillRecipients, MarkDraftAsSentTx, SendFails

(* Requests that send, edit and remove the same drafts never send one twice *)
(* and never change or remove one that was sent, for any ids, users,        *)
(* addresses, texts and numbers of requests.                                *)
THEOREM DraftsImplementLife == Spec => DraftLifeSpec
<1>1. Init => Life!Init
  BY DEF Init, Life!Init, lifeOf, NoMail, Life!Absent
<1>2. DraftInv /\ DraftInv' /\ [Next]_vars => [Life!Next]_lives
  BY LifeStep
<1>3. [Life!Next]_lives = [Life!Next]_[d \in Ids |-> lifeOf(d)]
  BY DEF lives
<1>4. QED
  BY <1>1, <1>2, <1>3, DraftInit, DraftStep, PTL DEF Spec, DraftLifeSpec, Life!Spec, lives

-----------------------------------------------------------------------------
(* The limit.  A creation that has counted holds the right to one draft.    *)
Pending(u) == {c \in Creators : creating[c].step = "counted" /\ creating[c].user = u}
AllDrafts  == {d \in Ids : mail[d].state = "draft"}

Within(u) ==
  Cardinality(DraftsOf(u)) + Cardinality(Pending(u)) + 1
    <= MaxPerUser + Cardinality(Creators)

CountInv == IsFiniteSet(AllDrafts) /\ \A u \in Users : Within(u)

LEMMA Counted ==
  ASSUME IsFiniteSet(AllDrafts), NEW u
  PROVE  /\ IsFiniteSet(DraftsOf(u)) /\ Cardinality(DraftsOf(u)) \in Nat
         /\ IsFiniteSet(Pending(u)) /\ Cardinality(Pending(u)) \in Nat
         /\ Cardinality(Pending(u)) <= Cardinality(Creators)
         /\ Cardinality(Creators) \in Nat
<1>1. DraftsOf(u) \in SUBSET AllDrafts /\ Pending(u) \in SUBSET Creators
  BY DEF DraftsOf, IsDraft, AllDrafts, Pending
<1>2. QED
  BY <1>1, SlotsAssumption, FS_Subset, FS_CardinalityType

LEMMA CountInit == Init => CountInv
<1> SUFFICES ASSUME Init PROVE CountInv
  OBVIOUS
<1>1. AllDrafts = {}
  BY DEF Init, AllDrafts, NoMail
<1>2. \A u \in Users : DraftsOf(u) = {} /\ Pending(u) = {}
  BY DEF Init, DraftsOf, IsDraft, NoMail, Pending, IdleCreate
<1>3. IsFiniteSet(AllDrafts) /\ Cardinality({}) = 0
  BY <1>1, FS_EmptySet
<1>4. Cardinality(Creators) \in Nat
  BY SlotsAssumption, FS_CardinalityType
<1>5. QED
  BY <1>2, <1>3, <1>4, MaxAssumption DEF CountInv, Within

(* Fewer drafts and fewer pending creations keep a user within the limit.   *)
LEMMA Shrinks ==
  ASSUME CountInv, NEW u \in Users,
         DraftsOf(u)' \subseteq DraftsOf(u), Pending(u)' \subseteq Pending(u)
  PROVE  Within(u)'
<1>1. DraftsOf(u)' \in SUBSET DraftsOf(u) /\ Pending(u)' \in SUBSET Pending(u)
  OBVIOUS
<1>2. /\ Cardinality(DraftsOf(u)') <= Cardinality(DraftsOf(u))
      /\ Cardinality(DraftsOf(u)') \in Nat
      /\ Cardinality(Pending(u)') <= Cardinality(Pending(u))
      /\ Cardinality(Pending(u)') \in Nat
  BY <1>1, Counted, FS_Subset, FS_CardinalityType DEF CountInv
<1>3. QED
  BY <1>2, Counted, MaxAssumption DEF CountInv, Within

LEMMA CountStep == DraftInv /\ CountInv /\ [Next]_vars => CountInv'
<1> SUFFICES ASSUME DraftInv, CountInv, [Next]_vars PROVE CountInv'
  OBVIOUS
<1> USE MaxAssumption
<1>0. mail \in [Ids -> MailRow] /\ creating \in [Creators -> [step : {"idle", "counted"},
                                              user : Users \cup {Nobody}]]
  BY DEF DraftInv, TypeOK
(* No draft and no pending creation is added. *)
<1>1. ASSUME AllDrafts' \subseteq AllDrafts,
             \A u \in Users : DraftsOf(u)' \subseteq DraftsOf(u)
                            /\ Pending(u)' \subseteq Pending(u)
      PROVE  CountInv'
  <2>1. IsFiniteSet(AllDrafts')
    BY <1>1, FS_Subset DEF CountInv
  <2>2. QED BY <1>1, <2>1, Shrinks DEF CountInv
(* Only a request that counted fewer drafts than the limit gets the right.  *)
<1>2. ASSUME NEW c \in Creators, NEW v \in Users, CreateDraft(c, v)
      PROVE  CountInv'
  <2>1. AllDrafts' = AllDrafts /\ \A u \in Users : DraftsOf(u)' = DraftsOf(u)
    BY <1>2 DEF CreateDraft, AllDrafts, DraftsOf, IsDraft
  <2>2. ASSUME NEW u \in Users, u # v PROVE Within(u)'
    <3>1. Pending(u)' = Pending(u)
      BY <1>0, <1>2, <2>2 DEF CreateDraft, Pending
    <3>2. QED BY <2>1, <3>1, Shrinks
  <2>3. Within(v)'
    <3>1. Pending(v)' \in SUBSET Creators
      BY DEF Pending
    <3>2. Cardinality(Pending(v)') <= Cardinality(Creators)
          /\ Cardinality(Pending(v)') \in Nat
      BY <3>1, SlotsAssumption, FS_Subset, FS_CardinalityType
    <3>3. Cardinality(DraftsOf(v)) < MaxPerUser
      BY <1>2 DEF CreateDraft
    <3>4. QED BY <2>1, <3>2, <3>3, Counted DEF Within, CountInv
  <2>4. QED BY <2>1, <2>2, <2>3 DEF CountInv
(* An insertion turns the right of its request into a draft.                *)
<1>3. ASSUME NEW c \in Creators, NEW d \in Ids, NEW t \in Texts,
             NEW R \in SUBSET Addresses, InsertDraft(c, d, t, R)
      PROVE  CountInv'
  <2>1. /\ creating[c].step = "counted" /\ mail[d].state = "absent"
        /\ \A x \in Ids : x # d => mail'[x] = mail[x]
        /\ mail'[d].state = "draft" /\ mail'[d].owner = creating[c].user
        /\ creating' = [creating EXCEPT ![c] = IdleCreate]
    BY <1>0, <1>3 DEF InsertDraft, NoMail
  <2>2. IsFiniteSet(AllDrafts')
    <3>1. AllDrafts' = AllDrafts \cup {d}
      BY <2>1 DEF AllDrafts
    <3>2. QED BY <3>1, FS_AddElement DEF CountInv
  <2>3. ASSUME NEW u \in Users, u # creating[c].user PROVE Within(u)'
    <3>1. DraftsOf(u)' = DraftsOf(u) /\ Pending(u)' = Pending(u)
      BY <1>0, <2>1, <2>3 DEF DraftsOf, IsDraft, Pending, IdleCreate
    <3>2. QED BY <3>1, Shrinks
  <2>4. ASSUME NEW u \in Users, u = creating[c].user PROVE Within(u)'
    <3>1. DraftsOf(u)' = DraftsOf(u) \cup {d} /\ d \notin DraftsOf(u)
      BY <2>1, <2>4 DEF DraftsOf, IsDraft
    <3>2. Pending(u)' = Pending(u) \ {c} /\ c \in Pending(u)
      BY <1>0, <2>1, <2>4 DEF Pending, IdleCreate
    <3>3. Cardinality(DraftsOf(u)') = Cardinality(DraftsOf(u)) + 1
      BY <3>1, Counted, FS_AddElement DEF CountInv
    <3>4. Cardinality(Pending(u)') = Cardinality(Pending(u)) - 1
      BY <3>2, Counted, FS_RemoveElement DEF CountInv
    <3>5. QED BY <3>3, <3>4, Counted DEF CountInv, Within
  <2>5. QED BY <2>2, <2>3, <2>4 DEF CountInv
<1>4. ASSUME NEW c \in Creators, CreateFails(c)
      PROVE  CountInv'
  <2>1. AllDrafts' = AllDrafts
        /\ \A u \in Users : DraftsOf(u)' = DraftsOf(u) /\ Pending(u)' \subseteq Pending(u)
    BY <1>0, <1>4 DEF CreateFails, AllDrafts, DraftsOf, IsDraft, Pending, IdleCreate
  <2>2. QED BY <1>1, <2>1
<1>5. ASSUME creating' = creating,
             \A d \in Ids : mail'[d].state = "draft" =>
               mail[d].state = "draft" /\ mail'[d].owner = mail[d].owner
      PROVE  CountInv'
  BY <1>1, <1>5 DEF AllDrafts, DraftsOf, IsDraft, Pending
<1>6. ASSUME NEW e \in Editors, NEW t \in Texts, NEW R \in SUBSET Addresses,
             CommitUpdate(e, t, R)
      PROVE  CountInv'
  <2>1. mail[editing[e].draft].state = "draft" /\ creating' = creating
    BY <1>6 DEF CommitUpdate, DraftInv, TypeOK
  <2>2. QED BY <1>0, <1>5, <1>6, <2>1 DEF CommitUpdate
<1>7. ASSUME NEW u \in Users, NEW D \in SUBSET Ids, DeleteDrafts(u, D)
      PROVE  CountInv'
  BY <1>0, <1>5, <1>7 DEF DeleteDrafts, Removed, NoMail
<1>8. ASSUME NEW s \in Senders, CommitSend(s)
      PROVE  CountInv'
  BY <1>0, <1>5, <1>8 DEF CommitSend
<1>9. CASE UNCHANGED <<mail, creating>>
  BY <1>5, <1>9
<1>10. QED
  BY <1>2, <1>3, <1>4, <1>6, <1>7, <1>8, <1>9
     DEF Next, vars, Create, Edit, Remove, Send, UpdateDraft, RollbackUpdate,
         SendDraft, fillRecipients, MarkDraftAsSentTx, SendFails

(* With n creations at a time a user never has more than n - 1 drafts above *)
(* the limit, whatever is edited, sent and removed meanwhile.               *)
THEOREM DraftOverrunBounded == Spec => []DraftOverrun
<1>1. CountInv => DraftOverrun
  <2> SUFFICES ASSUME CountInv, NEW u \in Users
               PROVE  Cardinality(DraftsOf(u)) + 1 <= MaxPerUser + Cardinality(Creators)
    BY DEF DraftOverrun
  <2>1. QED BY Counted, MaxAssumption DEF CountInv, Within
<1>2. QED
  BY <1>1, DraftInit, DraftStep, CountInit, CountStep, PTL DEF Spec

=============================================================================
