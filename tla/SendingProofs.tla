--------------------------- MODULE SendingProofs ---------------------------
(***************************************************************************)
(* What holds of Sending for any letters, addresses, files and requests.   *)
(* The inductive invariant says of each request which mail it works on and *)
(* how far it is (Working, OwnMail), which files of its letter are in the  *)
(* storage already (Uploaded), and of each mail why it is there (Settled): *)
(* it was answered, its request goes on, or Postfix refused it.  What is   *)
(* handed to Postfix was committed (HandedOut) and, for any number of      *)
(* files, is read back as it was built (Layout, LetterArrives).            *)
(***************************************************************************)
EXTENDS Sending, FunctionTheorems, FiniteSetTheorems, SequenceTheorems, TLAPS

Request ==
  [step : {"idle", "open", "uploaded", "committed", "done"},
   letter : Letters \cup {Nobody}, id : Ids \cup {Nobody},
   left : SUBSET Files, file : Files \cup {Nobody}]

Typed ==
  /\ mail \in [Ids -> Letters \cup {Nobody}]
  /\ objects \subseteq Ids \X Files
  /\ handed \subseteq used /\ ok \subseteq used /\ unsure \subseteq used
  /\ used \subseteq Ids /\ gone \subseteq Slots
  /\ req \in [Slots -> Request]

Active(s) == req[s].step # "idle"
Waited(s) == Active(s) /\ s \notin gone
Has(i, F, f) == \E g \in F \cap SameKey(f) : <<i, g>> \in objects

(* What a request is at work on, and what it has done so far. *)
WorkingAt(s) ==
  /\ ~ Active(s) => req[s].id = Nobody /\ req[s].letter = Nobody /\ s \notin gone
  /\ Active(s) =>
       /\ req[s].id \in used \ ok /\ req[s].letter \in Letters
       /\ resolveRecipients(ToOf[req[s].letter])
  /\ req[s].step \in {"open", "uploaded"} =>
       mail[req[s].id] = Nobody /\ req[s].id \notin handed
  /\ req[s].step \in {"committed", "done"} => mail[req[s].id] = req[s].letter
  /\ req[s].step = "committed" => External(s) # {} /\ req[s].id \notin handed
  /\ req[s].step = "done" => External(s) = {} \/ req[s].id \in handed
  /\ s \in gone => req[s].id \in unsure

Working == \A s \in Slots : WorkingAt(s)

OwnMail == \A s, t \in Slots : Active(s) /\ req[s].id = req[t].id => s = t

(* A mail that was inserted has an id that is used up, and recipients. *)
Inserted == \A i \in Stored : i \in used /\ resolveRecipients(ToOf[mail[i]])

(* The files of an open mail that are not left are in the storage. *)
UploadedAt(s) ==
  req[s].step \in {"open", "uploaded"} =>
    /\ req[s].left \subseteq FilesOf[req[s].letter]
    /\ \A f \in FilesOf[req[s].letter] \ req[s].left :
         Has(req[s].id, FilesOf[req[s].letter], f)

Uploaded == \A s \in Slots : UploadedAt(s)

(* The user waits for one request for a letter at a time, and for none when *)
(* he has a positive answer.                                                *)
OneWaited ==
  \A s, t \in Slots : Waited(s) /\ Waited(t) /\ req[s].letter = req[t].letter => s = t

NoneAfterOk == \A s \in Slots : Waited(s) => \A i \in ok \ unsure : mail[i] # req[s].letter

OneOk == \A i, j \in ok \ unsure : mail[i] = mail[j] => i = j

Refused(i) == i \notin handed /\ ~ (ToOf[mail[i]] \subseteq Inside)
Settled ==
  \A i \in Stored \ unsure :
    i \in ok \/ (\E s \in Slots : Waited(s) /\ req[s].id = i) \/ Refused(i)

IInv ==
  /\ Typed /\ Working /\ OwnMail /\ Inserted
  /\ Uploaded /\ StoredHasFiles /\ OkIsDone
  /\ OneWaited /\ NoneAfterOk /\ OneOk /\ Settled

-----------------------------------------------------------------------------
(* Steps of a request: what they do to req, said of each slot. *)
LEMMA IdleIs ==
  /\ Idle \in Request
  /\ Idle.step = "idle" /\ Idle.letter = Nobody /\ Idle.id = Nobody
BY DEF Idle, Request

(* A request that ends.                                                     *)
LEMMA EndsIs ==
  ASSUME Typed, NEW s \in Slots, Ends(s)
  PROVE  /\ req' \in [Slots -> Request]
         /\ req'[s].step = "idle" /\ req'[s].letter = Nobody /\ req'[s].id = Nobody
         /\ \A t \in Slots \ {s} : req'[t] = req[t]
         /\ gone' = gone \ {s}
<1>1. req \in [Slots -> Request] /\ req' = [req EXCEPT ![s] = Idle] /\ gone' = gone \ {s}
  BY DEF Typed, Ends
<1>2. req'[s] = Idle
  BY <1>1
<1> QED
  BY <1>1, <1>2, IdleIs

(* A request that goes on to its next step.                                 *)
LEMMA StageIs ==
  ASSUME Typed, NEW s \in Slots, NEW F \in SUBSET Files, NEW f \in Files \cup {Nobody},
         NEW step \in {"open", "uploaded", "committed", "done"}, Stage(s, step, F, f)
  PROVE  /\ req' \in [Slots -> Request]
         /\ req'[s].step = step /\ req'[s].letter = req[s].letter
         /\ req'[s].id = req[s].id /\ req'[s].left = F
         /\ \A t \in Slots \ {s} : req'[t] = req[t]
<1>1. PICK q : q = [step |-> step, letter |-> req[s].letter, id |-> req[s].id,
                    left |-> F, file |-> f]
  OBVIOUS
<1>2. req \in [Slots -> Request] /\ req' = [req EXCEPT ![s] = q]
  BY <1>1 DEF Typed, Stage
<1>3. req[s] \in Request
  BY <1>2
<1>4. q \in Request /\ q.step = step /\ q.letter = req[s].letter
       /\ q.id = req[s].id /\ q.left = F
  BY <1>1, <1>3 DEF Request
<1>5. req'[s] = q
  BY <1>2
<1> QED
  BY <1>2, <1>4, <1>5

(* A request that begins.                                                   *)
LEMMA BeginsIs ==
  ASSUME Typed, NEW s \in Slots, NEW l \in Letters, NEW i \in Ids, SendEmail(s, l, i)
  PROVE  /\ req' \in [Slots -> Request]
         /\ req'[s].step = "open" /\ req'[s].letter = l /\ req'[s].id = i
         /\ req'[s].left = FilesOf[l]
         /\ \A t \in Slots \ {s} : req'[t] = req[t]
<1>1. PICK r : r = [step |-> "open", letter |-> l, id |-> i, left |-> FilesOf[l],
                    file |-> Nobody]
  OBVIOUS
<1>2. req \in [Slots -> Request] /\ req' = [req EXCEPT ![s] = r]
  BY <1>1 DEF Typed, SendEmail, sendEmailTx
<1>3. r \in Request /\ r.step = "open" /\ r.letter = l /\ r.id = i /\ r.left = FilesOf[l]
  BY <1>1, LettersAssumption DEF Request
<1>4. req'[s] = r
  BY <1>2
<1> QED
  BY <1>2, <1>3, <1>4

(* A request ends without a positive answer: its mail was not committed, is in  *)
(* doubt, or was refused by Postfix.                                        *)
LEMMA Quits ==
  ASSUME IInv, NEW s \in Slots,
         Active(s), Ends(s), objects' \subseteq Ids \X Files,
         \A i \in Ids \ {req[s].id}, f \in Files :
           <<i, f>> \in objects' <=> <<i, f>> \in objects,
         req[s].id \in Stored => req[s].id \in unsure' \/ req[s].step = "committed",
         req[s].id \in Stored => objects' = objects,
         unsure \subseteq unsure', unsure' \subseteq unsure \cup {req[s].id},
         UNCHANGED <<mail, handed, used, ok>>
  PROVE  IInv'
<1> USE NobodyAssumption
<1>0. Typed /\ Working /\ OwnMail /\ Inserted
       /\ Uploaded /\ StoredHasFiles /\ OkIsDone
       /\ OneWaited /\ NoneAfterOk /\ OneOk /\ Settled
  BY DEF IInv
<1>a. /\ WorkingAt(s)
      /\ \A t \in Slots : Active(t) =>
           /\ req[t].id \in Ids /\ req[t].id \in used \ ok /\ req[t].letter \in Letters
           /\ t \in gone => req[t].id \in unsure
      /\ \A t \in Slots \ {s} : Active(t) => req[t].id # req[s].id
  BY <1>0 DEF Typed, Working, WorkingAt, OwnMail
<1>b. req' \in [Slots -> Request]
  BY <1>0, EndsIs
<1>c. req'[s].step = "idle" /\ req'[s].letter = Nobody /\ req'[s].id = Nobody
  BY <1>0, EndsIs
<1>d. \A t \in Slots \ {s} : req'[t] = req[t]
  BY <1>0, EndsIs
<1>e. gone' = gone \ {s}
  BY <1>0, EndsIs
<1>1. Typed'
  <2>1. req[s].id \in used /\ unsure' \subseteq used
    BY <1>0, <1>a DEF Typed
  <2> QED
    BY <1>0, <1>b, <1>e, <2>1 DEF Typed
<1>2. Working'
  <2> SUFFICES ASSUME NEW t \in Slots PROVE WorkingAt(t)'
    BY DEF Working
  <2>1. WorkingAt(t)
    BY <1>0 DEF Working
  <2>2. CASE t = s
    BY <1>c, <1>e, <2>2 DEF WorkingAt, Active
  <2>3. CASE t # s
    BY <1>d, <1>e, <2>1, <2>3 DEF WorkingAt, Active, External
  <2> QED
    BY <2>2, <2>3
<1>3. OwnMail'
  BY <1>0, <1>a, <1>c, <1>d DEF OwnMail, Active
<1>4. Inserted'
  BY <1>0 DEF Inserted, Stored
<1>5. Uploaded'
  <2> SUFFICES ASSUME NEW t \in Slots PROVE UploadedAt(t)'
    BY DEF Uploaded
  <2>1. UploadedAt(t) /\ WorkingAt(t)
    BY <1>0 DEF Uploaded, Working
  <2>2. CASE t = s
    BY <1>c, <2>2 DEF UploadedAt
  <2>3. CASE t # s
    <3>1. req'[t] = req[t]
      BY <1>d, <2>3
    <3>2. CASE req[t].step \in {"open", "uploaded"}
      <4>1. req[t].id \in Ids \ {req[s].id} /\ FilesOf[req[t].letter] \subseteq Files
        BY <1>a, <2>3, <3>2, LettersAssumption DEF Active
      <4> QED
        BY <2>1, <3>1, <3>2, <4>1 DEF UploadedAt, Has
    <3>3. CASE req[t].step \notin {"open", "uploaded"}
      BY <3>1, <3>3 DEF UploadedAt
    <3> QED
      BY <3>2, <3>3
  <2> QED
    BY <2>2, <2>3
<1>6. StoredHasFiles'
  BY <1>0, LettersAssumption DEF Typed, StoredHasFiles, Stored, Downloads
<1>7. OkIsDone'
  BY <1>0 DEF OkIsDone, Stored
<1>8. OneWaited'
  BY <1>0, <1>c, <1>d, <1>e DEF OneWaited, Waited, Active
<1>9. NoneAfterOk'
  BY <1>0, <1>c, <1>d, <1>e DEF NoneAfterOk, Waited, Active
<1>10. OneOk'
  BY <1>0 DEF OneOk
<1>11. Settled'
  <2> SUFFICES ASSUME NEW i \in Stored, i \notin unsure', i \notin ok,
                      ~ \E t \in Slots : Waited(t)' /\ req'[t].id = i
               PROVE  Refused(i)
    BY DEF Settled, Stored, Refused
  <2>1. CASE \E t \in Slots : Waited(t) /\ req[t].id = i
    <3>1. i = req[s].id
      BY <1>d, <1>e, <2>1 DEF Waited, Active
    <3>2. req[s].step = "committed"
      BY <3>1
    <3> QED
      BY <1>a, <3>1, <3>2 DEF WorkingAt, External, collectExternal, GetUsersByEmails, Refused
  <2>2. CASE ~ \E t \in Slots : Waited(t) /\ req[t].id = i
    BY <1>0, <2>2 DEF Settled
  <2> QED
    BY <2>1, <2>2
<1> QED
  BY <1>1, <1>2, <1>3, <1>4, <1>5, <1>6, <1>7, <1>8, <1>9, <1>10, <1>11 DEF IInv

(* A request for a letter begins, with an id that no mail has had. *)
LEMMA Begins ==
  ASSUME IInv, NEW s \in Slots,
         NEW l \in Letters, NEW i \in Ids, SendEmail(s, l, i)
  PROVE  IInv'
<1> USE NobodyAssumption
<1>0. Typed /\ Working /\ OwnMail /\ Inserted
       /\ Uploaded /\ StoredHasFiles /\ OkIsDone
       /\ OneWaited /\ NoneAfterOk /\ OneOk /\ Settled
  BY DEF IInv
<1>a. /\ WorkingAt(s)
      /\ \A t \in Slots : Active(t) =>
           /\ req[t].id \in Ids /\ req[t].id \in used \ ok /\ req[t].letter \in Letters
           /\ t \in gone => req[t].id \in unsure
      /\ \A t \in Slots \ {s} : Active(t) => req[t].id # req[s].id
  BY <1>0 DEF Typed, Working, WorkingAt, OwnMail
<1>b. /\ req[s].step = "idle" /\ i \notin used /\ resolveRecipients(ToOf[l])
      /\ used' = used \cup {i} /\ gone' = gone \ {s}
      /\ UNCHANGED <<mail, objects, handed, ok, unsure>>
  BY DEF SendEmail, sendEmailTx
<1>c. /\ \A t \in Slots : req[t].letter = l => t \in gone
      /\ \A j \in ok \cap Stored : mail[j] = l => j \in unsure
  BY DEF SendEmail, Wants
<1>d. /\ req'[s].step = "open" /\ req'[s].letter = l /\ req'[s].id = i
      /\ req'[s].left = FilesOf[l]
  BY <1>0, BeginsIs
<1>e. \A t \in Slots \ {s} : req'[t] = req[t]
  BY <1>0, BeginsIs
<1>f. mail[i] = Nobody /\ i \notin handed /\ i \notin ok
  BY <1>0, <1>b DEF Typed, Inserted, Stored
<1>1. Typed'
  <2>1. req' \in [Slots -> Request]
    BY <1>0, BeginsIs
  <2> QED
    BY <1>0, <1>b, <2>1 DEF Typed
<1>2. Working'
  <2> SUFFICES ASSUME NEW t \in Slots PROVE WorkingAt(t)'
    BY DEF Working
  <2>1. WorkingAt(t)
    BY <1>0 DEF Working
  <2>2. CASE t = s
    BY <1>b, <1>d, <1>f, <2>2 DEF WorkingAt, Active
  <2>3. CASE t # s
    <3>1. /\ req'[t] = req[t] /\ used \subseteq used'
          /\ t \in gone' <=> t \in gone
          /\ UNCHANGED <<mail, handed, ok, unsure>>
      BY <1>b, <1>e, <2>3
    <3> QED
      BY <2>1, <3>1 DEF WorkingAt, Active, External
  <2> QED
    BY <2>2, <2>3
<1>3. OwnMail'
  <2> SUFFICES ASSUME NEW t \in Slots, NEW u \in Slots, Active(t)', t # u
               PROVE  req'[t].id # req'[u].id
    BY DEF OwnMail
  <2>1. \A v \in Slots \ {s} : req[v].id # i
    BY <1>0, <1>b DEF Working, WorkingAt, Active
  <2> QED
    BY <1>0, <1>d, <1>e, <2>1 DEF OwnMail, Active
<1>4. Inserted'
  BY <1>0, <1>b DEF Inserted, Stored
<1>5. Uploaded'
  <2> SUFFICES ASSUME NEW t \in Slots PROVE UploadedAt(t)'
    BY DEF Uploaded
  <2>1. UploadedAt(t) /\ WorkingAt(t)
    BY <1>0 DEF Uploaded, Working
  <2>2. CASE t = s
    BY <1>d, <2>2 DEF UploadedAt
  <2>3. CASE t # s
    BY <1>b, <1>e, <2>1, <2>3 DEF UploadedAt, Has
  <2> QED
    BY <2>2, <2>3
<1>6. StoredHasFiles'
  BY <1>0, <1>b DEF StoredHasFiles, Stored
<1>7. OkIsDone'
  BY <1>0, <1>b DEF OkIsDone, Stored
<1>8. OneWaited'
  BY <1>0, <1>b, <1>c, <1>d, <1>e DEF OneWaited, Waited, Active
<1>9. NoneAfterOk'
  BY <1>0, <1>b, <1>c, <1>d, <1>e DEF NoneAfterOk, Waited, Active, OkIsDone
<1>10. OneOk'
  BY <1>0, <1>b DEF OneOk
<1>11. Settled'
  BY <1>0, <1>b, <1>d, <1>e DEF Settled, Waited, Active, Refused, Stored
<1> QED
  BY <1>1, <1>2, <1>3, <1>4, <1>5, <1>6, <1>7, <1>8, <1>9, <1>10, <1>11 DEF IInv

(* The files of an open mail are uploaded; the mail stays invisible. *)
LEMMA Uploading ==
  ASSUME IInv, NEW s \in Slots,
         req[s].step \in {"open", "uploaded"}, req'[s].step \in {"open", "uploaded"},
         req' \in [Slots -> Request],
         req'[s].letter = req[s].letter, req'[s].id = req[s].id,
         \A t \in Slots \ {s} : req'[t] = req[t],
         objects' \subseteq Ids \X Files,
         \A i \in Ids \ {req[s].id}, f \in Files :
           <<i, f>> \in objects' <=> <<i, f>> \in objects,
         UploadedAt(s)',
         UNCHANGED <<mail, handed, used, gone, ok, unsure>>
  PROVE  IInv'
<1> USE NobodyAssumption
<1>0. Typed /\ Working /\ OwnMail /\ Inserted
       /\ Uploaded /\ StoredHasFiles /\ OkIsDone
       /\ OneWaited /\ NoneAfterOk /\ OneOk /\ Settled
  BY DEF IInv
<1>a. /\ WorkingAt(s)
      /\ \A t \in Slots : Active(t) =>
           /\ req[t].id \in Ids /\ req[t].id \in used \ ok /\ req[t].letter \in Letters
           /\ t \in gone => req[t].id \in unsure
      /\ \A t \in Slots \ {s} : Active(t) => req[t].id # req[s].id
  BY <1>0 DEF Typed, Working, WorkingAt, OwnMail
<1>1. Typed'
  BY <1>0 DEF Typed
<1>2. Working'
  <2> SUFFICES ASSUME NEW t \in Slots PROVE WorkingAt(t)'
    BY DEF Working
  <2>1. WorkingAt(t)
    BY <1>0 DEF Working
  <2>2. CASE t = s
    BY <1>a, <2>2 DEF WorkingAt, Active
  <2>3. CASE t # s
    BY <2>1, <2>3 DEF WorkingAt, Active, External
  <2> QED
    BY <2>2, <2>3
<1>3. OwnMail'
  BY <1>0, <1>a DEF OwnMail, Active
<1>4. Inserted'
  BY <1>0 DEF Inserted, Stored
<1>5. Uploaded'
  <2> SUFFICES ASSUME NEW t \in Slots PROVE UploadedAt(t)'
    BY DEF Uploaded
  <2>1. UploadedAt(t) /\ WorkingAt(t)
    BY <1>0 DEF Uploaded, Working
  <2>2. CASE t = s
    BY <2>2
  <2>3. CASE t # s
    BY <1>0, <1>a, <2>1, <2>3, LettersAssumption DEF UploadedAt, Has, Active
  <2> QED
    BY <2>2, <2>3
<1>6. StoredHasFiles'
  <2>1. req[s].id \notin Stored
    BY <1>a DEF WorkingAt, Stored
  <2> QED
    BY <1>0, <2>1, LettersAssumption DEF Typed, StoredHasFiles, Stored, Downloads
<1>7. OkIsDone'
  BY <1>0 DEF OkIsDone, Stored
<1>8. OneWaited'
  BY <1>0 DEF OneWaited, Waited, Active
<1>9. NoneAfterOk'
  BY <1>0 DEF NoneAfterOk, Waited, Active
<1>10. OneOk'
  BY <1>0 DEF OneOk
<1>11. Settled'
  BY <1>0 DEF Settled, Waited, Active, Refused, Stored
<1> QED
  BY <1>1, <1>2, <1>3, <1>4, <1>5, <1>6, <1>7, <1>8, <1>9, <1>10, <1>11 DEF IInv

(* The commit: the mail, whose files are all uploaded, appears. *)
LEMMA Commits ==
  ASSUME IInv, NEW s \in Slots,
         Commit(s)
  PROVE  IInv'
<1> USE NobodyAssumption
<1>0. Typed /\ Working /\ OwnMail /\ Inserted
       /\ Uploaded /\ StoredHasFiles /\ OkIsDone
       /\ OneWaited /\ NoneAfterOk /\ OneOk /\ Settled
  BY DEF IInv
<1>a. /\ WorkingAt(s)
      /\ \A t \in Slots : Active(t) =>
           /\ req[t].id \in Ids /\ req[t].id \in used \ ok /\ req[t].letter \in Letters
           /\ t \in gone => req[t].id \in unsure
      /\ \A t \in Slots \ {s} : Active(t) => req[t].id # req[s].id
  BY <1>0 DEF Typed, Working, WorkingAt, OwnMail
<1>b. /\ req[s].step = "open" /\ req[s].left = {}
      /\ req[s].id \in Ids /\ req[s].letter \in Letters /\ req[s].letter # Nobody
      /\ req[s].id \notin ok /\ resolveRecipients(ToOf[req[s].letter])
  BY <1>a DEF Commit, AllUploaded, WorkingAt, Active
<1>c. /\ mail' \in [Ids -> Letters \cup {Nobody}] /\ mail'[req[s].id] = req[s].letter
      /\ \A i \in Ids \ {req[s].id} : mail'[i] = mail[i]
  BY <1>0, <1>b DEF Typed, Commit, Committed
<1>d. \A t \in Slots \ {s} : req'[t] = req[t]
  BY <1>0, <1>b, StageIs DEF Commit
<1>e. /\ req'[s].letter = req[s].letter /\ req'[s].id = req[s].id
      /\ req'[s].step \in {"committed", "done"}
      /\ req'[s].step = "committed" <=> External(s) # {}
  BY <1>0, <1>b, StageIs DEF Commit
<1>f. UNCHANGED <<objects, handed, used, gone, ok, unsure>>
  BY DEF Commit
<1>1. Typed'
  <2>1. req' \in [Slots -> Request]
    BY <1>0, <1>b, StageIs DEF Commit
  <2> QED
    BY <1>0, <1>c, <1>f, <2>1 DEF Typed
<1>2. Working'
  <2> SUFFICES ASSUME NEW t \in Slots PROVE WorkingAt(t)'
    BY DEF Working
  <2>1. WorkingAt(t)
    BY <1>0 DEF Working
  <2>2. CASE t = s
    BY <1>a, <1>b, <1>c, <1>e, <1>f, <2>2 DEF WorkingAt, Active, External
  <2>3. CASE t # s
    <3>1. req'[t] = req[t] /\ (Active(t) => mail'[req[t].id] = mail[req[t].id])
      BY <1>a, <1>c, <1>d, <2>3
    <3> QED
      BY <1>f, <2>1, <3>1 DEF WorkingAt, Active, External
  <2> QED
    BY <2>2, <2>3
<1>3. OwnMail'
  BY <1>0, <1>b, <1>d, <1>e DEF OwnMail, Active
<1>4. Inserted'
  BY <1>0, <1>a, <1>b, <1>c, <1>f DEF Inserted, Stored, Active
<1>5. Uploaded'
  <2> SUFFICES ASSUME NEW t \in Slots PROVE UploadedAt(t)'
    BY DEF Uploaded
  <2>1. UploadedAt(t) /\ WorkingAt(t)
    BY <1>0 DEF Uploaded, Working
  <2>2. CASE t = s
    BY <1>e, <2>2 DEF UploadedAt
  <2>3. CASE t # s
    BY <1>d, <1>f, <2>1, <2>3 DEF UploadedAt, Has
  <2> QED
    BY <2>2, <2>3
<1>6. StoredHasFiles'
  <2> SUFFICES ASSUME NEW i \in Ids, mail'[i] # Nobody
               PROVE  Downloads(objects, i, FilesOf[mail'[i]])
    BY <1>f DEF StoredHasFiles, Stored, Downloads
  <2>1. CASE i = req[s].id
    BY <1>0, <1>b, <1>c, <2>1 DEF Uploaded, UploadedAt, Has, Downloads
  <2>2. CASE i # req[s].id
    BY <1>0, <1>c, <2>2 DEF StoredHasFiles, Stored
  <2> QED
    BY <2>1, <2>2
<1>7. OkIsDone'
  BY <1>0, <1>b, <1>c, <1>f DEF OkIsDone, Stored
<1>8. OneWaited'
  BY <1>0, <1>b, <1>d, <1>e, <1>f DEF OneWaited, Waited, Active
<1>9. NoneAfterOk'
  <2>1. \A i \in ok : mail'[i] = mail[i]
    BY <1>0, <1>b, <1>c DEF Typed
  <2> QED
    BY <1>0, <1>b, <1>d, <1>e, <1>f, <2>1 DEF NoneAfterOk, Waited, Active
<1>10. OneOk'
  <2>1. \A i \in ok : mail'[i] = mail[i]
    BY <1>0, <1>b, <1>c DEF Typed
  <2> QED
    BY <1>0, <1>f, <2>1 DEF OneOk
<1>11. Settled'
  <2> SUFFICES ASSUME NEW i \in Ids, mail'[i] # Nobody, i \notin unsure, i \notin ok,
                      ~ \E t \in Slots : Waited(t)' /\ req'[t].id = i
               PROVE  Refused(i)'
    BY <1>f DEF Settled, Stored
  <2>1. i # req[s].id
    BY <1>a, <1>b, <1>e, <1>f DEF WorkingAt, Waited, Active
  <2>2. ~ \E t \in Slots : Waited(t) /\ req[t].id = i
    BY <1>d, <1>f, <2>1 DEF Waited, Active
  <2> QED
    BY <1>0, <1>c, <1>f, <2>1, <2>2 DEF Settled, Stored, Refused
<1> QED
  BY <1>1, <1>2, <1>3, <1>4, <1>5, <1>6, <1>7, <1>8, <1>9, <1>10, <1>11 DEF IInv

(* The commit is done, and its request ends in doubt. *)
LEMMA CommitsLost ==
  ASSUME IInv, NEW s \in Slots,
         CommitLost(s)
  PROVE  IInv'
<1> USE NobodyAssumption
<1>0. Typed /\ Working /\ OwnMail /\ Inserted
       /\ Uploaded /\ StoredHasFiles /\ OkIsDone
       /\ OneWaited /\ NoneAfterOk /\ OneOk /\ Settled
  BY DEF IInv
<1>a. /\ WorkingAt(s)
      /\ \A t \in Slots : Active(t) =>
           /\ req[t].id \in Ids /\ req[t].id \in used \ ok /\ req[t].letter \in Letters
           /\ t \in gone => req[t].id \in unsure
      /\ \A t \in Slots \ {s} : Active(t) => req[t].id # req[s].id
  BY <1>0 DEF Typed, Working, WorkingAt, OwnMail
<1>b. /\ req[s].step = "open" /\ req[s].left = {}
      /\ req[s].id \in Ids /\ req[s].letter \in Letters /\ req[s].letter # Nobody
      /\ req[s].id \notin ok /\ resolveRecipients(ToOf[req[s].letter])
  BY <1>a DEF CommitLost, AllUploaded, WorkingAt, Active
<1>c. /\ mail' \in [Ids -> Letters \cup {Nobody}] /\ mail'[req[s].id] = req[s].letter
      /\ \A i \in Ids \ {req[s].id} : mail'[i] = mail[i]
  BY <1>0, <1>b DEF Typed, CommitLost, Committed
<1>d. \A t \in Slots \ {s} : req'[t] = req[t]
  BY <1>0, EndsIs DEF CommitLost
<1>e. req'[s].step = "idle" /\ req'[s].letter = Nobody /\ req'[s].id = Nobody
  BY <1>0, EndsIs DEF CommitLost
<1>f. /\ unsure' = unsure \cup {req[s].id} /\ gone' = gone \ {s}
      /\ UNCHANGED <<objects, handed, used, ok>>
  BY DEF CommitLost, Ends
<1>1. Typed'
  <2>1. req' \in [Slots -> Request]
    BY <1>0, EndsIs DEF CommitLost
  <2>2. req[s].id \in used
    BY <1>a, <1>b DEF Active
  <2> QED
    BY <1>0, <1>c, <1>f, <2>1, <2>2 DEF Typed
<1>2. Working'
  <2> SUFFICES ASSUME NEW t \in Slots PROVE WorkingAt(t)'
    BY DEF Working
  <2>1. WorkingAt(t)
    BY <1>0 DEF Working
  <2>2. CASE t = s
    BY <1>e, <1>f, <2>2 DEF WorkingAt, Active
  <2>3. CASE t # s
    <3>1. req'[t] = req[t] /\ (Active(t) => mail'[req[t].id] = mail[req[t].id])
      BY <1>a, <1>c, <1>d, <2>3
    <3>2. t \in gone' <=> t \in gone
      BY <1>f, <2>3
    <3> QED
      BY <1>f, <2>1, <3>1, <3>2 DEF WorkingAt, Active, External
  <2> QED
    BY <2>2, <2>3
<1>3. OwnMail'
  BY <1>0, <1>a, <1>d, <1>e DEF OwnMail, Active
<1>4. Inserted'
  BY <1>0, <1>a, <1>b, <1>c, <1>f DEF Inserted, Stored, Active
<1>5. Uploaded'
  <2> SUFFICES ASSUME NEW t \in Slots PROVE UploadedAt(t)'
    BY DEF Uploaded
  <2>1. UploadedAt(t) /\ WorkingAt(t)
    BY <1>0 DEF Uploaded, Working
  <2>2. CASE t = s
    BY <1>e, <2>2 DEF UploadedAt
  <2>3. CASE t # s
    BY <1>d, <1>f, <2>1, <2>3 DEF UploadedAt, Has
  <2> QED
    BY <2>2, <2>3
<1>6. StoredHasFiles'
  <2> SUFFICES ASSUME NEW i \in Ids, mail'[i] # Nobody
               PROVE  Downloads(objects, i, FilesOf[mail'[i]])
    BY <1>f DEF StoredHasFiles, Stored, Downloads
  <2>1. CASE i = req[s].id
    BY <1>0, <1>b, <1>c, <2>1 DEF Uploaded, UploadedAt, Has, Downloads
  <2>2. CASE i # req[s].id
    BY <1>0, <1>c, <2>2 DEF StoredHasFiles, Stored
  <2> QED
    BY <2>1, <2>2
<1>7. OkIsDone'
  BY <1>0, <1>b, <1>c, <1>f DEF OkIsDone, Stored
<1>8. OneWaited'
  BY <1>0, <1>d, <1>e, <1>f DEF OneWaited, Waited, Active
<1>9. NoneAfterOk'
  <2>1. \A i \in ok : mail'[i] = mail[i]
    BY <1>0, <1>b, <1>c DEF Typed
  <2> QED
    BY <1>0, <1>d, <1>e, <1>f, <2>1 DEF NoneAfterOk, Waited, Active
<1>10. OneOk'
  <2>1. \A i \in ok : mail'[i] = mail[i]
    BY <1>0, <1>b, <1>c DEF Typed
  <2> QED
    BY <1>0, <1>f, <2>1 DEF OneOk
<1>11. Settled'
  <2> SUFFICES ASSUME NEW i \in Ids, mail'[i] # Nobody, i \notin unsure', i \notin ok,
                      ~ \E t \in Slots : Waited(t)' /\ req'[t].id = i
               PROVE  Refused(i)'
    BY <1>f DEF Settled, Stored
  <2>1. i # req[s].id
    BY <1>f
  <2>2. ~ \E t \in Slots : Waited(t) /\ req[t].id = i
    BY <1>d, <1>f, <2>1 DEF Waited, Active
  <2> QED
    BY <1>0, <1>c, <1>f, <2>1, <2>2 DEF Settled, Stored, Refused
<1> QED
  BY <1>1, <1>2, <1>3, <1>4, <1>5, <1>6, <1>7, <1>8, <1>9, <1>10, <1>11 DEF IInv

(* Postfix takes the mail, and says so. *)
LEMMA HandsOver ==
  ASSUME IInv, NEW s \in Slots,
         HandOver(s)
  PROVE  IInv'
<1> USE NobodyAssumption
<1>0. Typed /\ Working /\ OwnMail /\ Inserted
       /\ Uploaded /\ StoredHasFiles /\ OkIsDone
       /\ OneWaited /\ NoneAfterOk /\ OneOk /\ Settled
  BY DEF IInv
<1>a. /\ WorkingAt(s)
      /\ \A t \in Slots : Active(t) =>
           /\ req[t].id \in Ids /\ req[t].id \in used \ ok /\ req[t].letter \in Letters
           /\ t \in gone => req[t].id \in unsure
      /\ \A t \in Slots \ {s} : Active(t) => req[t].id # req[s].id
  BY <1>0 DEF Typed, Working, WorkingAt, OwnMail
<1>b. /\ req[s].step = "committed" /\ handed' = handed \cup {req[s].id}
      /\ UNCHANGED <<mail, objects, used, gone, ok, unsure>>
  BY DEF HandOver
<1>c. \A t \in Slots \ {s} : req'[t] = req[t]
  BY <1>0, StageIs DEF HandOver
<1>d. req'[s].letter = req[s].letter /\ req'[s].id = req[s].id /\ req'[s].step = "done"
  BY <1>0, StageIs DEF HandOver
<1>1. Typed'
  <2>1. req' \in [Slots -> Request]
    BY <1>0, StageIs DEF HandOver
  <2>2. req[s].id \in used
    BY <1>a, <1>b DEF Active
  <2> QED
    BY <1>0, <1>b, <2>1, <2>2 DEF Typed
<1>2. Working'
  <2> SUFFICES ASSUME NEW t \in Slots PROVE WorkingAt(t)'
    BY DEF Working
  <2>1. WorkingAt(t)
    BY <1>0 DEF Working
  <2>2. CASE t = s
    BY <1>a, <1>b, <1>d, <2>2 DEF WorkingAt, Active
  <2>3. CASE t # s
    <3>1. Active(t) => req[t].id # req[s].id
      BY <1>a, <2>3
    <3> QED
      BY <1>b, <1>c, <2>1, <2>3, <3>1 DEF WorkingAt, Active, External
  <2> QED
    BY <2>2, <2>3
<1>3. OwnMail'
  BY <1>0, <1>b, <1>c, <1>d DEF OwnMail, Active
<1>4. Inserted'
  BY <1>0, <1>b DEF Inserted, Stored
<1>5. Uploaded'
  <2> SUFFICES ASSUME NEW t \in Slots PROVE UploadedAt(t)'
    BY DEF Uploaded
  <2>1. UploadedAt(t) /\ WorkingAt(t)
    BY <1>0 DEF Uploaded, Working
  <2>2. CASE t = s
    BY <1>d, <2>2 DEF UploadedAt
  <2>3. CASE t # s
    BY <1>b, <1>c, <2>1, <2>3 DEF UploadedAt, Has
  <2> QED
    BY <2>2, <2>3
<1>6. StoredHasFiles'
  BY <1>0, <1>b DEF StoredHasFiles, Stored, Downloads
<1>7. OkIsDone'
  BY <1>0, <1>b DEF OkIsDone, Stored
<1>8. OneWaited'
  BY <1>0, <1>b, <1>c, <1>d DEF OneWaited, Waited, Active
<1>9. NoneAfterOk'
  BY <1>0, <1>b, <1>c, <1>d DEF NoneAfterOk, Waited, Active
<1>10. OneOk'
  BY <1>0, <1>b DEF OneOk
<1>11. Settled'
  <2> SUFFICES ASSUME NEW i \in Stored, i \notin unsure, i \notin ok,
                      ~ \E t \in Slots : Waited(t)' /\ req'[t].id = i
               PROVE  Refused(i)'
    BY <1>b DEF Settled, Stored
  <2>1. i # req[s].id
    BY <1>a, <1>b, <1>d DEF WorkingAt, Waited, Active
  <2>2. ~ \E t \in Slots : Waited(t) /\ req[t].id = i
    BY <1>b, <1>c, <2>1 DEF Waited, Active
  <2> QED
    BY <1>0, <1>b, <2>1, <2>2 DEF Settled, Refused
<1> QED
  BY <1>1, <1>2, <1>3, <1>4, <1>5, <1>6, <1>7, <1>8, <1>9, <1>10, <1>11 DEF IInv

(* Postfix takes the mail, and its request ends in doubt. *)
LEMMA HandsOverLost ==
  ASSUME IInv, NEW s \in Slots,
         HandOverLost(s)
  PROVE  IInv'
<1> USE NobodyAssumption
<1>0. Typed /\ Working /\ OwnMail /\ Inserted
       /\ Uploaded /\ StoredHasFiles /\ OkIsDone
       /\ OneWaited /\ NoneAfterOk /\ OneOk /\ Settled
  BY DEF IInv
<1>a. /\ WorkingAt(s)
      /\ \A t \in Slots : Active(t) =>
           /\ req[t].id \in Ids /\ req[t].id \in used \ ok /\ req[t].letter \in Letters
           /\ t \in gone => req[t].id \in unsure
      /\ \A t \in Slots \ {s} : Active(t) => req[t].id # req[s].id
  BY <1>0 DEF Typed, Working, WorkingAt, OwnMail
<1>b. /\ req[s].step = "committed" /\ handed' = handed \cup {req[s].id}
      /\ unsure' = unsure \cup {req[s].id} /\ gone' = gone \ {s}
      /\ UNCHANGED <<mail, objects, used, ok>>
  BY DEF HandOverLost, Ends
<1>c. \A t \in Slots \ {s} : req'[t] = req[t]
  BY <1>0, EndsIs DEF HandOverLost
<1>d. req'[s].step = "idle" /\ req'[s].letter = Nobody /\ req'[s].id = Nobody
  BY <1>0, EndsIs DEF HandOverLost
<1>1. Typed'
  <2>1. req' \in [Slots -> Request]
    BY <1>0, EndsIs DEF HandOverLost
  <2>2. req[s].id \in used
    BY <1>a, <1>b DEF Active
  <2> QED
    BY <1>0, <1>b, <2>1, <2>2 DEF Typed
<1>2. Working'
  <2> SUFFICES ASSUME NEW t \in Slots PROVE WorkingAt(t)'
    BY DEF Working
  <2>1. WorkingAt(t)
    BY <1>0 DEF Working
  <2>2. CASE t = s
    BY <1>b, <1>d, <2>2 DEF WorkingAt, Active
  <2>3. CASE t # s
    <3>1. Active(t) => req[t].id # req[s].id
      BY <1>a, <2>3
    <3> QED
      BY <1>b, <1>c, <2>1, <2>3, <3>1 DEF WorkingAt, Active, External
  <2> QED
    BY <2>2, <2>3
<1>3. OwnMail'
  BY <1>0, <1>a, <1>c, <1>d DEF OwnMail, Active
<1>4. Inserted'
  BY <1>0, <1>b DEF Inserted, Stored
<1>5. Uploaded'
  <2> SUFFICES ASSUME NEW t \in Slots PROVE UploadedAt(t)'
    BY DEF Uploaded
  <2>1. UploadedAt(t) /\ WorkingAt(t)
    BY <1>0 DEF Uploaded, Working
  <2>2. CASE t = s
    BY <1>d, <2>2 DEF UploadedAt
  <2>3. CASE t # s
    BY <1>b, <1>c, <2>1, <2>3 DEF UploadedAt, Has
  <2> QED
    BY <2>2, <2>3
<1>6. StoredHasFiles'
  BY <1>0, <1>b DEF StoredHasFiles, Stored, Downloads
<1>7. OkIsDone'
  BY <1>0, <1>b DEF OkIsDone, Stored
<1>8. OneWaited'
  BY <1>0, <1>b, <1>c, <1>d DEF OneWaited, Waited, Active
<1>9. NoneAfterOk'
  BY <1>0, <1>b, <1>c, <1>d DEF NoneAfterOk, Waited, Active
<1>10. OneOk'
  BY <1>0, <1>b DEF OneOk
<1>11. Settled'
  <2> SUFFICES ASSUME NEW i \in Stored, i \notin unsure', i \notin ok,
                      ~ \E t \in Slots : Waited(t)' /\ req'[t].id = i
               PROVE  Refused(i)'
    BY <1>b DEF Settled, Stored
  <2>1. i # req[s].id
    BY <1>b
  <2>2. ~ \E t \in Slots : Waited(t) /\ req[t].id = i
    BY <1>b, <1>c, <2>1 DEF Waited, Active
  <2> QED
    BY <1>0, <1>b, <2>1, <2>2 DEF Settled, Refused
<1> QED
  BY <1>1, <1>2, <1>3, <1>4, <1>5, <1>6, <1>7, <1>8, <1>9, <1>10, <1>11 DEF IInv

(* The positive answer. *)
LEMMA Answered ==
  ASSUME IInv, NEW s \in Slots,
         Answers(s)
  PROVE  IInv'
<1> USE NobodyAssumption
<1>0. Typed /\ Working /\ OwnMail /\ Inserted
       /\ Uploaded /\ StoredHasFiles /\ OkIsDone
       /\ OneWaited /\ NoneAfterOk /\ OneOk /\ Settled
  BY DEF IInv
<1>a. /\ WorkingAt(s)
      /\ \A t \in Slots : Active(t) =>
           /\ req[t].id \in Ids /\ req[t].id \in used \ ok /\ req[t].letter \in Letters
           /\ t \in gone => req[t].id \in unsure
      /\ \A t \in Slots \ {s} : Active(t) => req[t].id # req[s].id
  BY <1>0 DEF Typed, Working, WorkingAt, OwnMail
<1>b. /\ req[s].step = "done" /\ ok' = ok \cup {req[s].id} /\ gone' = gone \ {s}
      /\ UNCHANGED <<mail, objects, handed, used, unsure>>
  BY DEF Answers, Ends
<1>c. \A t \in Slots \ {s} : req'[t] = req[t]
  BY <1>0, EndsIs DEF Answers
<1>d. req'[s].step = "idle" /\ req'[s].letter = Nobody /\ req'[s].id = Nobody
  BY <1>0, EndsIs DEF Answers
<1>e. /\ mail[req[s].id] = req[s].letter /\ req[s].letter # Nobody /\ req[s].id \in Ids
      /\ req[s].id \notin ok /\ (req[s].id \notin unsure => Waited(s))
  BY <1>a, <1>b DEF WorkingAt, Waited, Active
<1>1. Typed'
  <2>1. req' \in [Slots -> Request]
    BY <1>0, EndsIs DEF Answers
  <2>2. req[s].id \in used
    BY <1>a, <1>b DEF Active
  <2> QED
    BY <1>0, <1>b, <2>1, <2>2 DEF Typed
<1>2. Working'
  <2> SUFFICES ASSUME NEW t \in Slots PROVE WorkingAt(t)'
    BY DEF Working
  <2>1. WorkingAt(t)
    BY <1>0 DEF Working
  <2>2. CASE t = s
    BY <1>b, <1>d, <2>2 DEF WorkingAt, Active
  <2>3. CASE t # s
    <3>1. Active(t) => req[t].id # req[s].id
      BY <1>a, <2>3
    <3> QED
      BY <1>b, <1>c, <2>1, <2>3, <3>1 DEF WorkingAt, Active, External
  <2> QED
    BY <2>2, <2>3
<1>3. OwnMail'
  BY <1>0, <1>a, <1>c, <1>d DEF OwnMail, Active
<1>4. Inserted'
  BY <1>0, <1>b DEF Inserted, Stored
<1>5. Uploaded'
  <2> SUFFICES ASSUME NEW t \in Slots PROVE UploadedAt(t)'
    BY DEF Uploaded
  <2>1. UploadedAt(t) /\ WorkingAt(t)
    BY <1>0 DEF Uploaded, Working
  <2>2. CASE t = s
    BY <1>d, <2>2 DEF UploadedAt
  <2>3. CASE t # s
    BY <1>b, <1>c, <2>1, <2>3 DEF UploadedAt, Has
  <2> QED
    BY <2>2, <2>3
<1>6. StoredHasFiles'
  BY <1>0, <1>b DEF StoredHasFiles, Stored, Downloads
<1>7. OkIsDone'
  <2>1. ToOf[mail[req[s].id]] \subseteq Inside \/ req[s].id \in handed
    BY <1>a, <1>b, <1>e DEF WorkingAt, External, collectExternal, GetUsersByEmails
  <2> QED
    BY <1>0, <1>b, <1>e, <2>1 DEF OkIsDone, Stored
<1>8. OneWaited'
  BY <1>0, <1>b, <1>c, <1>d DEF OneWaited, Waited, Active
<1>9. NoneAfterOk'
  <2>1. \A t \in Slots \ {s} : Waited(t) /\ Waited(s) => req[t].letter # req[s].letter
    BY <1>0 DEF OneWaited
  <2> QED
    BY <1>0, <1>b, <1>c, <1>d, <1>e, <2>1 DEF NoneAfterOk, Waited, Active
<1>10. OneOk'
  <2>1. Waited(s) => \A i \in ok \ unsure : mail[i] # req[s].letter
    BY <1>0 DEF NoneAfterOk
  <2> QED
    BY <1>0, <1>b, <1>e, <2>1 DEF OneOk
<1>11. Settled'
  BY <1>0, <1>b, <1>c DEF Settled, Waited, Active, Refused, Stored
<1> QED
  BY <1>1, <1>2, <1>3, <1>4, <1>5, <1>6, <1>7, <1>8, <1>9, <1>10, <1>11 DEF IInv

(* The user turns away from a request, which goes on. *)
LEMMA TurnsAway ==
  ASSUME IInv, NEW s \in Slots,
         GivesUp(s)
  PROVE  IInv'
<1> USE NobodyAssumption
<1>0. Typed /\ Working /\ OwnMail /\ Inserted
       /\ Uploaded /\ StoredHasFiles /\ OkIsDone
       /\ OneWaited /\ NoneAfterOk /\ OneOk /\ Settled
  BY DEF IInv
<1>a. /\ WorkingAt(s)
      /\ \A t \in Slots : Active(t) =>
           /\ req[t].id \in Ids /\ req[t].id \in used \ ok /\ req[t].letter \in Letters
           /\ t \in gone => req[t].id \in unsure
      /\ \A t \in Slots \ {s} : Active(t) => req[t].id # req[s].id
  BY <1>0 DEF Typed, Working, WorkingAt, OwnMail
<1>b. /\ Active(s) /\ gone' = gone \cup {s} /\ unsure' = unsure \cup {req[s].id}
      /\ UNCHANGED <<mail, objects, handed, used, req, ok>>
  BY DEF GivesUp, Active
<1>1. Typed'
  BY <1>0, <1>a, <1>b DEF Typed
<1>2. Working'
  <2> SUFFICES ASSUME NEW t \in Slots PROVE WorkingAt(t)'
    BY DEF Working
  <2>1. WorkingAt(t)
    BY <1>0 DEF Working
  <2>2. CASE t = s
    BY <1>b, <2>1, <2>2 DEF WorkingAt, Active, External
  <2>3. CASE t # s
    BY <1>b, <2>1, <2>3 DEF WorkingAt, Active, External
  <2> QED
    BY <2>2, <2>3
<1>3. OwnMail'
  BY <1>0, <1>b DEF OwnMail, Active
<1>4. Inserted'
  BY <1>0, <1>b DEF Inserted, Stored
<1>5. Uploaded'
  <2> SUFFICES ASSUME NEW t \in Slots PROVE UploadedAt(t)'
    BY DEF Uploaded
  <2>1. UploadedAt(t) /\ WorkingAt(t)
    BY <1>0 DEF Uploaded, Working
  <2>2. CASE t = s
    BY <1>b, <2>1 DEF UploadedAt, Has
  <2>3. CASE t # s
    BY <1>b, <2>1 DEF UploadedAt, Has
  <2> QED
    BY <2>2, <2>3
<1>6. StoredHasFiles'
  BY <1>0, <1>b DEF StoredHasFiles, Stored, Downloads
<1>7. OkIsDone'
  BY <1>0, <1>b DEF OkIsDone, Stored
<1>8. OneWaited'
  BY <1>0, <1>b DEF OneWaited, Waited, Active
<1>9. NoneAfterOk'
  BY <1>0, <1>b DEF NoneAfterOk, Waited, Active
<1>10. OneOk'
  BY <1>0, <1>b DEF OneOk
<1>11. Settled'
  <2> SUFFICES ASSUME NEW i \in Stored, i \notin unsure, i # req[s].id, i \notin ok,
                      ~ \E t \in Slots : Waited(t)' /\ req[t].id = i
               PROVE  Refused(i)
    BY <1>b DEF Settled, Stored, Refused
  <2> QED
    BY <1>0, <1>b DEF Settled, Waited, Active
<1> QED
  BY <1>1, <1>2, <1>3, <1>4, <1>5, <1>6, <1>7, <1>8, <1>9, <1>10, <1>11 DEF IInv

-----------------------------------------------------------------------------
(* A file that was uploaded stands for every file of its name. *)
LEMMA UploadKeeps ==
  ASSUME NEW O \in SUBSET (Ids \X Files), NEW i \in Ids, NEW f \in Files
  PROVE  /\ UploadObject(O, i, f) \subseteq Ids \X Files
         /\ <<i, f>> \in UploadObject(O, i, f)
         /\ \A j \in Ids, g \in Files :
              j # i \/ g \notin SameKey(f) =>
                (<<j, g>> \in UploadObject(O, i, f) <=> <<j, g>> \in O)
BY DEF UploadObject, SameKey

(* An upload, which may replace a file of the same name of the same mail.   *)
LEMMA Uploads ==
  ASSUME IInv, NEW s \in Slots, NEW f \in Files, UploadAttachment(s, f)
  PROVE  IInv'
<1> DEFINE i == req[s].id
           L == FilesOf[req[s].letter]
<1>0. Typed /\ WorkingAt(s) /\ UploadedAt(s)
  BY DEF IInv, Working, Uploaded
<1>1. /\ req[s].step = "open" /\ f \in req[s].left
      /\ objects' = UploadObject(objects, i, f)
      /\ UNCHANGED <<mail, handed, used, gone, ok, unsure>>
  BY DEF UploadAttachment
<1>2. i \in Ids /\ req[s].letter \in Letters /\ objects \in SUBSET (Ids \X Files)
  BY <1>0, <1>1 DEF Typed, WorkingAt, Active
<1>3. req[s].left \ {f} \in SUBSET Files
  BY <1>0 DEF Typed, Request
<1>4. /\ req' \in [Slots -> Request] /\ req'[s].step = "uploaded"
      /\ req'[s].letter = req[s].letter /\ req'[s].id = i
      /\ req'[s].left = req[s].left \ {f}
      /\ \A t \in Slots \ {s} : req'[t] = req[t]
  BY <1>0, <1>3, StageIs DEF UploadAttachment
<1>5. /\ objects' \subseteq Ids \X Files /\ <<i, f>> \in objects'
      /\ \A j \in Ids, g \in Files :
           j # i \/ g \notin SameKey(f) => (<<j, g>> \in objects' <=> <<j, g>> \in objects)
  BY <1>1, <1>2, UploadKeeps
<1>6. f \in L /\ L \subseteq Files
  BY <1>0, <1>1, <1>2, LettersAssumption DEF UploadedAt
<1>7. UploadedAt(s)'
  <2> SUFFICES ASSUME NEW g \in L \ (req[s].left \ {f})
               PROVE  \E h \in L \cap SameKey(g) : <<i, h>> \in objects'
    BY <1>0, <1>1, <1>4 DEF UploadedAt, Has
  <2>1. CASE g = f
    BY <1>5, <1>6, <2>1 DEF SameKey
  <2>2. CASE g # f
    <3>1. PICK h \in L \cap SameKey(g) : <<i, h>> \in objects
      BY <1>0, <1>1, <2>2 DEF UploadedAt, Has
    <3>2. CASE h \in SameKey(f)
      <4>1. f \in SameKey(g)
        BY <1>6, <3>1, <3>2 DEF SameKey
      <4> QED
        BY <1>5, <1>6, <4>1
    <3>3. CASE h \notin SameKey(f)
      BY <1>2, <1>5, <1>6, <3>1, <3>3
    <3> QED
      BY <3>2, <3>3
  <2> QED
    BY <2>1, <2>2
<1> QED
  BY <1>1, <1>2, <1>4, <1>5, <1>7, Uploading

(* Its mail was never visible. *)
LEMMA UploadQuits ==
  ASSUME IInv, NEW s \in Slots, NEW f \in Files, UploadFails(s, f)
  PROVE  IInv'
<1> DEFINE i == req[s].id
<1>1. /\ req[s].step = "open" /\ Ends(s)
      /\ objects' = objects \/ objects' = UploadObject(objects, i, f)
      /\ UNCHANGED <<mail, handed, used, ok, unsure>>
  BY DEF UploadFails
<1>2. i \in Ids /\ i \notin Stored /\ objects \in SUBSET (Ids \X Files)
  BY <1>1 DEF IInv, Typed, Working, WorkingAt, Active, Stored
<1>3. /\ objects' \subseteq Ids \X Files
      /\ \A j \in Ids \ {i}, g \in Files : <<j, g>> \in objects' <=> <<j, g>> \in objects
  BY <1>1, <1>2, UploadKeeps
<1> QED
  BY <1>1, <1>2, <1>3, Quits DEF Active

(* The row of a file cannot be inserted, and its object is removed.         *)
LEMMA InsertQuits ==
  ASSUME IInv, NEW s \in Slots, InsertAttachmentFails(s)
  PROVE  IInv'
<1> DEFINE i == req[s].id
<1>1. /\ req[s].step = "uploaded" /\ Ends(s)
      /\ objects' = objects \/ objects' = DeleteObject(objects, i, req[s].file)
      /\ UNCHANGED <<mail, handed, used, ok, unsure>>
  BY DEF InsertAttachmentFails
<1>2. i \in Ids /\ i \notin Stored /\ objects \in SUBSET (Ids \X Files)
  BY <1>1 DEF IInv, Typed, Working, WorkingAt, Active, Stored
<1>3. /\ objects' \subseteq Ids \X Files
      /\ \A j \in Ids \ {i}, g \in Files : <<j, g>> \in objects' <=> <<j, g>> \in objects
  BY <1>1, <1>2 DEF DeleteObject
<1> QED
  BY <1>1, <1>2, <1>3, Quits DEF Active

(* Its mail was not committed, was refused by Postfix, or is in doubt. *)
LEMMA OthersQuit ==
  ASSUME IInv, NEW s \in Slots, SendFails(s) \/ HandOverFails(s) \/ Stops(s)
  PROVE  IInv'
<1>1. Active(s) /\ Ends(s) /\ UNCHANGED <<mail, objects, handed, used, ok>>
  BY DEF SendFails, HandOverFails, Stops, Active
<1>2. unsure \subseteq unsure' /\ unsure' \subseteq unsure \cup {req[s].id}
  BY DEF SendFails, HandOverFails, Stops
<1>3. req[s].id \in Stored => req[s].id \in unsure' \/ req[s].step = "committed"
  BY DEF IInv, Working, WorkingAt, Stored, SendFails, HandOverFails, Stops
<1> QED
  BY <1>1, <1>2, <1>3, Quits DEF IInv, Typed

(* The row of a file.                                                       *)
LEMMA Inserts ==
  ASSUME IInv, NEW s \in Slots, InsertAttachment(s)
  PROVE  IInv'
<1>0. Typed /\ WorkingAt(s) /\ UploadedAt(s)
  BY DEF IInv, Working, Uploaded
<1>1. /\ req[s].step = "uploaded"
      /\ UNCHANGED <<mail, objects, handed, used, gone, ok, unsure>>
  BY DEF InsertAttachment
<1>2. req[s].left \in SUBSET Files /\ objects \subseteq Ids \X Files
  BY <1>0 DEF Typed, Request
<1>3. /\ req' \in [Slots -> Request] /\ req'[s].step = "open"
      /\ req'[s].letter = req[s].letter /\ req'[s].id = req[s].id
      /\ req'[s].left = req[s].left
      /\ \A t \in Slots \ {s} : req'[t] = req[t]
  BY <1>0, <1>2, StageIs DEF InsertAttachment
<1>4. UploadedAt(s)'
  BY <1>0, <1>1, <1>3 DEF UploadedAt, Has
<1> QED
  BY <1>1, <1>2, <1>3, <1>4, Uploading

-----------------------------------------------------------------------------
(* The inductive invariant holds when nothing was sent,                     *)
LEMMA Initially == Init => IInv
<1> SUFFICES ASSUME Init PROVE IInv
  OBVIOUS
<1>1. req = [s \in Slots |-> Idle] /\ mail = [i \in Ids |-> Nobody] /\ objects = {}
      /\ handed = {} /\ used = {} /\ gone = {} /\ ok = {} /\ unsure = {}
  BY DEF Init
<1>2. \A s \in Slots : req[s].step = "idle" /\ req[s].letter = Nobody /\ req[s].id = Nobody
  BY <1>1, IdleIs
<1>3. Typed
  BY <1>1, IdleIs DEF Typed
<1>4. Working
  BY <1>1, <1>2 DEF Working, WorkingAt, Active
<1>5. OwnMail /\ Uploaded /\ OneWaited /\ NoneAfterOk
  BY <1>2 DEF OwnMail, Uploaded, UploadedAt, OneWaited, NoneAfterOk, Waited, Active
<1>6. Inserted /\ StoredHasFiles /\ OkIsDone /\ OneOk /\ Settled
  BY <1>1 DEF Inserted, StoredHasFiles, OkIsDone, OneOk, Settled, Stored
<1> QED
  BY <1>3, <1>4, <1>5, <1>6 DEF IInv

(* is kept by every step of every request,                                  *)
LEMMA Inductive == IInv /\ [Next]_vars => IInv'
<1> SUFFICES ASSUME IInv, [Next]_vars PROVE IInv'
  OBVIOUS
<1>1. CASE UNCHANGED vars
  BY <1>1 DEF IInv, Typed, Working, WorkingAt, OwnMail, Inserted, Uploaded, UploadedAt,
     StoredHasFiles, OkIsDone, OneWaited, NoneAfterOk, OneOk, Settled, Refused, Has,
     Waited, Active, Stored, External, Downloads, vars
<1>2. CASE Next
  <2> PICK s \in Slots :
        \/ \E l \in Letters, i \in Ids : SendEmail(s, l, i) \/ ForwardEmail(s, l, i)
        \/ \E f \in Files : UploadAttachment(s, f) \/ UploadFails(s, f)
        \/ InsertAttachment(s) \/ Commit(s) \/ CommitLost(s)
        \/ InsertAttachmentFails(s) \/ SendFails(s) \/ HandOverFails(s) \/ Stops(s)
        \/ HandOver(s) \/ HandOverLost(s) \/ Answers(s) \/ GivesUp(s)
    BY <1>2 DEF Next
  <2>1. CASE \E l \in Letters, i \in Ids : SendEmail(s, l, i) \/ ForwardEmail(s, l, i)
    BY <2>1, Begins DEF ForwardEmail
  <2>2. CASE \E f \in Files : UploadAttachment(s, f) \/ UploadFails(s, f)
    BY <2>2, Uploads, UploadQuits
  <2>3. CASE InsertAttachment(s)
    BY <2>3, Inserts
  <2>4. CASE Commit(s) \/ CommitLost(s)
    BY <2>4, Commits, CommitsLost
  <2>5. CASE InsertAttachmentFails(s) \/ SendFails(s) \/ HandOverFails(s) \/ Stops(s)
    BY <2>5, InsertQuits, OthersQuit
  <2>6. CASE HandOver(s) \/ HandOverLost(s) \/ Answers(s) \/ GivesUp(s)
    BY <2>6, HandsOver, HandsOverLost, Answered, TurnsAway
  <2> QED
    BY <2>1, <2>2, <2>3, <2>4, <2>5, <2>6
<1> QED
  BY <1>1, <1>2

(* and so it holds always.                                                  *)
THEOREM Invariant == Spec => []IInv
BY Initially, Inductive, PTL DEF Spec

-----------------------------------------------------------------------------
(* The types of the rows and requests; no two requests work on the same id, *)
(* and the mail of an open request is not there yet.                        *)
THEOREM Types == Spec => []TypeOK
<1>1. IInv => TypeOK
  <2> SUFFICES ASSUME IInv PROVE TypeOK
    OBVIOUS
  <2>1. Typed /\ OwnMail /\ \A s \in Slots : WorkingAt(s)
    BY DEF IInv, Working
  <2>2. \A s \in Slots : req[s] \in
          [step : {"idle", "open", "uploaded", "committed", "done"},
           letter : Letters \cup {Nobody}, id : used \cup {Nobody},
           left : SUBSET Files, file : Files \cup {Nobody}]
    <3> SUFFICES ASSUME NEW s \in Slots
                 PROVE  req[s] \in
          [step : {"idle", "open", "uploaded", "committed", "done"},
           letter : Letters \cup {Nobody}, id : used \cup {Nobody},
           left : SUBSET Files, file : Files \cup {Nobody}]
      OBVIOUS
    <3>1. req[s].id \in used \cup {Nobody}
      BY <2>1 DEF WorkingAt, Active
    <3> QED
      BY <2>1, <3>1 DEF Typed, Request
  <2>3. \A s \in Slots : req[s].step \in {"open", "uploaded"} => mail[req[s].id] = Nobody
    BY <2>1 DEF WorkingAt
  <2>4. \A s, t \in Slots : req[s].id = req[t].id => s = t \/ req[s].step = "idle"
    BY <2>1 DEF OwnMail, Active
  <2> QED
    BY <2>1, <2>2, <2>3, <2>4 DEF TypeOK, Typed
<1> QED
  BY <1>1, Invariant, PTL

(* A mail in the mailboxes has all its files in the storage: no request that *)
(* fails takes away a file of another one.                                   *)
THEOREM FilesAreThere == Spec => []StoredHasFiles
<1>1. IInv => StoredHasFiles
  BY DEF IInv
<1> QED
  BY <1>1, Invariant, PTL

(* SendEmail answers that a mail is sent only when it is committed, and      *)
(* handed to Postfix if somebody is outside.                                 *)
THEOREM AnswerIsTrue == Spec => []OkIsDone
<1>1. IInv => OkIsDone
  BY DEF IInv
<1> QED
  BY <1>1, Invariant, PTL

LEMMA SettledOnce == IInv => SentOnce
<1> SUFFICES ASSUME IInv, NEW i \in Stored \ unsure, NEW j \in Stored \ unsure,
                    i # j, mail[i] = mail[j]
             PROVE  ToOf[mail[i]] \cap Outside # {} /\ ~ ({i, j} \subseteq handed)
  BY DEF SentOnce
<1>0. /\ Working /\ Inserted /\ OneWaited /\ NoneAfterOk /\ OneOk /\ Settled
  BY DEF IInv
<1>1. \A s \in Slots, k \in {i, j} :
        Waited(s) /\ req[s].id = k => req[s].letter = mail[i]
  <2> SUFFICES ASSUME NEW s \in Slots, NEW k \in {i, j}, Active(s), req[s].id = k
               PROVE  req[s].letter = mail[k]
    BY DEF Waited
  <2>1. req[s].step \in {"open", "uploaded", "committed", "done"}
    BY DEF IInv, Typed, Request, Active
  <2>2. mail[k] # Nobody
    BY DEF Stored
  <2> QED
    BY <1>0, <2>1, <2>2 DEF Working, WorkingAt
<1>2. Refused(i) \/ Refused(j)
  <2> SUFFICES ASSUME ~ Refused(i), ~ Refused(j) PROVE FALSE
    OBVIOUS
  <2>1. \A k \in {i, j} : k \in ok \/ \E s \in Slots : Waited(s) /\ req[s].id = k
    BY <1>0 DEF Settled
  <2>2. ~ (i \in ok /\ j \in ok)
    BY <1>0 DEF OneOk
  <2>3. \A s \in Slots, k \in {i, j} : Waited(s) /\ req[s].id = k => i \notin ok /\ j \notin ok
    BY <1>0, <1>1 DEF NoneAfterOk
  <2>4. PICK s \in Slots, t \in Slots :
          Waited(s) /\ req[s].id = i /\ Waited(t) /\ req[t].id = j
    BY <2>1, <2>2, <2>3
  <2> QED
    BY <1>0, <1>1, <2>4 DEF OneWaited
<1>3. collectExternal(ToOf[mail[i]]) \subseteq Outside
  BY <1>0 DEF Inserted, resolveRecipients
<1> QED
  BY <1>2, <1>3 DEF Refused, collectExternal, GetUsersByEmails

(* A letter that the user sends again after an error is delivered twice only *)
(* when Postfix refused the first mail or no answer told of it, and Postfix  *)
(* does not get it twice.                                                    *)
THEOREM OnceSent == Spec => []SentOnce
BY Invariant, SettledOnce, PTL

-----------------------------------------------------------------------------
(* A mail of one multipart, with parts that are none. *)
Flat(M) ==
  /\ 1 \in DOMAIN M /\ 0 \notin DOMAIN M
  /\ M[1].in = 0 /\ M[1].type = "multipart"
  /\ \A k \in DOMAIN M \ {1} : M[k].in = 1 /\ M[k].type # "multipart"

(* Its text is the text of its first parts.  The body of a mail is defined  *)
(* by recursion, of which nothing is left here.                             *)
LEMMA FlatBody ==
  ASSUME NEW M, Flat(M)
  PROVE  Body(M) = OwnText(M, 1)
<1> DEFINE inner(b, k) == FirstText(Nested(M, k), [j \in Nested(M, k) |-> b[j]])
           step(b) == [k \in DOMAIN M |-> IF inner(b, k) # NoText THEN inner(b, k) ELSE OwnText(M, k)]
           body == CHOOSE b : b = step(b)
           own == [k \in DOMAIN M |-> OwnText(M, k)]
<1>1. \A k \in DOMAIN M : Nested(M, k) = {}
  BY DEF Flat, Nested, PartsIn
<1>2. ASSUME NEW t PROVE FirstText({}, t) = NoText
  BY DEF FirstText
<1>3. ASSUME NEW b PROVE step(b) = own
  BY <1>1, <1>2
<1>4. body = own
  BY <1>3
<1>5. Body(M) = body[1]
  BY DEF Body
<1> QED
  BY <1>4, <1>5 DEF Flat

(* Only the mail itself is walked. *)
LEMMA FlatWalked ==
  ASSUME NEW M, Flat(M)
  PROVE  Walked(M) = {1}
<1> DEFINE step(w) == [k \in DOMAIN M |-> k = 1 \/ (k \in Nested(M, M[k].in) /\ w[M[k].in])]
           walked == CHOOSE w : w = step(w)
           first == [k \in DOMAIN M |-> k = 1]
<1>1. \A k \in DOMAIN M : k # 1 => k \notin Nested(M, M[k].in)
  BY DEF Flat, Nested
<1>2. ASSUME NEW w PROVE step(w) = first
  BY <1>1
<1>3. walked = first
  BY <1>2
<1>4. Walked(M) = {k \in DOMAIN M : walked[k]}
  BY DEF Walked
<1> HIDE DEF walked
<1>5. \A k \in DOMAIN M : walked[k] = (k = 1)
  BY <1>3
<1>6. Walked(M) = {k \in DOMAIN M : k = 1}
  BY <1>4, <1>5
<1> QED
  BY <1>6 DEF Flat

(* The files of a letter, numbered. *)
LEMMA Numbered ==
  ASSUME NEW F, IsFiniteSet(F)
  PROVE  /\ Cardinality(F) \in Nat
         /\ InOrder(F) \in [1 .. Cardinality(F) -> F]
         /\ {InOrder(F)[k] : k \in 1 .. Cardinality(F)} = F
<1>1. PICK b \in Bijection(1 .. Cardinality(F), F) : TRUE
  BY FS_CardinalityType DEF ExistsBijection
<1>2. b \in [1 .. Cardinality(F) -> F] /\ \A f \in F : \E k \in 1 .. Cardinality(F) : b[k] = f
  BY <1>1 DEF Bijection, Surjection
<1>3. {b[k] : k \in DOMAIN b} = F
  BY <1>2
<1>4. \E s \in [1 .. Cardinality(F) -> F] : {s[k] : k \in DOMAIN s} = F
  BY <1>2, <1>3
<1>5. InOrder(F) \in [1 .. Cardinality(F) -> F] /\ {InOrder(F)[k] : k \in DOMAIN InOrder(F)} = F
  BY <1>4 DEF InOrder
<1> QED
  BY <1>5, FS_CardinalityType

FileOf(f) == [data |-> f, name |-> NameOf[f]]

(* The parts of a mail ahead of its files. *)
Ahead(text) == IF text = NoText THEN 1 ELSE 2

(* What build makes of a text and files: a multipart with the text, if      *)
(* there is one, and the files.                                             *)
LEMMA Layout ==
  ASSUME NEW text, NEW n \in Nat \ {0}, NEW files, DOMAIN files = 1 .. n
  PROVE  /\ DOMAIN build(text, NoText, files) = 1 .. Ahead(text) + n
         /\ build(text, NoText, files)[1] = Part(0, "multipart", NoText, NoName)
         /\ text # NoText => build(text, NoText, files)[2] = Part(1, "plain", text, NoName)
         /\ \A k \in 1 .. n :
              build(text, NoText, files)[Ahead(text) + k] = writeFilePart(files[k])
<1> DEFINE whole == Part(0, "multipart", NoText, NoName)
           first == Part(1, "plain", text, NoName)
           rest  == [k \in 1 .. n |-> writeFilePart(files[k])]
           P     == {whole, first} \cup {writeFilePart(files[k]) : k \in 1 .. n}
           M     == build(text, NoText, files)
<1>1. M = <<whole>> \o (writeTextPart(1, text)) \o rest
  <2>1. files # <<>>
    OBVIOUS
  <2> QED
    BY <2>1 DEF build, Multipart
<1>2. rest \in Seq(P) /\ Len(rest) = n /\ \A k \in 1 .. n : rest[k] = writeFilePart(files[k])
  <2>1. rest \in [1 .. n -> P]
    OBVIOUS
  <2>2. rest \in Seq(P)
    BY <2>1
  <2> QED
    BY <2>2
<1>3. whole \in P /\ first \in P
  OBVIOUS
<1>4. CASE text = NoText
  <2>1. writeTextPart(1, text) = <<>>
    BY <1>4 DEF writeTextPart
  <2> HIDE DEF rest, P, whole, first, M
  <2>2. <<whole>> \in Seq(P) /\ Len(<<whole>>) = 1 /\ <<whole>>[1] = whole
    BY <1>3
  <2>3. <<whole>> \o <<>> = <<whole>>
    BY <2>2, ConcatEmptySeq
  <2>4. M = <<whole>> \o rest
    BY <1>1, <2>1, <2>3
  <2>5. /\ M \in Seq(P) /\ Len(M) = 1 + n
        /\ \A i \in 1 .. 1 + n : M[i] = IF i <= 1 THEN <<whole>>[i] ELSE rest[i - 1]
    BY <2>4, <2>2, <1>2, ConcatProperties
  <2>6. DOMAIN M = 1 .. 1 + n
    BY <2>5
  <2>7. M[1] = whole
    BY <2>5, <2>2
  <2>8. ASSUME NEW k \in 1 .. n PROVE M[1 + k] = writeFilePart(files[k])
    <3>1. 1 + k \in 1 .. 1 + n /\ ~ (1 + k <= 1) /\ (1 + k) - 1 = k
      OBVIOUS
    <3> QED
      BY <3>1, <2>5, <1>2
  <2> QED
    BY <1>4, <2>6, <2>7, <2>8 DEF whole, M, Ahead
<1>5. CASE text # NoText
  <2>1. writeTextPart(1, text) = <<first>>
    BY <1>5 DEF writeTextPart
  <2> HIDE DEF rest, P, whole, first, M
  <2>2. <<whole>> \in Seq(P) /\ Len(<<whole>>) = 1 /\ <<first>> \in Seq(P) /\ Len(<<first>>) = 1
    BY <1>3
  <2> DEFINE head == <<whole>> \o <<first>>
  <2>3. /\ head \in Seq(P) /\ Len(head) = 2
        /\ \A i \in 1 .. 2 : head[i] = IF i <= 1 THEN <<whole>>[i] ELSE <<first>>[i - 1]
    BY <2>2, ConcatProperties
  <2>4. head[1] = whole /\ head[2] = first
    BY <2>3
  <2>5. M = head \o rest
    BY <1>1, <2>1
  <2> HIDE DEF head
  <2>6. /\ M \in Seq(P) /\ Len(M) = 2 + n
        /\ \A i \in 1 .. 2 + n : M[i] = IF i <= 2 THEN head[i] ELSE rest[i - 2]
    <3>1. head \in Seq(P) /\ Len(head) = 2 /\ rest \in Seq(P) /\ Len(rest) = n
      BY <2>3, <1>2
    <3>2. /\ head \o rest \in Seq(P) /\ Len(head \o rest) = Len(head) + Len(rest)
          /\ \A i \in 1 .. Len(head) + Len(rest) :
               (head \o rest)[i] = IF i <= Len(head) THEN head[i] ELSE rest[i - Len(head)]
      BY <3>1, ConcatProperties
    <3> QED
      BY <3>1, <3>2, <2>5
  <2>7. DOMAIN M = 1 .. 2 + n /\ M[1] = whole /\ M[2] = first
    BY <2>4, <2>6
  <2>8. ASSUME NEW k \in 1 .. n PROVE M[2 + k] = writeFilePart(files[k])
    <3>1. 2 + k \in 1 .. 2 + n /\ ~ (2 + k <= 2) /\ (2 + k) - 2 = k
      OBVIOUS
    <3> QED
      BY <3>1, <2>6, <1>2
  <2> QED
    BY <1>5, <2>7, <2>8 DEF whole, first, M, Ahead
<1> QED
  BY <1>4, <1>5

(* Who reads a letter as this program reads a mail finds its text and its   *)
(* files.                                                                   *)
LEMMA LetterArrives ==
  ASSUME NEW l \in Letters
  PROVE  Arrives[l]
<1> DEFINE F == FilesOf[l]
           s == InOrder(F)
           n == Cardinality(F)
           files == [k \in DOMAIN s |-> FileOf(s[k])]
           M == build(TextOf[l], NoText, files)
           read == extractContent(M)
<1>1. /\ IsFiniteSet(F) /\ F \subseteq Files
      /\ \A f \in F : NameOf[f] # NoName
  BY NamesAssumption, LettersAssumption, FilesAssumption
<1>2. n \in Nat /\ s \in [1 .. n -> F] /\ {s[k] : k \in 1 .. n} = F
  BY <1>1, Numbered
<1>3. Built[l] = M
  BY DEF Built, FileOf
<1>4. SUFFICES /\ read.body = TextOf[l]
               /\ {a.data : a \in read.files} = F
               /\ \A a \in read.files : NameOf[a.data] \in {a.name} \cup Quoted
  BY <1>3 DEF Arrives
<1>5. DOMAIN files = 1 .. n /\ \A k \in 1 .. n : files[k] = FileOf(s[k])
  BY <1>2
<1> HIDE DEF F, s, n, files
<1>6. CASE n = 0
  <2>1. F = {}
    BY <1>2, <1>6
  <2>2. files = <<>>
    <3>1. files = [k \in {} |-> FileOf(s[k])]
      BY <1>2, <1>6 DEF files
    <3> QED
      BY <3>1
  <2>3. M = <<Part(0, "plain", TextOf[l], NoName)>>
    BY <2>2 DEF build
  <2>4. read = [body |-> TextOf[l], files |-> {}]
    BY <2>3 DEF extractContent, Part
  <2> QED
    BY <2>1, <2>4
<1>7. CASE n # 0
  <2> DEFINE c == Ahead(TextOf[l])
  <2>1. /\ DOMAIN M = 1 .. c + n
        /\ M[1] = Part(0, "multipart", NoText, NoName)
        /\ c = 2 => M[2] = Part(1, "plain", TextOf[l], NoName)
        /\ \A k \in 1 .. n : M[c + k] = writeFilePart(files[k])
    <3>1. n \in Nat \ {0} /\ DOMAIN files = 1 .. n
      BY <1>2, <1>5, <1>7
    <3>2. PICK g : g = files
      OBVIOUS
    <3> HIDE DEF M, c
    <3>3. /\ DOMAIN build(TextOf[l], NoText, g) = 1 .. Ahead(TextOf[l]) + n
          /\ build(TextOf[l], NoText, g)[1] = Part(0, "multipart", NoText, NoName)
          /\ TextOf[l] # NoText =>
               build(TextOf[l], NoText, g)[2] = Part(1, "plain", TextOf[l], NoName)
          /\ \A k \in 1 .. n :
               build(TextOf[l], NoText, g)[Ahead(TextOf[l]) + k] = writeFilePart(g[k])
      BY <3>1, <3>2, Layout
    <3>4. c = 2 => TextOf[l] # NoText
      BY DEF c, Ahead
    <3> QED
      BY <3>2, <3>3, <3>4 DEF c, M
  <2>2. c \in {1, 2} /\ (c = 1 <=> TextOf[l] = NoText) /\ n \in Nat \ {0}
    BY <1>2, <1>7 DEF Ahead
  <2> HIDE DEF c, M
  <2>3. /\ M[1].in = 0 /\ M[1].type = "multipart" /\ M[1].name = NoName
        /\ c = 2 => /\ M[2].in = 1 /\ M[2].type = "plain" /\ M[2].name = NoName
                     /\ M[2].content = TextOf[l] /\ M[2].decodes = TRUE
    BY <2>1 DEF Part
  <2>4. \A k \in 1 .. n : LET p == M[c + k] IN
          /\ p.in = 1 /\ p.type = "other" /\ p.name = NameOf[s[k]] /\ p.name # NoName
          /\ p.content = s[k] /\ p.decodes = TRUE
    <3> TAKE k \in 1 .. n
    <3>1. M[c + k] = Part(1, "other", s[k], NameOf[s[k]])
      BY <2>1, <1>5 DEF writeFilePart, FileOf
    <3>2. s[k] \in F
      BY <1>2
    <3> QED
      BY <3>1, <3>2, <1>1 DEF Part
  <2>5. \A j \in DOMAIN M : j = 1 \/ (c = 2 /\ j = 2) \/ (\E k \in 1 .. n : j = c + k)
    <3> SUFFICES ASSUME NEW j \in 1 .. c + n, j # 1, ~ (c = 2 /\ j = 2)
                 PROVE  \E k \in 1 .. n : j = c + k
      BY <2>1
    <3>1. j - c \in 1 .. n /\ j = c + (j - c)
      BY <2>2
    <3> QED
      BY <3>1
  <2>6. \A k \in 1 .. n : c + k \in DOMAIN M /\ c + k # 1
    BY <2>1, <2>2
  <2>7. 1 \in DOMAIN M /\ 0 \notin DOMAIN M /\ (c = 2 => 2 \in DOMAIN M)
    BY <2>1, <2>2
  <2>8. Flat(M)
    BY <2>3, <2>4, <2>5, <2>7 DEF Flat
  <2>9. read = [body |-> Body(M), files |-> {readDecoded(M[k]) : k \in {j \in DOMAIN M :
                  M[j].in \in Walked(M) /\ isAttachment(M[j]) /\ M[j].decodes}}]
    BY <2>3 DEF extractContent, walkMultipart
  <2>10. read.body = TextOf[l]
    <3>1. PartsIn(M, 1) # {}
      <4>1. M[c + 1].in = 1 /\ c + 1 \in DOMAIN M
        BY <2>2, <2>4, <2>6
      <4> QED
        BY <4>1 DEF PartsIn
    <3>2. decodeSinglePart(M, 1, "html") = {}
      BY <2>3, <2>4, <2>5 DEF decodeSinglePart, PartsIn
    <3>3. Texts(M, 1, "html") = NoText
      BY <3>2 DEF Texts, FirstText
    <3>4. Texts(M, 1, "plain") = TextOf[l]
      <4>1. CASE c = 1
        <5>1. decodeSinglePart(M, 1, "plain") = {}
          BY <4>1, <2>3, <2>4, <2>5 DEF decodeSinglePart, PartsIn
        <5> QED
          BY <5>1, <4>1, <2>2 DEF Texts, FirstText
      <4>2. CASE c = 2
        <5>1. decodeSinglePart(M, 1, "plain") = {2}
          BY <4>2, <2>3, <2>4, <2>5, <2>7 DEF decodeSinglePart, PartsIn, isAttachment
        <5> DEFINE text == [j \in DOMAIN M |-> M[j].content]
        <5>2. text[2] = TextOf[l] /\ TextOf[l] # NoText
          BY <4>2, <2>2, <2>3, <2>7
        <5>3. {k \in {2} : text[k] # NoText} = {2}
          BY <5>2
        <5> HIDE DEF text
        <5>4. (CHOOSE k \in {2} : \A j \in {2} : k <= j) = 2
          OBVIOUS
        <5>5. FirstText({2}, text) = TextOf[l]
          BY <5>2, <5>3, <5>4 DEF FirstText
        <5> QED
          BY <5>1, <5>5 DEF Texts, text
      <4> QED
        BY <4>1, <4>2, <2>2
    <3>5. OwnText(M, 1) = TextOf[l]
      BY <3>1, <3>3, <3>4 DEF OwnText
    <3> QED
      BY <2>8, <2>9, <3>5, FlatBody
  <2>11. {j \in DOMAIN M : M[j].in \in Walked(M) /\ isAttachment(M[j]) /\ M[j].decodes}
           = {c + k : k \in 1 .. n}
    <3>1. Walked(M) = {1}
      BY <2>8, FlatWalked
    <3>2. ASSUME NEW k \in 1 .. n
          PROVE  M[c + k].in \in Walked(M) /\ isAttachment(M[c + k]) /\ M[c + k].decodes
      BY <3>1, <2>4 DEF isAttachment
    <3>3. M[1].in \notin Walked(M) /\ (c = 2 => ~ isAttachment(M[2]))
      BY <3>1, <2>3 DEF isAttachment
    <3> QED
      BY <3>2, <3>3, <2>5, <2>6
  <2>12. read.files = {readDecoded(M[c + k]) : k \in 1 .. n}
    BY <2>9, <2>11
  <2>13. ASSUME NEW k \in 1 .. n
         PROVE  /\ readDecoded(M[c + k]).data = s[k]
                /\ NameOf[s[k]] \in {readDecoded(M[c + k]).name} \cup Quoted
    BY <2>4 DEF readDecoded
  <2>14. {a.data : a \in read.files} = {s[k] : k \in 1 .. n}
    BY <2>12, <2>13
  <2> QED
    BY <1>2, <2>10, <2>12, <2>13, <2>14
<1> QED
  BY <1>6, <1>7

-----------------------------------------------------------------------------
(* What Postfix has is committed, and was meant for it. *)
HandedOut == \A i \in handed : i \in Stored /\ ~ (ToOf[mail[i]] \subseteq Inside)

LEMMA HandedOutNext == IInv /\ HandedOut /\ [Next]_vars => HandedOut'
<1> USE NobodyAssumption
<1> SUFFICES ASSUME IInv, HandedOut, [Next]_vars
             PROVE  HandedOut'
  OBVIOUS
<1>1. Typed /\ Working
  BY DEF IInv
<1>2. CASE UNCHANGED <<mail, handed>>
  BY <1>2 DEF HandedOut, Stored
<1>3. ASSUME NEW s \in Slots, Commit(s) \/ CommitLost(s)
      PROVE  HandedOut'
  <2>1. req[s].step = "open" /\ Committed(s) /\ handed' = handed
    BY <1>3 DEF Commit, CommitLost, AllUploaded
  <2>2. req[s].id \notin handed
    BY <1>1, <2>1 DEF Working, WorkingAt
  <2>3. \A i \in handed : i \in Ids /\ mail'[i] = mail[i]
    BY <1>1, <2>1, <2>2 DEF Committed, Typed
  <2> QED
    BY <2>1, <2>3 DEF HandedOut, Stored
<1>4. ASSUME NEW s \in Slots, HandOver(s) \/ HandOverLost(s)
      PROVE  HandedOut'
  <2>1. req[s].step = "committed" /\ mail' = mail /\ handed' = handed \cup {req[s].id}
    BY <1>4 DEF HandOver, HandOverLost
  <2>2. /\ mail[req[s].id] = req[s].letter /\ req[s].letter \in Letters
        /\ req[s].id \in Ids /\ External(s) # {}
    BY <1>1, <2>1 DEF Working, WorkingAt, Active, Typed
  <2>3. ~ (ToOf[req[s].letter] \subseteq Inside)
    BY <2>2 DEF External, collectExternal, GetUsersByEmails
  <2> QED
    BY <2>1, <2>2, <2>3 DEF HandedOut, Stored
<1> QED
  BY <1>2, <1>3, <1>4 DEF Next, vars, SendEmail, ForwardEmail, sendEmailTx, UploadAttachment,
     UploadFails, InsertAttachment, InsertAttachmentFails, SendFails, HandOverFails, Answers,
     GivesUp, Stops

(* Postfix never has a mail that is not committed or has no recipient       *)
(* outside, and who reads it as this program reads a mail finds its text    *)
(* and all its files: sendEmailTx with the calls after its commit, build of *)
(* pkg/smtp and extractContent of the LMTP server, for letters of any text  *)
(* and any number of files.                                                 *)
THEOREM HandedIsStoredAlways == Spec => []HandedIsStored
<1>1. Init => HandedOut
  BY DEF Init, HandedOut
<1>2. IInv /\ HandedOut => HandedIsStored
  <2> SUFFICES ASSUME IInv, HandedOut, NEW i \in handed
               PROVE  i \in Stored /\ ToOf[mail[i]] \cap Outside # {} /\ Arrives[mail[i]]
    BY DEF HandedIsStored
  <2>1. i \in Stored /\ ~ (ToOf[mail[i]] \subseteq Inside)
    BY DEF HandedOut
  <2>2. mail[i] \in Letters
    BY <2>1 DEF IInv, Typed, Stored
  <2>3. collectExternal(ToOf[mail[i]]) \subseteq Outside
    BY <2>1 DEF IInv, Inserted, resolveRecipients
  <2>4. ToOf[mail[i]] \cap Outside # {}
    BY <2>1, <2>3 DEF collectExternal, GetUsersByEmails
  <2> QED
    BY <2>1, <2>2, <2>4, LetterArrives
<1> QED
  BY <1>1, <1>2, HandedOutNext, Invariant, PTL DEF Spec
=============================================================================
