----------------------------- MODULE DraftLife -----------------------------
(***************************************************************************)
(* What the service promises about a draft: it is edited and removed only  *)
(* while it is a draft, and it is sent at most once.  What a mail says and *)
(* who received it is settled by that one step, for ever.                  *)
(***************************************************************************)
CONSTANTS Ids, Users, Texts

VARIABLE life

Absent == [phase |-> "absent"]
Removed == [phase |-> "removed"]

Drafts == [phase : {"draft"}, text : Texts]

Init == life = [d \in Ids |-> Absent]

Create(d, t) ==
  /\ life[d] = Absent
  /\ life' = [life EXCEPT ![d] = [phase |-> "draft", text |-> t]]

Edit(d, t) ==
  /\ life[d] \in Drafts
  /\ life' = [life EXCEPT ![d] = [phase |-> "draft", text |-> t]]

(* The draft leaves with the text it has, to the mailboxes of R. *)
Send(d, R) ==
  /\ life[d] \in Drafts
  /\ life' = [life EXCEPT ![d] =
       [phase |-> "sent", text |-> life[d].text, got |-> R]]

(* One request removes several drafts. *)
Remove(D) ==
  /\ \A d \in D : life[d] \in Drafts
  /\ life' = [d \in Ids |-> IF d \in D THEN Removed ELSE life[d]]

Next ==
  \/ \E d \in Ids, t \in Texts : Create(d, t) \/ Edit(d, t)
  \/ \E d \in Ids, R \in SUBSET Users : Send(d, R)
  \/ \E D \in SUBSET Ids : Remove(D)

Spec == Init /\ [][Next]_life

=============================================================================
