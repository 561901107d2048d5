------------------------------ MODULE MailLife ------------------------------
(***************************************************************************)
(* What a mailbox promises about the life of a mail, whatever requests and *)
(* failures interleave.  A mail arrives in a mailbox at most once.  It is  *)
(* kept until the user, or his filter, puts it in the spam or the trash;   *)
(* only a mail that has been there can be lost, and a lost mail never      *)
(* comes back.  A mail that was taken out of the bin again stays "binned": *)
(* the service remembers nothing of a mail that was restored while another *)
(* request was removing it.                                                *)
(***************************************************************************)
CONSTANTS Users, Emails

VARIABLE life

Mail  == Users \X Emails
Phase == {"absent", "kept", "binned", "gone"}

In(p) == {m \in Mail : life[m] = p}

Init == life = [m \in Mail |-> "absent"]

(* One delivery: e arrives for the users U, filtered as spam for F. *)
Arrive(e, U, F) ==
  /\ U \X {e} \subseteq In("absent")
  /\ F \subseteq U
  /\ life' = [m \in Mail |->
       IF m \in F \X {e} THEN "binned"
       ELSE IF m \in U \X {e} THEN "kept" ELSE life[m]]

(* A request of one user puts mails of his in the spam or the trash. *)
Bin(u, E) ==
  /\ {u} \X E \subseteq In("kept")
  /\ life' = [m \in Mail |-> IF m \in {u} \X E THEN "binned" ELSE life[m]]

(* A request of one user removes mails of his. *)
Lose(u, E) ==
  /\ {u} \X E \subseteq In("binned")
  /\ life' = [m \in Mail |-> IF m \in {u} \X E THEN "gone" ELSE life[m]]

Next ==
  \/ \E e \in Emails, U, F \in SUBSET Users : Arrive(e, U, F)
  \/ \E u \in Users, E \in SUBSET Emails : Bin(u, E) \/ Lose(u, E)

Spec == Init /\ [][Next]_life

=============================================================================
