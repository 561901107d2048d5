------------------------------- MODULE Filing -------------------------------
(***************************************************************************)
(* Mails in folders: the folder service and the email service together.    *)
(* The membership of a mail in a folder is a row of folder_emails, and     *)
(* whether it is shown in the inbox is user_emails.is_inbox, a column of   *)
(* the other service.  AddEmailsInFolder and DeleteEmailsFromFolder write  *)
(* the one by SQL and ask for the other to be inverted by a gRPC call, mail *)
(* after mail, with nothing that ties the two together: no transaction, no *)
(* retry, and a call that inverts cannot be repeated.                      *)
(*                                                                         *)
(* The history variable "astray" notes the rows for which that goes wrong. *)
(***************************************************************************)
EXTENDS Mailbox, FolderParams, Sequences

CONSTANTS
  Filers,     \* request slots that add mails to a folder or take them out
  MaxBatch    \* the longest list of mails of a request

ASSUME BatchAssumption == MaxBatch \in Nat

VARIABLES
  folders, used, creating,   \* of FolderTable
  filed,    \* folder_emails: pairs of a folder and a row of user_emails
  filing,   \* for each slot of Filers, the request it runs
  astray    \* history: received rows whose is_inbox lost touch with "filed"

Table == INSTANCE FolderTable

mailVars  == vars
tableVars == <<folders, used, creating>>
fileVars  == <<filed, filing, astray>>

(* The lists of a request may repeat a mail: nothing removes duplicates. *)
Lists == UNION {[1..n -> Emails] : n \in 1..MaxBatch}

IdleFiling == [op |-> "add", step |-> "idle", user |-> Nobody, folder |-> Nobody,
               mails |-> <<>>]

(* Mutant: any row of the mail is found, the sender's first. *)
AnyRow(s) ==
  LET sent == <<filing[s].user, Head(filing[s].mails), "sent">>
  IN  IF sent \in rows THEN sent
      ELSE <<filing[s].user, Head(filing[s].mails), "received">>

(* The row GetUserEmailID finds: the received one, never the sender's.      *)
FiledRow(s) == <<filing[s].user, Head(filing[s].mails), "received">>

FolderOf(k) == {f \in DOMAIN folders : <<f, k>> \in filed}

FilingInit ==
  /\ Init
  /\ Table!TableInit
  /\ filed = {}
  /\ filing = [s \in Filers |-> IdleFiling]
  /\ astray = {}

-----------------------------------------------------------------------------
At(s, step)   == filing[s].step = step
Go(s, step)   == filing' = [filing EXCEPT ![s].step = step]
EndFiling(s)  == filing' = [filing EXCEPT ![s] = IdleFiling]

(* The next mail of the list, or the end of the request. *)
NextMail(s) ==
  filing' = [filing EXCEPT ![s] =
    IF Len(filing[s].mails) > 1
    THEN [op |-> filing[s].op, step |-> filing[s].op, user |-> filing[s].user,
          folder |-> filing[s].folder, mails |-> Tail(filing[s].mails)]
    ELSE IdleFiling]

(* GetFolderByID and the check of the owner; otherwise an error at once. *)
Begin(s, op, u, f, mails) ==
  /\ At(s, "idle")
  /\ f \in Table!FoldersOf(u)
  /\ filing' = [filing EXCEPT ![s] =
       [op |-> op, step |-> op, user |-> u, folder |-> f, mails |-> mails]]
  /\ UNCHANGED <<mailVars, tableVars, filed, astray>>

AddEmailsInFolder(s, u, f, mails)      == Begin(s, "add", u, f, mails)
DeleteEmailsFromFolder(s, u, f, mails) == Begin(s, "take", u, f, mails)

(* Any row of the mail gives access, and so does having sent it; without    *)
(* access the request ends, the mails before it stay filed.                 *)
CheckEmailAccess(s) ==
  /\ At(s, "add")
  /\ LET u == filing[s].user
         e == Head(filing[s].mails)
     IN  IF RowsOf(u, {e}) # {} \/ (SenderOf[e] = u /\ delivery[e].status = "sent")
         THEN Go(s, "allowed") ELSE EndFiling(s)
  /\ UNCHANGED <<mailVars, tableVars, filed, astray>>

GetUserEmailID(s) ==
  /\ At(s, "allowed") \/ At(s, "take")
  /\ IF FiledRow(s) \in rows THEN Go(s, "found") ELSE EndFiling(s)
  /\ UNCHANGED <<mailVars, tableVars, filed, astray>>

(* INSERT ... ON CONFLICT DO NOTHING; the foreign keys refuse a folder or a *)
(* row that was deleted since it was looked up.                             *)
AddEmailToFolder(s) ==
  /\ At(s, "found") /\ filing[s].op = "add"
  /\ LET f == filing[s].folder
         k == FiledRow(s)
     IN  IF f \in DOMAIN folders /\ k \in rows
         THEN /\ filed' = filed \cup {<<f, k>>}
              /\ astray' = astray \cup {j \in {k} : FolderOf(j) # {}}
              /\ Go(s, "filed")
         ELSE EndFiling(s) /\ UNCHANGED <<filed, astray>>
  /\ UNCHANGED <<mailVars, tableVars>>

(* Taking out a mail that is not in the folder is no error. *)
DeleteEmailFromFolder(s) ==
  /\ At(s, "found") /\ filing[s].op = "take"
  /\ LET f == filing[s].folder
         k == FiledRow(s)
     IN  /\ filed' = filed \ {<<f, k>>}
         /\ astray' = astray \cup {j \in {k} : <<f, j>> \notin filed}
  /\ Go(s, "filed")
  /\ UNCHANGED <<mailVars, tableVars>>

(* SwitchIsInbox succeeds even where it changes nothing: a row that is spam *)
(* by now keeps its is_inbox.                                               *)
SwitchFiled(s) ==
  /\ At(s, "filed")
  /\ SwitchIsInbox(filing[s].user, Head(filing[s].mails))
  /\ astray' = astray \cup {k \in {FiledRow(s)} : k \in flag["spam"]}

Switch(s) == SwitchFiled(s) /\ NextMail(s) /\ UNCHANGED <<tableVars, filed>>

(* The switch is done but its reply is lost or later than three seconds:    *)
(* the request ends with an error, and the mails that follow are not filed. *)
SwitchLost(s) == SwitchFiled(s) /\ EndFiling(s) /\ UNCHANGED <<tableVars, filed>>

(* A call or a statement fails, or the service stops, before its effect. *)
FilingFails(s) ==
  /\ ~ At(s, "idle")
  /\ EndFiling(s)
  /\ astray' = astray \cup {k \in {FiledRow(s)} : At(s, "filed")}
  /\ UNCHANGED <<mailVars, tableVars, filed>>

(* ON DELETE CASCADE: the memberships go with the folder, is_inbox is not   *)
(* restored; and they go with a row of user_emails.                         *)
DeleteFolder(u, f) ==
  /\ Table!DeleteFolder(u, f)
  /\ filed' = {p \in filed : p[1] # f}
  /\ astray' = astray \cup {p[2] : p \in {q \in filed : q[1] = f}}
  /\ UNCHANGED <<mailVars, filing>>

(* Mutant: the memberships of a removed row stay. *)
NoCascade == filed' = filed

Cascade == filed' = {p \in filed : p[2] \in rows'}

-----------------------------------------------------------------------------
File ==
  \E s \in Filers :
    \/ \E u \in Users, f \in Folders, mails \in Lists :
         \/ AddEmailsInFolder(s, u, f, mails)
         \/ DeleteEmailsFromFolder(s, u, f, mails)
    \/ CheckEmailAccess(s)
    \/ GetUserEmailID(s)
    \/ AddEmailToFolder(s)
    \/ DeleteEmailFromFolder(s)
    \/ Switch(s)
    \/ SwitchLost(s)
    \/ FilingFails(s)

(* What the email service does meanwhile.  Of the operations of one         *)
(* statement only the ones on is_spam matter to filing.                     *)
MailStep ==
  \/ Deliver
  \/ \E u \in Users, E \in Batches : Spam(u, E) \/ Unspam(u, E)
  \/ Discard

FilingNext ==
  \/ /\ File
     /\ disposed' = disposed
  \/ /\ MailStep
     /\ Record
     /\ Cascade
     /\ UNCHANGED <<tableVars, filing, astray>>
  \/ /\ Table!Create \/ Table!Rename
     /\ UNCHANGED <<mailVars, fileVars>>
  \/ \E u \in Users, f \in Folders : DeleteFolder(u, f)

filingVars == <<mailVars, tableVars, fileVars>>

FilingSpec == FilingInit /\ [][FilingNext]_filingVars

-----------------------------------------------------------------------------
FilingState ==
  [op : {"add", "take"},
   step : {"idle", "add", "take", "allowed", "found", "filed"},
   user : Users \cup {Nobody}, folder : Folders \cup {Nobody},
   mails : Lists \cup {<<>>}]

FilingTypeOK ==
  /\ TypeOK
  /\ Table!TableTypeOK
  /\ filed \subseteq Folders \X Key
  /\ filing \in [Filers -> FilingState]
  /\ astray \subseteq Key

(* A folder holds only mails its owner received, and only rows that exist,  *)
(* although the folder and the row are looked up several calls before the   *)
(* membership is written, and either may be deleted in between.             *)
FiledIsReceived ==
  \A p \in filed :
    /\ p[1] \in DOMAIN folders
    /\ p[2] \in rows
    /\ p[2][1] = folders[p[1]].owner
    /\ p[2][3] = "received"

(* A received mail is either in the inbox or in one folder once no request  *)
(* is between writing the membership and switching is_inbox: requests that  *)
(* interleave on one mail, deletions and spam do not change that by         *)
(* themselves.  The exceptions are the rows noted in "astray": filed again  *)
(* while in a folder, taken out of a folder they were not in, switched      *)
(* while spam, in a folder that was deleted, or hit by a failure between    *)
(* the two writes.                                                          *)
InboxOrFolder ==
  \A k \in rows \ astray :
    (k[3] = "received" /\ ~ \E s \in Filers : At(s, "filed") /\ FiledRow(s) = k)
      => k \in flag["inbox"] <=> FolderOf(k) = {}

(* The limit of folders, which CreateNewFolder checks in one statement and  *)
(* applies in another: each further request that runs at the same time can  *)
(* pass it by one folder, and none by more, whatever deletions of folders   *)
(* come in between.                                                         *)
FolderOverrun == Table!FolderOverrun

=============================================================================
