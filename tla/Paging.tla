------------------------------- MODULE Paging -------------------------------
(***************************************************************************)
(* The lists of mails of one user, the drafts and a folder among them, and *)
(* a client that walks through one of them page by page until the total it *)
(* was told.  A page and its total are read by different statements,       *)
(* between which mails come and go.  A mail is its place in the order of   *)
(* emails.created_at; in the order of user_emails.created_at it has        *)
(* another one when it was sent from a draft, and a third one in the       *)
(* folder.  A mail to oneself has two rows, which have the same flags.     *)
(***************************************************************************)
EXTENDS Naturals, FiniteSets, FiniteSetsExt

CONSTANTS
  Mails,   \* the mails, numbered in the order of emails.created_at
  Limit,   \* the size of a page
  MaxMoves \* bound: how often the flags of a mail are changed

ASSUME MailsAssumption == Mails \subseteq Nat /\ IsFiniteSet(Mails)
ASSUME LimitAssumption == Limit \in Nat \ {0} /\ MaxMoves \in Nat

VARIABLES
  rows,   \* the mails of the user, with the role of the user in them: the rows
          \* of user_emails, and the drafts
  came,   \* the place of a mail in the order of user_emails.created_at, or 0
  filed,  \* the place of a mail in the order of folder_emails.created_at, or 0
  flags,  \* for each mail, which flags its rows have: "out" of the inbox, "kept"
          \* in the folder, and "removed" when they were deleted
  walk,   \* the walk of the client: list, offset, step, and a part of a page
  seen,   \* the rows the walk has shown
  again,  \* the rows it has shown twice
  gone, fresh, \* history: the rows that left the list of the walk and those
               \* that came into it meanwhile
  moves   \* the number of moves so far

rowVars  == <<rows, came, filed, flags, moves>>
walkVars == <<walk, seen, again, gone, fresh>>
vars     == <<rowVars, walkVars>>

Lists == {"inbox", "sent", "all", "spam", "trash", "favorites", "drafts", "folder"}
Flags == {"out", "kept", "spam", "deleted", "starred", "removed"}
Roles == {"received", "sent", "draft"}

(* The condition of each list, with the flags of a row and its role. *)
Matches(list, F, role) ==
  /\ "removed" \notin F
  /\ CASE list = "inbox"     -> role = "received" /\ F \cap {"deleted", "spam", "out"} = {}
       [] list = "received"  -> role = "received" /\ F \cap {"deleted", "spam"} = {}
       [] list = "sent"      -> role = "sent" /\ "deleted" \notin F
       [] list = "drafts"    -> role = "draft"
       [] list = "folder"    -> role = "received" /\ "kept" \in F
       [] list = "spam"      -> "spam" \in F /\ "deleted" \notin F
       [] list = "trash"     -> "deleted" \in F
       [] list = "favorites" -> "starred" \in F /\ "deleted" \notin F

Among(list, R, fl) ==
  IF list = "all" THEN {r \in R : \E l \in {"received", "sent"} : Matches(l, fl[r[1]], r[2])}
  ELSE {r \in R : Matches(list, fl[r[1]], r[2])}

Shown(list) == Among(list, rows, flags)

(* The time a list is sorted by. *)
Time(list, r) ==
  CASE list \in {"sent", "all", "drafts"} -> r[1]
    [] list = "folder" -> filed[r[1]]
    [] OTHER -> came[r[1]]

(* The newest come first.  The two rows of a mail to oneself have one time  *)
(* and show one mail; no ORDER BY says which of them is the first, and here *)
(* it is the received one.                                                  *)
Ahead(list, r, s) ==
  \/ Time(list, r) > Time(list, s)
  \/ r[1] = s[1] /\ r[2] = "received" /\ s[2] # "received"

(* How many rows of R come before r. *)
Place(list, R, r) == Cardinality({s \in R : Ahead(list, s, r)})

(* Mutant: the page begins one row early. *)
PageEarly(list, R, offset) ==
  LET first == IF offset = 0 THEN 0 ELSE offset - 1
  IN {r \in R : Place(list, R, r) \in first .. first + Limit - 1}
(* Mutant: the page begins one row late. *)
PageLate(list, R, offset) ==
  LET first == IF offset = 0 THEN 0 ELSE offset + 1
  IN {r \in R : Place(list, R, r) \in first .. first + Limit - 1}

Page(list, R, offset) == {r \in R : Place(list, R, r) \in offset .. offset + Limit - 1}

queryUserMailbox(list, offset) == Page(list, Shown(list), offset)

(* Mutant: the oldest come first. *)
OldestSent(offset) ==
  {r \in Shown("sent") :
     Cardinality({s \in Shown("sent") : Ahead("sent", r, s)}) \in offset .. offset + Limit - 1}
GetSentEmails(offset) == Page("sent", Shown("sent"), offset)
GetDrafts(offset) == Page("drafts", Shown("drafts"), offset)
GetFolderEmailIDs(offset) == Page("folder", Shown("folder"), offset)

(* Of the ids of a page, those whose row is still there. *)
GetEmailIdsByUserEmailIds(ids) == {r \in ids : "removed" \notin flags[r[1]]}

(* The page of the two pages: they are put together and sorted. *)
GetAllEmails(received, sent, offset) == Page("all", received \cup sent, offset)

(* CountSentEmails counts the mails, whatever has become of their rows; the *)
(* spam is counted without the rows of a sender.                            *)
Total(list) ==
  LET sent == Cardinality({r \in rows : r[2] = "sent"})
  IN CASE list = "sent" -> sent
       [] list = "all"  -> Cardinality(Shown("received")) + sent
       [] list = "spam" -> Cardinality({r \in Shown("spam") : r[2] = "received"})
       [] OTHER         -> Cardinality(Shown(list))

NoWalk == [list |-> "inbox", offset |-> 0, step |-> "none", part |-> {}]

Init ==
  /\ rows = {} /\ moves = 0
  /\ came = [e \in Mails |-> 0]
  /\ filed = [e \in Mails |-> 0]
  /\ flags = [e \in Mails |-> {}]
  /\ walk = NoWalk
  /\ seen = {} /\ again = {} /\ gone = {} /\ fresh = {}

-----------------------------------------------------------------------------
RolesOf(e) == {r[2] : r \in {s \in rows : s[1] = e}}
Arrived  == {e \in Mails : came[e] # 0}

(* What a walk that is under way is to know of a change of the rows. *)
Notes(R, fl) ==
  LET before == Shown(walk.list)
      after == Among(walk.list, R, fl)
  IN IF walk.step \in {"page", "rest", "total"}
     THEN /\ gone' = gone \cup (before \ after)
          /\ fresh' = fresh \cup (after \ before)
          /\ UNCHANGED <<walk, seen, again>>
     ELSE /\ walk' = NoWalk
          /\ seen' = {} /\ again' = {} /\ gone' = {} /\ fresh' = {}

(* A mail is received, sent, or sent to oneself; from a blocked sender it   *)
(* comes into the spam.  A draft becomes a sent mail.  The rows have the    *)
(* time at which their transaction began, and may be older than rows        *)
(* already there.                                                           *)
Deliver(e, R, F, place) ==
  /\ came[e] = 0 /\ "removed" \notin flags[e]
  /\ RolesOf(e) # {} => "sent" \in R
  /\ F # {} => R = {"received"}
  /\ came' = [f \in Mails |-> IF f = e THEN place
                             ELSE IF came[f] >= place THEN came[f] + 1 ELSE came[f]]
  /\ rows' = {r \in rows : r[1] # e} \cup ({e} \X R)
  /\ flags' = [flags EXCEPT ![e] = F]
  /\ Notes(rows', flags')
  /\ UNCHANGED <<filed, moves>>

CreateDraft(e) ==
  /\ RolesOf(e) = {}
  /\ rows' = rows \cup {<<e, "draft">>}
  /\ Notes(rows', flags)
  /\ UNCHANGED <<came, filed, flags, moves>>

Sets(e, F) ==
  /\ F # flags[e] /\ moves < MaxMoves
  /\ flags' = [flags EXCEPT ![e] = F]
  /\ moves' = moves + 1
  /\ Notes(rows, flags')
  /\ UNCHANGED <<rows, came>>

DeleteDrafts(e) ==
  "draft" \in RolesOf(e) /\ Sets(e, {"removed"}) /\ UNCHANGED filed

AddEmailToFolder(e) ==
  /\ "received" \in RolesOf(e) /\ Sets(e, flags[e] \cup {"kept"})
  /\ filed' = [filed EXCEPT ![e] = 1 + Max({filed[f] : f \in Mails})]

DeleteEmailFromFolder(e) == Sets(e, flags[e] \ {"kept"}) /\ UNCHANGED filed

TrashEmails(e)   == "spam" \notin flags[e] /\ Sets(e, flags[e] \cup {"deleted"})
UntrashEmails(e) == Sets(e, flags[e] \ {"deleted"})
StarEmails(e)    == "spam" \notin flags[e] /\ Sets(e, flags[e] \cup {"starred"})
UnstarEmails(e)  == Sets(e, flags[e] \ {"starred"})

(* The user's own mails are left alone. *)
SpamEmails(e) ==
  "sent" \notin RolesOf(e) /\ Sets(e, (flags[e] \cup {"spam"}) \ {"starred", "deleted"})
UnspamEmails(e) == Sets(e, flags[e] \ {"spam"})

SwitchIsInbox(e) ==
  /\ "spam" \notin flags[e]
  /\ Sets(e, (flags[e] \cup {"out"}) \ (flags[e] \cap {"out"}))

(* A statement before found the mail in the trash or in the spam. *)
DeleteUserEmailsBatch(e) ==
  flags[e] \cap {"deleted", "spam"} # {} /\ Sets(e, flags[e] \cup {"removed"})

(* The statements that change the rows of a mail. *)
Moves(e) ==
  /\ came[e] # 0 /\ "removed" \notin flags[e]
  /\ \/ AddEmailToFolder(e)
     \/ DeleteEmailFromFolder(e)
     \/ /\ UNCHANGED filed
        /\ \/ TrashEmails(e)
           \/ UntrashEmails(e)
           \/ SpamEmails(e)
           \/ UnspamEmails(e)
           \/ StarEmails(e)
           \/ UnstarEmails(e)
           \/ SwitchIsInbox(e)
           \/ DeleteUserEmailsBatch(e)

(* The client begins with the first page. *)
Open(list) ==
  /\ walk.step \in {"none", "done"}
  /\ walk' = [list |-> list, offset |-> 0, step |-> "page", part |-> {}]
  /\ seen' = {} /\ again' = {} /\ gone' = {} /\ fresh' = {}
  /\ UNCHANGED rowVars

Goes(step, part) == walk' = [walk EXCEPT !.step = step, !.part = part]

Shows(page) ==
  /\ Goes("total", page)
  /\ seen' = seen \cup page
  /\ again' = again \cup (seen \cap page)
  /\ UNCHANGED <<rowVars, gone, fresh>>

ReadMailbox ==
  /\ walk.step = "page" /\ walk.list \in {"inbox", "spam", "trash", "favorites"}
  /\ Shows(queryUserMailbox(walk.list, walk.offset))

ReadSent ==
  /\ walk.step = "page" /\ walk.list = "sent"
  /\ Shows(GetSentEmails(walk.offset))

ReadDrafts ==
  /\ walk.step = "page" /\ walk.list = "drafts"
  /\ Shows(GetDrafts(walk.offset))

(* The folder service reads the ids, and asks the email service for the mails. *)
ReadFolder ==
  \/ /\ walk.step = "page" /\ walk.list = "folder"
     /\ Goes("rest", GetFolderEmailIDs(walk.offset))
     /\ UNCHANGED <<rowVars, seen, again, gone, fresh>>
  \/ /\ walk.step = "rest" /\ walk.list = "folder"
     /\ Shows(GetEmailIdsByUserEmailIds(walk.part))

(* The two lists are read by two statements. *)
ReadAll ==
  \/ /\ walk.step = "page" /\ walk.list = "all"
     /\ Goes("rest", queryUserMailbox("received", walk.offset))
     /\ UNCHANGED <<rowVars, seen, again, gone, fresh>>
  \/ /\ walk.step = "rest" /\ walk.list = "all"
     /\ Shows(GetAllEmails(walk.part, GetSentEmails(walk.offset), walk.offset))

(* The client goes on with the next page, unless the total is reached. *)
ReadTotal ==
  /\ walk.step = "total"
  /\ walk' = IF walk.offset + Limit >= Total(walk.list)
             THEN [walk EXCEPT !.step = "done"]
             ELSE [walk EXCEPT !.step = "page", !.offset = @ + Limit]
  /\ UNCHANGED <<rowVars, seen, again, gone, fresh>>

Next ==
  \/ \E e \in Mails :
       \/ \E R \in {{"received"}, {"sent"}, {"received", "sent"}}, F \in {{}, {"spam"}},
             place \in 1 .. Cardinality(Arrived) + 1 : Deliver(e, R, F, place)
       \/ CreateDraft(e)
       \/ DeleteDrafts(e)
       \/ Moves(e)
  \/ \E list \in Lists : Open(list)
  \/ ReadMailbox
  \/ ReadSent
  \/ ReadDrafts
  \/ ReadFolder
  \/ ReadAll
  \/ ReadTotal

Spec == Init /\ [][Next]_vars

-----------------------------------------------------------------------------
(* Whoever walks to the end has seen each row that was there all the time,  *)
(* unless a row ahead of it was taken out meanwhile and moved it to a page  *)
(* that had been read.  (The list of all mails is another matter.)          *)
NothingMissed ==
  walk.step = "done" /\ walk.list # "all" =>
    \A r \in Shown(walk.list) \ (fresh \cup seen) : \E g \in gone : Ahead(walk.list, g, r)

(* No row is shown twice, unless it or one ahead of it came into the list   *)
(* meanwhile.                                                               *)
NothingTwice ==
  \A r \in again : r \in fresh \/ \E f \in fresh : Ahead(walk.list, f, r)

(* The first page of all mails has the newest ones, while no mail came out  *)
(* of order, as one that was sent from a draft does.                        *)
FirstPageIsNewest ==
  (\A e, f \in Arrived : e < f => came[e] < came[f]) =>
    GetAllEmails(queryUserMailbox("received", 0), GetSentEmails(0), 0)
      = Page("all", Shown("all"), 0)

(* What the comment of GetAllEmails says of its pages: whoever walks through *)
(* all mails while none of them moves has seen them all.  It fails from the *)
(* second page on.                                                          *)
AllMailsPaged ==
  walk.step = "done" /\ walk.list = "all" /\ gone = {} /\ fresh = {} => Shown("all") \subseteq seen
=============================================================================
