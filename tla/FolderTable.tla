---------------------------- MODULE FolderTable ----------------------------
(***************************************************************************)
(* The table "folders" of the folder service.  Creating a folder counts    *)
(* the folders of the user in one statement and inserts in another, with   *)
(* no transaction around the two; renaming and deleting look the folder up *)
(* first, but its owner never changes, so that the second statement alone  *)
(* decides: each is one step.                                              *)
(***************************************************************************)
EXTENDS FolderParams

CONSTANTS
  Users,
  Nobody            \* the user of an idle request

VARIABLES
  folders,   \* the rows: a function from the ids in use to owner and name
  used,      \* the ids given out so far
  creating   \* for each slot of Creators, the request it runs

tableVars == <<folders, used, creating>>

Row == [owner : Users, name : Names]

FoldersOf(u)  == {f \in DOMAIN folders : folders[f].owner = u}
NamesOf(u, F) == {folders[f].name : f \in F \cap FoldersOf(u)}

IdleCreate == [step |-> "idle", user |-> Nobody, name |-> Nobody]

TableInit ==
  /\ folders = [f \in {} |-> [owner |-> Nobody, name |-> Nobody]]
  /\ used = {}
  /\ creating = [c \in Creators |-> IdleCreate]

-----------------------------------------------------------------------------
(* Mutant: the limit itself is let through. *)
CreateAtLimit(c, u, n) ==
  /\ creating[c].step = "idle"
  /\ Cardinality(FoldersOf(u)) <= MaxCustomFolders
  /\ creating' = [creating EXCEPT ![c] = [step |-> "counted", user |-> u, name |-> n]]
  /\ UNCHANGED <<folders, used>>

(* CountUserFolders: at the limit the request is refused. *)
CreateNewFolder(c, u, n) ==
  /\ creating[c].step = "idle"
  /\ Cardinality(FoldersOf(u)) < MaxCustomFolders
  /\ creating' = [creating EXCEPT ![c] = [step |-> "counted", user |-> u, name |-> n]]
  /\ UNCHANGED <<folders, used>>

(* CreateFolder: the INSERT, unless the user has a folder of that name. *)
CreateFolder(c, f) ==
  /\ creating[c].step = "counted"
  /\ f \notin used
  /\ LET u == creating[c].user
         n == creating[c].name
     IN  /\ n \notin NamesOf(u, Folders)
         /\ folders' = [g \in DOMAIN folders \cup {f} |->
              IF g = f THEN [owner |-> u, name |-> n] ELSE folders[g]]
  /\ used' = used \cup {f}
  /\ creating' = [creating EXCEPT ![c] = IdleCreate]

(* The INSERT fails, by UNIQUE(user_id, name) or otherwise. *)
CreateFails(c) ==
  /\ creating[c].step = "counted"
  /\ creating' = [creating EXCEPT ![c] = IdleCreate]
  /\ UNCHANGED <<folders, used>>

(* Mutant: a folder may take the name of another one. *)
ChangeToAnyName(u, f, n) ==
  /\ f \in FoldersOf(u)
  /\ folders' = [folders EXCEPT ![f] = [owner |-> u, name |-> n]]
  /\ UNCHANGED <<used, creating>>

ChangeFolderName(u, f, n) ==
  /\ f \in FoldersOf(u)
  /\ n \notin NamesOf(u, Folders \ {f})
  /\ folders' = [folders EXCEPT ![f] = [owner |-> u, name |-> n]]
  /\ UNCHANGED <<used, creating>>

DeleteFolder(u, f) ==
  /\ f \in FoldersOf(u)
  /\ folders' = [g \in DOMAIN folders \ {f} |-> folders[g]]
  /\ UNCHANGED <<used, creating>>

Create ==
  \E c \in Creators :
    \/ \E u \in Users, n \in Names : CreateNewFolder(c, u, n)
    \/ \E f \in Folders : CreateFolder(c, f)
    \/ CreateFails(c)

Rename == \E u \in Users, f \in Folders, n \in Names : ChangeFolderName(u, f, n)

Remove == \E u \in Users, f \in Folders : DeleteFolder(u, f)

TableNext == Create \/ Rename \/ Remove

TableSpec == TableInit /\ [][TableNext]_tableVars

-----------------------------------------------------------------------------
(* Types; a deleted id stays used, and a name appears once per user.        *)
TableTypeOK ==
  /\ used \subseteq Folders
  /\ DOMAIN folders \subseteq used
  /\ \A f \in DOMAIN folders : folders[f] \in Row
  /\ creating \in [Creators -> [step : {"idle", "counted"},
                                user : Users \cup {Nobody},
                                name : Names \cup {Nobody}]]
  /\ \A c \in Creators : creating[c].step = "counted"
       => creating[c].user \in Users /\ creating[c].name \in Names
  /\ \A f, g \in DOMAIN folders : folders[f] = folders[g] => f = g

(* The limit as CreateNewFolder keeps it, which counts in one statement and *)
(* inserts in another: every request that runs at the same time as another  *)
(* can overshoot it by one folder, and never more, whatever is renamed or   *)
(* deleted meanwhile.                                                       *)
FolderOverrun ==
  \A u \in Users :
    Cardinality(FoldersOf(u)) + 1 <= MaxCustomFolders + Cardinality(Creators)

=============================================================================
