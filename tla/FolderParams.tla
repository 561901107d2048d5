---------------------------- MODULE FolderParams ----------------------------
(* The parameters of the table of folders, and what is assumed of them.     *)
EXTENDS Naturals, FiniteSets

CONSTANTS
  Folders,          \* the ids that the table may give out; none is reused
  Names,
  Creators,         \* request slots that run CreateNewFolder
  MaxCustomFolders

ASSUME LimitAssumption == MaxCustomFolders \in Nat \ {0}
ASSUME CreatorsAssumption == IsFiniteSet(Creators)
=============================================================================
