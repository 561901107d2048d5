------------------------------ MODULE Storage ------------------------------
(***************************************************************************)
(* The bucket of attachments: pairs of a mail and a file.  The key of an   *)
(* object is made of the mail and the file name, so that a file replaces   *)
(* another one of the same mail and name.                                  *)
(***************************************************************************)
CONSTANTS
  Files,    \* the bytes of a file
  Names,    \* file names
  NameOf,   \* the name a file is sent under
  Empty     \* the files without a byte, which attachments rejects

ASSUME FilesAssumption == NameOf \in [Files -> Names] /\ Empty \subseteq Files

(* The files that have the key of f in the same mail. *)
SameKey(f) == {g \in Files : NameOf[g] = NameOf[f]}

UploadObject(O, i, f)  == (O \ ({i} \X SameKey(f))) \cup {<<i, f>>}
DeleteObject(O, i, f)  == O \ ({i} \X SameKey(f))

(* A file of F can be downloaded from the mail i; when files of F share a   *)
(* name, one of them is what is there.                                      *)
Downloads(O, i, F) ==
  \A f \in F : \E g \in F \cap SameKey(f) : <<i, g>> \in O
=============================================================================
