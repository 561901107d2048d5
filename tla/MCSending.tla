----------------------------- MODULE MCSending -----------------------------
(* Instances of Sending for TLC: a letter to a user and outside with a file, *)
(* one to a user with three files, two of them of the same name, one to     *)
(* outside without a file, one with an empty file, and one to a local       *)
(* address that nobody has.                                                 *)
EXTENDS Sending, TLC

CONSTANTS wide, local, short, blank, wrong, bob, out, nobody, a, b, c, z, x, y

MCToOf ==
  wide :> {bob, out} @@ local :> {bob} @@ short :> {out} @@ blank :> {bob}
    @@ wrong :> {bob, nobody}
MCFilesOf ==
  wide :> {a} @@ local :> {a, b, c} @@ short :> {} @@ blank :> {z} @@ wrong :> {}
MCTextOf == wide :> "text" @@ local :> "text" @@ short :> "text" @@ blank :> "" @@ wrong :> "text"
MCNameOf == a :> x @@ b :> x @@ c :> y @@ z :> y

Symmetry == Permutations(Ids) \cup Permutations(Slots)
=============================================================================
