---------------------------- MODULE MCReceiving ----------------------------
(* Instances of Receiving for TLC: a message to a user and to an address of *)
(* no one, with text, HTML and two files of one name, as build writes it;   *)
(* one to another user, whose first text comes before a multipart with      *)
(* another one, with a file that cannot be decoded; one with HTML, a        *)
(* multipart without a boundary, a text itself, and an empty file; a mail that is a file.   *)
EXTENDS Receiving, TLC

CONSTANTS big, odd, blank, junk, bob, eve, nobody, ann, joe, a, b, g, z, x, y, pdf

MCFromOf == big :> ann @@ odd :> joe @@ blank :> ann @@ junk :> joe
MCRcptOf == big :> {bob, nobody} @@ odd :> {eve} @@ blank :> {eve} @@ junk :> {bob}
MCNameOf == a :> x @@ b :> x @@ g :> x @@ z :> y

File(f) == [data |-> f, name |-> MCNameOf[f]]
Garbled(p) == [p EXCEPT !.decodes = FALSE]

MCPartsOf ==
  big :> build("text", "page", <<File(a), File(b)>>)
    @@ odd :> Multipart(0) \o writeTextPart(1, "before") \o Multipart(1) \o writeHtmlPart(3, "page")
                \o <<Garbled(writeFilePart(File(g)))>>
    @@ blank :> Multipart(0) \o writeHtmlPart(1, "page")
                  \o <<Part(1, "multipart", "loose", NoName), writeFilePart(File(z))>>
    @@ junk :> <<Part(0, "other", pdf, x)>>


Symmetry == Permutations(Ids) \cup Permutations(Connections)
=============================================================================
