------------------------------ MODULE Message ------------------------------
(***************************************************************************)
(* A mail as Postfix carries it: what build of pkg/smtp makes of a letter, *)
(* and what the LMTP server takes out of a mail.  A mail is the sequence   *)
(* of its parts in the order of the text; in is the place of the multipart *)
(* that a part belongs to, and 0 for the first part, the mail itself.      *)
(* Texts, files and file names are values: the encodings and line breaks   *)
(* of the writer are undone by the reader and are left out.                *)
(***************************************************************************)
EXTENDS Naturals, Sequences

CONSTANT Quoted   \* the file names with a quotation mark or a backslash

NoText  == ""
NoName  == ""
Unnamed == "attachment"   \* the name that an attachment without one gets

Part(in, type, content, name) ==
  [in |-> in, type |-> type, content |-> content, name |-> name, decodes |-> TRUE]

(* The mail itself comes first, and each part after its multipart. *)
IsMail(M) ==
  /\ Len(M) \in Nat \ {0} /\ DOMAIN M = 1 .. Len(M)
  /\ M[1].in = 0
  /\ \A k \in 2 .. Len(M) : M[k].in \in 1 .. k - 1 /\ M[M[k].in].type = "multipart"

-----------------------------------------------------------------------------
(* Reading. *)
isAttachment(p) == p.name # NoName
PartsIn(M, k)   == {j \in DOMAIN M : M[j].in = k}
Nested(M, k)    == {j \in PartsIn(M, k) : M[j].type = "multipart" /\ ~ isAttachment(M[j])}

decodeSinglePart(M, k, type) ==
  {j \in PartsIn(M, k) : M[j].type = type /\ ~ isAttachment(M[j]) /\ M[j].decodes}

(* Of the texts at the places S, the first that is not empty. *)
FirstText(S, text) ==
  LET full == {k \in S : text[k] # NoText}
  IN  IF full = {} THEN NoText ELSE text[CHOOSE k \in full : \A j \in full : k <= j]

Texts(M, k, type) ==
  FirstText(decodeSinglePart(M, k, type), [j \in DOMAIN M |-> M[j].content])

(* Mutant: HTML is preferred. *)
HtmlFirst(M, k) ==
  IF Texts(M, k, "html") # NoText THEN Texts(M, k, "html") ELSE Texts(M, k, "plain")

(* The first plain text of a multipart, or else its first HTML; a multipart *)
(* without a boundary is a text itself.                                     *)
OwnText(M, k) ==
  IF PartsIn(M, k) = {} THEN M[k].content
  ELSE IF Texts(M, k, "plain") # NoText THEN Texts(M, k, "plain")
  ELSE Texts(M, k, "html")

(* A multipart is walked before its container is done, and sets the body    *)
(* first.                                                                   *)
Body(M) ==
  LET body[k \in DOMAIN M] ==
        LET inner == FirstText(Nested(M, k), [j \in Nested(M, k) |-> body[j]])
        IN  IF inner # NoText THEN inner ELSE OwnText(M, k)
  IN  body[1]

(* A multipart with a name is an attachment itself, and is not walked. *)
Walked(M) ==
  LET walked[k \in DOMAIN M] ==
        k = 1 \/ (k \in Nested(M, M[k].in) /\ walked[M[k].in])
  IN  {k \in DOMAIN M : walked[k]}

(* A name in quotes that does not end where it should is not read. *)
readDecoded(p) ==
  [data |-> p.content, name |-> IF p.name \in Quoted THEN Unnamed ELSE p.name]

(* What cannot be decoded is left out. *)
walkMultipart(M) ==
  [body  |-> Body(M),
   files |-> {readDecoded(M[k]) : k \in {j \in DOMAIN M :
                M[j].in \in Walked(M) /\ isAttachment(M[j]) /\ M[j].decodes}}]

(* A mail of one part is a text, whatever its type or its disposition. *)
extractContent(M) ==
  IF M[1].type = "multipart" THEN walkMultipart(M)
  ELSE [body |-> M[1].content, files |-> {}]

-----------------------------------------------------------------------------
(* Writing. *)
writeTextPart(in, text) ==
  IF text = NoText THEN <<>> ELSE <<Part(in, "plain", text, NoName)>>

writeHtmlPart(in, html) == <<Part(in, "html", html, NoName)>>

Multipart(in) == <<Part(in, "multipart", NoText, NoName)>>

writeAlternativeBlock(text, html) ==
  Multipart(1) \o writeTextPart(2, text) \o writeHtmlPart(2, html)

writeFilePart(f) == Part(1, "other", f.data, f.name)

(* Mutant: the text is written only if there is no file. *)
buildFiles(text, html, files) ==
  IF files = <<>> THEN <<Part(0, "plain", text, NoName)>>
  ELSE Multipart(0) \o [k \in DOMAIN files |-> writeFilePart(files[k])]

build(text, html, files) ==
  LET content == IF html = NoText THEN writeTextPart(1, text)
                 ELSE IF files = <<>> THEN writeTextPart(1, text) \o writeHtmlPart(1, html)
                 ELSE writeAlternativeBlock(text, html)
  IN  IF html = NoText /\ files = <<>> THEN <<Part(0, "plain", text, NoName)>>
      ELSE Multipart(0) \o content \o [k \in DOMAIN files |-> writeFilePart(files[k])]

=============================================================================
