---------------------------- MODULE PagingProofs ----------------------------
(***************************************************************************)
(* Proofs about Paging, for any mails, size of a page and number of moves: *)
(* what a client that walks through a list may miss and may see twice, and *)
(* what the first page of all mails shows.  The place of a row, the number *)
(* of rows ahead of it, is what the proofs follow: it grows only when a    *)
(* row comes into the list ahead of it, and shrinks only when one leaves.  *)
(***************************************************************************)
EXTENDS Paging, FiniteSetTheorems, FunctionTheorems, WellFoundedInduction, TLAPS

AnyRow == Mails \X Roles

RowTypes ==
  /\ rows \subseteq AnyRow
  /\ came \in [Mails -> Nat] /\ filed \in [Mails -> Nat]
  /\ flags \in [Mails -> SUBSET Flags]

Types ==
  /\ RowTypes
  /\ walk \in [list : Lists, offset : Nat, step : {"none", "page", "rest", "total", "done"},
               part : SUBSET AnyRow]
  /\ seen \subseteq AnyRow /\ again \subseteq seen
  /\ gone \subseteq AnyRow /\ fresh \subseteq AnyRow

(* What the lists are sorted by. *)
Times == came \in [Mails -> Nat] /\ filed \in [Mails -> Nat]

-----------------------------------------------------------------------------
(* Finite sets of rows and of numbers. *)

LEMMA AnyRowFinite == IsFiniteSet(AnyRow)
<1>1. IsFiniteSet({"received"})
  BY FS_Singleton
<1>2. IsFiniteSet({"received"} \cup {"sent"})
  BY <1>1, FS_AddElement
<1>3. IsFiniteSet(({"received"} \cup {"sent"}) \cup {"draft"})
  BY <1>2, FS_AddElement
<1>4. Roles = ({"received"} \cup {"sent"}) \cup {"draft"}
  BY DEF Roles
<1>5. IsFiniteSet(Roles)
  BY <1>3, <1>4
<1> QED
  BY <1>5, FS_Product, MailsAssumption DEF AnyRow

LEMMA Counted ==
  ASSUME NEW R \in SUBSET AnyRow
  PROVE  IsFiniteSet(R) /\ Cardinality(R) \in Nat
<1>1. IsFiniteSet(R)
  BY AnyRowFinite, FS_Subset
<1> QED
  BY <1>1, FS_CardinalityType

LEMMA Fewer ==
  ASSUME NEW R \in SUBSET AnyRow, NEW Q \in SUBSET R
  PROVE  /\ Cardinality(Q) <= Cardinality(R)
         /\ Q # R => Cardinality(Q) < Cardinality(R)
<1>1. IsFiniteSet(R) /\ Cardinality(R) \in Nat /\ Cardinality(Q) \in Nat
  BY Counted
<1>2. Cardinality(Q) <= Cardinality(R) /\ (Cardinality(R) = Cardinality(Q) => R = Q)
  BY <1>1, FS_Subset
<1> QED
  BY <1>1, <1>2

LEMMA TimeIsNat ==
  ASSUME Times, NEW list, NEW r \in AnyRow
  PROVE  Time(list, r) \in Nat
  BY MailsAssumption DEF Times, Time, AnyRow

(* The order of a list. *)
LEMMA AheadIsOrder ==
  ASSUME Times, NEW list, NEW r \in AnyRow, NEW s \in AnyRow, NEW t \in AnyRow
  PROVE  /\ ~Ahead(list, r, r)
         /\ Ahead(list, r, s) => ~Ahead(list, s, r)
         /\ Ahead(list, r, s) /\ Ahead(list, s, t) => Ahead(list, r, t)
<1>1. Time(list, r) \in Nat /\ Time(list, s) \in Nat /\ Time(list, t) \in Nat
  BY TimeIsNat
<1>2. /\ r[1] = s[1] => Time(list, r) = Time(list, s)
      /\ s[1] = t[1] => Time(list, s) = Time(list, t)
  BY DEF Time
<1> QED
  BY <1>1, <1>2 DEF Ahead

-----------------------------------------------------------------------------
(* The places of the rows of a list. *)

LEMMA PlaceType ==
  ASSUME NEW list, NEW R \in SUBSET AnyRow, NEW r
  PROVE  Place(list, R, r) \in Nat
<1>1. {s \in R : Ahead(list, s, r)} \in SUBSET AnyRow
  OBVIOUS
<1> QED
  BY <1>1, Counted DEF Place

LEMMA PlaceGrows ==
  ASSUME Times, NEW list, NEW R \in SUBSET AnyRow, NEW s \in R, NEW r \in AnyRow,
         Ahead(list, s, r)
  PROVE  Place(list, R, s) < Place(list, R, r)
<1>1. {t \in R : Ahead(list, t, s)} \in SUBSET {t \in R : Ahead(list, t, r)}
  BY AheadIsOrder
<1>2. s \in {t \in R : Ahead(list, t, r)} /\ s \notin {t \in R : Ahead(list, t, s)}
  BY AheadIsOrder
<1>3. {t \in R : Ahead(list, t, r)} \in SUBSET AnyRow
  OBVIOUS
<1> QED
  BY <1>1, <1>2, <1>3, Fewer DEF Place

LEMMA PlaceInside ==
  ASSUME Times, NEW list, NEW R \in SUBSET AnyRow, NEW r \in R
  PROVE  Place(list, R, r) < Cardinality(R)
<1>1. {t \in R : Ahead(list, t, r)} \in SUBSET R
  OBVIOUS
<1>2. r \notin {t \in R : Ahead(list, t, r)}
  BY AheadIsOrder
<1> QED
  BY <1>1, <1>2, Fewer DEF Place

(* The more rows, the later the place. *)
LEMMA PlaceOfMore ==
  ASSUME NEW list, NEW R \in SUBSET AnyRow, NEW Q \in SUBSET R, NEW r
  PROVE  Place(list, Q, r) <= Place(list, R, r)
<1>1. {t \in Q : Ahead(list, t, r)} \in SUBSET {t \in R : Ahead(list, t, r)}
  OBVIOUS
<1>2. {t \in R : Ahead(list, t, r)} \in SUBSET AnyRow
  OBVIOUS
<1> QED
  BY <1>1, <1>2, Fewer DEF Place

(* No two rows of R have the same place. *)
Sorted(list, R) == \A r, s \in R : r = s \/ Ahead(list, r, s) \/ Ahead(list, s, r)

LEMMA PlacesDiffer ==
  ASSUME Times, NEW list, NEW R \in SUBSET AnyRow, Sorted(list, R),
         NEW r \in R, NEW s \in R, r # s
  PROVE  Place(list, R, r) # Place(list, R, s)
<1>1. Place(list, R, r) \in Nat /\ Place(list, R, s) \in Nat
  BY PlaceType
<1>2. CASE Ahead(list, r, s)
  BY <1>1, <1>2, PlaceGrows
<1>3. CASE Ahead(list, s, r)
  BY <1>1, <1>3, PlaceGrows
<1> QED
  BY <1>2, <1>3 DEF Sorted

(* A page has at most Limit rows. *)
LEMMA PageIsSmall ==
  ASSUME Times, NEW list, NEW R \in SUBSET AnyRow, Sorted(list, R), NEW offset \in Nat
  PROVE  Cardinality(Page(list, R, offset)) <= Limit
<1>. DEFINE P == Page(list, R, offset)
            f == [r \in P |-> Place(list, R, r)]
            I == offset .. offset + Limit - 1
<1>1. P \subseteq R
  BY DEF Page
<1>2. f \in Injection(P, I)
  <2>1. f \in [P -> I]
    BY DEF Page
  <2>2. \A r, s \in P : f[r] = f[s] => r = s
    BY <1>1, PlacesDiffer
  <2> QED
    BY <2>1, <2>2 DEF Injection, IsInjective
<1>3. IsFiniteSet(I) /\ Cardinality(I) = Limit
  BY FS_Interval, LimitAssumption
<1> QED
  BY <1>2, <1>3, FS_Injection

(* The first n places are all taken. *)
LEMMA PlacesAreTaken ==
  ASSUME Times, NEW list, NEW R \in SUBSET AnyRow, Sorted(list, R), NEW n \in Nat,
         n <= Cardinality(R)
  PROVE  Cardinality({r \in R : Place(list, R, r) < n}) = n
<1>. DEFINE T == {r \in R : Place(list, R, r) < n}
            f == [r \in R |-> Place(list, R, r)]
            g == [r \in T |-> Place(list, R, r)]
<1>0. IsFiniteSet(R) /\ Cardinality(R) \in Nat
  BY Counted
<1>1. \A r \in R : Place(list, R, r) \in 0 .. Cardinality(R) - 1
  BY <1>0, PlaceType, PlaceInside
<1>2. f \in Injection(R, 0 .. Cardinality(R) - 1)
  <2>1. f \in [R -> 0 .. Cardinality(R) - 1]
    BY <1>1
  <2>2. \A r, s \in R : f[r] = f[s] => r = s
    BY PlacesDiffer
  <2> QED
    BY <2>1, <2>2 DEF Injection, IsInjective
<1>3. IsFiniteSet(0 .. Cardinality(R) - 1) /\ Cardinality(0 .. Cardinality(R) - 1) = Cardinality(R)
  <2>1. PICK m \in Nat : m = Cardinality(R)
    BY <1>0
  <2>2. IsFiniteSet(0 .. m - 1) /\ Cardinality(0 .. m - 1) = m
    BY FS_Interval
  <2> QED
    BY <2>1, <2>2
<1>4. f \in Surjection(R, 0 .. Cardinality(R) - 1)
  BY <1>2, <1>3, FS_Injection
<1>5. \A i \in 0 .. Cardinality(R) - 1 : \E r \in R : f[r] = i
  BY <1>4 DEF Surjection
<1>6. g \in Injection(T, 0 .. n - 1)
  <2>1. g \in [T -> 0 .. n - 1]
    BY <1>1, <1>0
  <2>2. \A r, s \in T : g[r] = g[s] => r = s
    BY PlacesDiffer
  <2> QED
    BY <2>1, <2>2 DEF Injection, IsInjective
<1>7. g \in Surjection(T, 0 .. n - 1)
  <2>1. ASSUME NEW i \in 0 .. n - 1
        PROVE  \E r \in T : g[r] = i
    <3>1. PICK r \in R : f[r] = i
      BY <1>0, <1>5
    <3>2. r \in T
      BY <3>1
    <3> QED
      BY <3>1, <3>2
  <2> QED
    BY <1>6, <2>1 DEF Surjection, Injection
<1>8. IsFiniteSet(0 .. n - 1) /\ Cardinality(0 .. n - 1) = n
  BY FS_Interval
<1>9. Cardinality(T) = Cardinality(0 .. n - 1)
  BY <1>6, <1>7, <1>8, FS_Injection
<1> QED
  BY <1>8, <1>9

(* Whoever has the first rows of R ahead of him has a page full of them. *)
LEMMA BehindAPage ==
  ASSUME Times, NEW list, NEW R \in SUBSET AnyRow, Sorted(list, R), NEW r \in AnyRow,
         Place(list, R, r) >= Limit,
         NEW Q \in SUBSET AnyRow, \A s \in R : Place(list, R, s) < Limit => s \in Q
  PROVE  Place(list, Q, r) >= Limit
<1>. DEFINE X == {s \in R : Ahead(list, s, r)}
            T == {s \in X : Place(list, X, s) < Limit}
<1>1. X \in SUBSET R /\ X \in SUBSET AnyRow /\ T \in SUBSET X
  OBVIOUS
<1>2. Cardinality(X) >= Limit /\ Cardinality(X) \in Nat /\ Limit \in Nat
  BY <1>1, Counted, LimitAssumption DEF Place
<1>3. Sorted(list, X)
  BY <1>1 DEF Sorted
<1>4. Cardinality(T) = Limit
  BY <1>1, <1>2, <1>3, PlacesAreTaken
<1>5. ASSUME NEW s \in T
      PROVE  s \in Q /\ Ahead(list, s, r)
  <2>1. s \in R /\ s \in AnyRow /\ Ahead(list, s, r) /\ Place(list, X, s) < Limit
    BY <1>1
  <2>2. \A t \in R : Ahead(list, t, s) => t \in X
    BY <2>1, AheadIsOrder
  <2>3. {t \in R : Ahead(list, t, s)} = {t \in X : Ahead(list, t, s)}
    BY <1>1, <2>2
  <2>4. Place(list, R, s) = Place(list, X, s)
    BY <2>3 DEF Place
  <2> QED
    BY <2>1, <2>4
<1>6. T \in SUBSET {s \in Q : Ahead(list, s, r)} /\ {s \in Q : Ahead(list, s, r)} \in SUBSET AnyRow
  BY <1>5
<1> QED
  BY <1>2, <1>4, <1>6, Fewer, Counted DEF Place

-----------------------------------------------------------------------------
(* The rows of the lists. *)

(* A row has a place in the order of arrival once it is no draft, and the   *)
(* flags of a mail, but for a removed draft's, come after its arrival.      *)
RowsInv ==
  /\ \A e \in Mails : came[e] = 0 => flags[e] \subseteq {"removed"}
  /\ \A e \in Mails : came[e] # 0 => \E r \in rows : r[1] = e
  /\ \A r \in rows : came[r[1]] = 0 <=> r[2] = "draft"
  /\ \A e, f \in Mails : came[e] = came[f] /\ came[e] # 0 => e = f
  /\ \A e, f \in Mails : filed[e] = filed[f] /\ filed[e] # 0 => e = f
  /\ \A e \in Mails : "kept" \in flags[e] => filed[e] # 0
  /\ \A e \in Mails : "spam" \in flags[e] => <<e, "sent">> \notin rows

(* What is known of the time of a row that was in a list. *)
Timed(list, r) ==
  /\ list \notin {"sent", "all", "drafts"} => Time(list, r) # 0
  /\ list = "folder" => r[2] = "received"

LEMMA ShownIsRows ==
  ASSUME RowTypes, NEW list
  PROVE  Shown(list) \in SUBSET rows /\ Shown(list) \in SUBSET AnyRow
  BY DEF RowTypes, Shown, Among

LEMMA ShownIsTimed ==
  ASSUME RowTypes, RowsInv, NEW list \in Lists \cup {"received"}, NEW r \in Shown(list)
  PROVE  Timed(list, r)
<1>1. r \in rows /\ r[1] \in Mails /\ r[2] \in Roles
  BY ShownIsRows DEF RowTypes, AnyRow
<1>2. list # "all" => Matches(list, flags[r[1]], r[2])
  BY DEF Shown, Among
<1>3. came[r[1]] = 0 => flags[r[1]] \subseteq {"removed"} /\ r[2] = "draft"
  BY <1>1 DEF RowsInv
<1>4. "kept" \in flags[r[1]] => filed[r[1]] # 0
  BY <1>1 DEF RowsInv
<1>5. CASE list = "folder"
  BY <1>2, <1>4, <1>5 DEF Timed, Time, Matches
<1>6. CASE list \in {"sent", "all", "drafts"}
  BY <1>6 DEF Timed
<1>7. CASE list \in {"inbox", "received"}
  BY <1>2, <1>3, <1>7 DEF Timed, Time, Matches
<1>8. CASE list \in {"spam", "trash", "favorites"}
  BY <1>2, <1>3, <1>8 DEF Timed, Time, Matches
<1> QED
  BY <1>5, <1>6, <1>7, <1>8 DEF Lists

(* Two rows that are sorted by the number of their mail. *)
LEMMA NumberedSorted ==
  ASSUME NEW list \in {"sent", "all", "drafts"}, NEW r \in AnyRow, NEW s \in AnyRow,
         r # s, r[1] = s[1] => "received" \in {r[2], s[2]}
  PROVE  Ahead(list, r, s) \/ Ahead(list, s, r)
<1>1. r = <<r[1], r[2]>> /\ s = <<s[1], s[2]>> /\ r[1] \in Nat /\ s[1] \in Nat
  <2>1. r = <<r[1], r[2]>> /\ r[1] \in Mails
    BY DEF AnyRow
  <2>2. s = <<s[1], s[2]>> /\ s[1] \in Mails
    BY DEF AnyRow
  <2> QED
    BY <2>1, <2>2, MailsAssumption
<1>2. Time(list, r) = r[1] /\ Time(list, s) = s[1]
  BY DEF Time
<1> QED
  BY <1>1, <1>2 DEF Ahead

LEMMA ShownIsSorted ==
  ASSUME RowTypes, RowsInv, NEW list \in Lists \cup {"received"}
  PROVE  Sorted(list, Shown(list))
<1>. SUFFICES ASSUME NEW r \in Shown(list), NEW s \in Shown(list), r # s
              PROVE  Ahead(list, r, s) \/ Ahead(list, s, r)
  BY DEF Sorted
<1>1. /\ r \in rows /\ r[1] \in Mails /\ r[2] \in Roles /\ r = <<r[1], r[2]>>
      /\ s \in rows /\ s[1] \in Mails /\ s[2] \in Roles /\ s = <<s[1], s[2]>>
      /\ r \in AnyRow /\ s \in AnyRow
  BY ShownIsRows DEF RowTypes, AnyRow
<1>2. /\ list # "all" => Matches(list, flags[r[1]], r[2]) /\ Matches(list, flags[s[1]], s[2])
      /\ list = "all" => {r[2], s[2]} \subseteq {"received", "sent"}
  BY DEF Shown, Among, Matches
<1>3. list \notin {"sent", "all", "drafts"} => Time(list, r) # 0 /\ Time(list, s) # 0
  BY ShownIsTimed DEF Timed
<1>4. list # "drafts" /\ r[1] = s[1] => "received" \in {r[2], s[2]}
  <2>. SUFFICES ASSUME list # "drafts", r[1] = s[1], r[2] # "received", s[2] # "received"
                PROVE  FALSE
    OBVIOUS
  <2>1. r[2] # s[2]
    BY <1>1
  <2>2. {r[2], s[2]} = {"draft", "sent"}
    <3>1. r[2] \in Roles /\ s[2] \in Roles
      BY <1>1
    <3> QED
      BY <3>1, <2>1 DEF Roles
  <2> QED
    BY <1>1, <2>2 DEF RowsInv
<1>5. CASE list \in {"sent", "all"}
  BY <1>1, <1>4, <1>5, NumberedSorted
<1>6. CASE list = "drafts"
  <2>1. r[1] # s[1]
    BY <1>1, <1>2, <1>6 DEF Matches
  <2> QED
    BY <1>1, <1>6, <2>1, NumberedSorted
<1>7. CASE list \notin {"sent", "all", "drafts"}
  <2>1. Time(list, r) \in Nat /\ Time(list, s) \in Nat
    BY <1>1, TimeIsNat DEF RowTypes, Times
  <2>2. Time(list, r) = Time(list, s) => r[1] = s[1]
    BY <1>1, <1>3, <1>7 DEF Time, RowsInv
  <2>3. r[1] = s[1] => r[2] # s[2]
    BY <1>1
  <2> QED
    BY <1>4, <1>7, <2>1, <2>2, <2>3 DEF Ahead
<1> QED
  BY <1>5, <1>6, <1>7

-----------------------------------------------------------------------------
(* The steps that change the rows. *)

Moving ==
  \E e \in Mails :
    \/ \E R \in {{"received"}, {"sent"}, {"received", "sent"}}, F \in {{}, {"spam"}},
         place \in 1 .. Cardinality(Arrived) + 1 : Deliver(e, R, F, place)
    \/ CreateDraft(e)
    \/ DeleteDrafts(e)
    \/ Moves(e)

(* A step on the flags of a mail that is no draft. *)
Flagging(e, F) ==
  /\ Sets(e, F) /\ F \subseteq Flags
  /\ came[e] # 0 /\ "removed" \notin flags[e]
  /\ "spam" \in F => "spam" \in flags[e] \/ <<e, "sent">> \notin rows

LEMMA MovesFlag ==
  ASSUME RowTypes, NEW e \in Mails, Moves(e)
  PROVE  \/ AddEmailToFolder(e) /\ Flagging(e, flags[e] \cup {"kept"})
         \/ \E F : Flagging(e, F) /\ UNCHANGED filed /\ ("kept" \in F => "kept" \in flags[e])
<1>1. flags[e] \subseteq Flags /\ came[e] # 0 /\ "removed" \notin flags[e]
  BY DEF RowTypes, Moves
<1>2. "sent" \notin RolesOf(e) => <<e, "sent">> \notin rows
  BY DEF RolesOf
<1>3. CASE AddEmailToFolder(e)
  BY <1>1, <1>3 DEF AddEmailToFolder, Flagging, Flags
<1>. DEFINE Goal(F) == Flagging(e, F) /\ UNCHANGED filed /\ ("kept" \in F => "kept" \in flags[e])
<1>4. CASE DeleteEmailFromFolder(e)
  <2>1. Goal(flags[e] \ {"kept"})
    BY <1>1, <1>4 DEF DeleteEmailFromFolder, Flagging
  <2> QED
    BY <2>1
<1>5. CASE TrashEmails(e) /\ UNCHANGED filed
  <2>1. Goal(flags[e] \cup {"deleted"})
    BY <1>1, <1>5 DEF TrashEmails, Flagging, Flags
  <2> QED
    BY <2>1
<1>6. CASE UntrashEmails(e) /\ UNCHANGED filed
  <2>1. Goal(flags[e] \ {"deleted"})
    BY <1>1, <1>6 DEF UntrashEmails, Flagging
  <2> QED
    BY <2>1
<1>7. CASE SpamEmails(e) /\ UNCHANGED filed
  <2>1. Goal((flags[e] \cup {"spam"}) \ {"starred", "deleted"})
    BY <1>1, <1>2, <1>7 DEF SpamEmails, Flagging, Flags
  <2> QED
    BY <2>1
<1>8. CASE UnspamEmails(e) /\ UNCHANGED filed
  <2>1. Goal(flags[e] \ {"spam"})
    BY <1>1, <1>8 DEF UnspamEmails, Flagging
  <2> QED
    BY <2>1
<1>9. CASE StarEmails(e) /\ UNCHANGED filed
  <2>1. Goal(flags[e] \cup {"starred"})
    BY <1>1, <1>9 DEF StarEmails, Flagging, Flags
  <2> QED
    BY <2>1
<1>10. CASE UnstarEmails(e) /\ UNCHANGED filed
  <2>1. Goal(flags[e] \ {"starred"})
    BY <1>1, <1>10 DEF UnstarEmails, Flagging
  <2> QED
    BY <2>1
<1>11. CASE SwitchIsInbox(e) /\ UNCHANGED filed
  <2>1. Goal((flags[e] \cup {"out"}) \ (flags[e] \cap {"out"}))
    BY <1>1, <1>11 DEF SwitchIsInbox, Flagging, Flags
  <2> QED
    BY <2>1
<1>12. CASE DeleteUserEmailsBatch(e) /\ UNCHANGED filed
  <2>1. Goal(flags[e] \cup {"removed"})
    BY <1>1, <1>12 DEF DeleteUserEmailsBatch, Flagging, Flags
  <2> QED
    BY <2>1
<1> QED
  BY <1>3, <1>4, <1>5, <1>6, <1>7, <1>8, <1>9, <1>10, <1>11, <1>12 DEF Moves

(* A set of numbers has a least one. *)
LEMMA LessIs ==
  \E O : IsWellFoundedOn(O, Nat) /\ \A m, n \in Nat : m < n => <<m, n>> \in O
<1>1. PICK O : O = OpToRel(<, Nat)
  OBVIOUS
<1>2. IsWellFoundedOn(O, Nat)
  BY <1>1, NatLessThanWellFounded, Zenon
<1>3. \A m, n \in Nat : m < n => <<m, n>> \in O
  BY <1>1 DEF OpToRel
<1> QED
  BY <1>2, <1>3

LEMMA Least ==
  ASSUME NEW T, T \subseteq Nat, T # {}
  PROVE  \E x \in T : \A y \in T : x <= y
<1>1. PICK O : IsWellFoundedOn(O, Nat) /\ \A m, n \in Nat : m < n => <<m, n>> \in O
  BY LessIs
<1>2. IsWellFoundedOn(O, Nat)
  BY <1>1
<1>3. \E x \in T : \A y \in T : ~ (<<y, x>> \in O)
  BY <1>2, WFMin
<1>4. PICK x \in T : \A y \in T : ~ (<<y, x>> \in O)
  BY <1>3
<1>5. ASSUME NEW y \in T
      PROVE  x <= y
  <2>1. x \in Nat /\ y \in Nat
    OBVIOUS
  <2>2. ~ (y < x)
    BY <1>1, <1>4, <2>1
  <2> QED
    BY <2>1, <2>2
<1> QED
  BY <1>5

(* The times of filing have a highest one: of a mail that fewest mails were *)
(* filed after.                                                             *)
LEMMA Highest ==
  ASSUME RowTypes, Mails # {}
  PROVE  /\ Max({filed[f] : f \in Mails}) \in Nat
         /\ \A f \in Mails : filed[f] <= Max({filed[g] : g \in Mails})
<1>. DEFINE After(e) == {f \in Mails : filed[f] > filed[e]}
            N == {Cardinality(After(e)) : e \in Mails}
            S == {filed[f] : f \in Mails}
<1>1. \A e \in Mails : IsFiniteSet(After(e)) /\ Cardinality(After(e)) \in Nat
  BY MailsAssumption, FS_Subset, FS_CardinalityType
<1>2. N \subseteq Nat /\ N # {}
  BY <1>1
<1>3. PICK n \in N : \A m \in N : n <= m
  BY <1>2, Least
<1>4. PICK e \in Mails : n = Cardinality(After(e))
  BY <1>3
<1>5. ASSUME NEW f \in Mails, filed[f] > filed[e]
      PROVE  FALSE
  <2>1. filed[f] \in Nat /\ filed[e] \in Nat
    BY DEF RowTypes
  <2>2. \A g \in Mails : filed[g] \in Nat
    BY DEF RowTypes
  <2>3. After(f) \in SUBSET After(e) /\ f \in After(e) /\ f \notin After(f)
    BY <1>5, <2>1, <2>2
  <2>4. Cardinality(After(f)) <= Cardinality(After(e)) /\ Cardinality(After(f)) # Cardinality(After(e))
    BY <1>1, <2>3, FS_Subset
  <2>5. Cardinality(After(e)) <= Cardinality(After(f))
    BY <1>3, <1>4
  <2> QED
    BY <1>1, <2>4, <2>5
<1>6. filed[e] \in S /\ \A x \in S : filed[e] >= x
  BY <1>5 DEF RowTypes
<1>7. Max(S) \in S /\ \A x \in S : Max(S) >= x
  BY <1>6 DEF Max
<1> QED
  BY <1>7 DEF RowTypes

-----------------------------------------------------------------------------
(* No step changes the order of two rows, but the filing of a mail, which   *)
(* puts it on top of the folder and was not there before.                   *)
Steady ==
  \A list \in Lists, r, s \in AnyRow :
    Timed(list, r) =>
      /\ Timed(list, r)'
      /\ Ahead(list, s, r) =>
           \/ Ahead(list, s, r)'
           \/ list = "folder" /\ r \in Shown(list)' \ Shown(list)

(* The order of arrival is kept. *)
InOrder ==
  \A e, f \in Mails :
    /\ came[e] # 0 => came'[e] # 0
    /\ came[f] # 0 /\ came[e] > came[f] => came'[e] > came'[f]

LEMMA SteadyTimes ==
  ASSUME RowTypes, RowTypes', InOrder, UNCHANGED filed
  PROVE  Steady
<1>. SUFFICES ASSUME NEW list \in Lists, NEW r \in AnyRow, NEW s \in AnyRow, Timed(list, r)
              PROVE  Timed(list, r)' /\ (Ahead(list, s, r) => Ahead(list, s, r)')
  BY DEF Steady
<1>1. r[1] \in Mails /\ s[1] \in Mails
  BY DEF AnyRow
<1>2. CASE list \in {"sent", "all", "drafts"}
  BY <1>2 DEF Timed, Time, Ahead
<1>3. CASE list = "folder"
  BY <1>3 DEF Timed, Time, Ahead
<1>4. CASE list \notin {"sent", "all", "drafts", "folder"}
  <2>1. /\ Time(list, r) = came[r[1]] /\ Time(list, r)' = came'[r[1]]
        /\ Time(list, s) = came[s[1]] /\ Time(list, s)' = came'[s[1]]
    BY <1>4 DEF Time
  <2>2. came[r[1]] # 0
    BY <1>4, <2>1 DEF Timed
  <2> QED
    BY <1>1, <1>4, <2>1, <2>2 DEF Timed, Ahead, InOrder
<1> QED
  BY <1>2, <1>3, <1>4

(* A mail that arrives comes between others. *)
LEMMA DeliverKeeps ==
  ASSUME RowTypes, RowsInv, NEW e \in Mails, NEW R \in {{"received"}, {"sent"}, {"received", "sent"}},
         NEW F \in {{}, {"spam"}}, NEW place \in 1 .. Cardinality(Arrived) + 1,
         Deliver(e, R, F, place)
  PROVE  RowTypes' /\ RowsInv' /\ Steady
<1>1. place \in Nat /\ place # 0
  <2>1. Arrived \in SUBSET Mails
    BY DEF Arrived
  <2>2. Cardinality(Arrived) \in Nat
    BY <2>1, MailsAssumption, FS_Subset, FS_CardinalityType
  <2> QED
    BY <2>2
<1>2. /\ came[e] = 0 /\ UNCHANGED filed
      /\ rows' = {r \in rows : r[1] # e} \cup ({e} \X R)
      /\ flags' = [flags EXCEPT ![e] = F]
      /\ came' = [f \in Mails |-> IF f = e THEN place
                                 ELSE IF came[f] >= place THEN came[f] + 1 ELSE came[f]]
  BY DEF Deliver
<1>3. \A f \in Mails : came[f] \in Nat /\ filed[f] \in Nat /\ flags[f] \subseteq Flags
  BY DEF RowTypes
<1>4. came'[e] = place /\ came' \in [Mails -> Nat]
  BY <1>1, <1>2, <1>3
<1>5. \A f \in Mails : f # e => came'[f] = IF came[f] >= place THEN came[f] + 1 ELSE came[f]
  BY <1>2
<1>6. flags'[e] = F /\ \A f \in Mails : f # e => flags'[f] = flags[f]
  BY <1>2 DEF RowTypes
<1>7. RowTypes'
  <2>1. {e} \X R \subseteq AnyRow
    BY DEF AnyRow, Roles
  <2>2. rows' \subseteq AnyRow
    BY <1>2, <2>1 DEF RowTypes
  <2>3. flags' \in [Mails -> SUBSET Flags]
    BY <1>2 DEF RowTypes, Flags
  <2> QED
    BY <1>2, <1>4, <2>2, <2>3 DEF RowTypes
<1>8. RowsInv'
  <2>1. ASSUME NEW f \in Mails, came'[f] = 0
        PROVE  flags'[f] \subseteq {"removed"}
    <3>1. f # e
      BY <1>1, <1>4, <2>1
    <3>2. came[f] = 0
      BY <1>1, <1>3, <1>5, <2>1, <3>1
    <3> QED
      BY <1>6, <3>1, <3>2 DEF RowsInv
  <2>2. ASSUME NEW r \in rows'
        PROVE  came'[r[1]] = 0 <=> r[2] = "draft"
    <3>1. CASE r \in {e} \X R
      <4>1. r[1] = e /\ r[2] \in R
        BY <3>1
      <4> QED
        BY <1>1, <1>4, <4>1
    <3>2. CASE r \in rows /\ r[1] # e
      <4>1. r[1] \in Mails /\ (came[r[1]] = 0 <=> r[2] = "draft")
        BY <3>2 DEF RowTypes, AnyRow, RowsInv
      <4> QED
        BY <1>1, <1>3, <1>5, <3>2, <4>1
    <3> QED
      BY <1>2, <2>2, <3>1, <3>2
  <2>3. ASSUME NEW f \in Mails, NEW g \in Mails, came'[f] = came'[g], came'[f] # 0
        PROVE  f = g
    <3>1. CASE f # e /\ g # e
      <4>1. came[f] = came[g] /\ came[f] # 0
        BY <1>1, <1>3, <1>5, <2>3, <3>1
      <4> QED
        BY <4>1 DEF RowsInv
    <3>2. f # e => came'[f] # place
      BY <1>1, <1>3, <1>5
    <3>3. g # e => came'[g] # place
      BY <1>1, <1>3, <1>5
    <3> QED
      BY <1>4, <2>3, <3>1, <3>2, <3>3
  <2>4. ASSUME NEW f \in Mails, "kept" \in flags'[f]
        PROVE  filed'[f] # 0
    BY <1>2, <1>6, <2>4 DEF RowsInv
  <2>5. ASSUME NEW f \in Mails, "spam" \in flags'[f]
        PROVE  <<f, "sent">> \notin rows'
    <3>1. CASE f = e
      <4>1. R = {"received"}
        BY <1>6, <2>5, <3>1 DEF Deliver
      <4> QED
        BY <1>2, <3>1, <4>1
    <3>2. CASE f # e
      BY <1>2, <1>6, <2>5, <3>2 DEF RowsInv
    <3> QED
      BY <3>1, <3>2
  <2>6. \A f, g \in Mails : filed'[f] = filed'[g] /\ filed'[f] # 0 => f = g
    BY <1>2 DEF RowsInv
  <2>7. ASSUME NEW f \in Mails, came'[f] # 0
        PROVE  \E r \in rows' : r[1] = f
    <3>1. CASE f = e
      <4>0. R # {}
        OBVIOUS
      <4>1. PICK role : role \in R
        BY <4>0
      <4>2. <<e, role>> \in rows'
        BY <1>2, <4>1
      <4> QED
        BY <3>1, <4>2
    <3>2. CASE f # e
      <4>1. PICK r \in rows : r[1] = f
        BY <1>3, <1>5, <2>7, <3>2 DEF RowsInv
      <4> QED
        BY <1>2, <3>2, <4>1
    <3> QED
      BY <3>1, <3>2
  <2> QED
    BY <2>1, <2>2, <2>3, <2>4, <2>5, <2>6, <2>7 DEF RowsInv
<1>9. InOrder
  <2>1. ASSUME NEW f \in Mails, NEW g \in Mails
        PROVE  /\ came[f] # 0 => came'[f] # 0
               /\ came[g] # 0 /\ came[f] > came[g] => came'[f] > came'[g]
    BY <1>1, <1>2, <1>3, <1>4, <1>5
  <2> QED
    BY <2>1 DEF InOrder
<1> QED
  BY <1>2, <1>7, <1>8, <1>9, SteadyTimes

LEMMA CreateDraftKeeps ==
  ASSUME RowTypes, RowsInv, NEW e \in Mails, CreateDraft(e)
  PROVE  RowTypes' /\ RowsInv' /\ Steady
<1>1. rows' = rows \cup {<<e, "draft">>} /\ UNCHANGED <<came, filed, flags>>
  BY DEF CreateDraft
<1>2. <<e, "draft">> \in AnyRow
  BY DEF AnyRow, Roles
<1>3. RowTypes'
  BY <1>1, <1>2 DEF RowTypes
<1>4. RowsInv'
  <2>0. came[e] = 0
    BY DEF CreateDraft, RolesOf, RowsInv
  <2>1. ASSUME NEW r \in rows'
        PROVE  came'[r[1]] = 0 <=> r[2] = "draft"
    BY <1>1, <2>0 DEF RowsInv
  <2>2. ASSUME NEW f \in Mails, "spam" \in flags'[f]
        PROVE  <<f, "sent">> \notin rows'
    BY <1>1, <2>2 DEF RowsInv
  <2> QED
    BY <1>1, <2>1, <2>2 DEF RowsInv
<1>5. InOrder
  BY <1>1 DEF InOrder
<1> QED
  BY <1>1, <1>3, <1>4, <1>5, SteadyTimes

(* A step on the flags that files nothing. *)
LEMMA FlaggingKeeps ==
  ASSUME RowTypes, RowsInv, NEW e \in Mails, NEW F \in SUBSET Flags, Sets(e, F),
         UNCHANGED filed,
         came[e] = 0 => F \subseteq {"removed"},
         "spam" \in F => "spam" \in flags[e] \/ <<e, "sent">> \notin rows,
         "kept" \in F => "kept" \in flags[e]
  PROVE  RowTypes' /\ RowsInv' /\ Steady
<1>1. flags' = [flags EXCEPT ![e] = F] /\ UNCHANGED <<rows, came, filed>>
  BY DEF Sets
<1>2. RowTypes'
  BY <1>1 DEF RowTypes
<1>3. flags'[e] = F /\ \A f \in Mails : f # e => flags'[f] = flags[f]
  BY <1>1 DEF RowTypes
<1>4. RowsInv'
  <2>1. ASSUME NEW f \in Mails
        PROVE  /\ came'[f] = 0 => flags'[f] \subseteq {"removed"}
               /\ "kept" \in flags'[f] => filed'[f] # 0
               /\ "spam" \in flags'[f] => <<f, "sent">> \notin rows'
    <3>1. CASE f = e
      BY <1>1, <1>3, <3>1 DEF RowsInv
    <3>2. CASE f # e
      BY <1>1, <1>3, <3>2 DEF RowsInv
    <3> QED
      BY <3>1, <3>2
  <2> QED
    BY <1>1, <2>1 DEF RowsInv
<1>5. InOrder
  BY <1>1 DEF InOrder
<1> QED
  BY <1>1, <1>2, <1>4, <1>5, SteadyTimes

(* A mail that is filed comes on top of the folder. *)
LEMMA FilingKeeps ==
  ASSUME RowTypes, RowsInv, NEW e \in Mails, AddEmailToFolder(e),
         Flagging(e, flags[e] \cup {"kept"})
  PROVE  RowTypes' /\ RowsInv' /\ Steady
<1>. DEFINE top == 1 + Max({filed[f] : f \in Mails})
<1>1. /\ flags' = [flags EXCEPT ![e] = flags[e] \cup {"kept"}] /\ UNCHANGED <<rows, came>>
      /\ filed' = [filed EXCEPT ![e] = top]
  BY DEF AddEmailToFolder, Sets
<1>2. "kept" \notin flags[e] /\ "removed" \notin flags[e] /\ came[e] # 0 /\ <<e, "received">> \in rows
  <2>1. "kept" \notin flags[e]
    BY DEF AddEmailToFolder, Sets
  <2>2. PICK s \in rows : s[1] = e /\ s[2] = "received"
    BY DEF AddEmailToFolder, RolesOf
  <2>3. s = <<e, "received">>
    BY <2>2 DEF RowTypes, AnyRow
  <2> QED
    BY <2>1, <2>2, <2>3 DEF Flagging
<1>3. top \in Nat /\ top # 0 /\ \A f \in Mails : filed[f] \in Nat /\ filed[f] < top
  <2>1. Max({filed[f] : f \in Mails}) \in Nat /\ \A f \in Mails : filed[f] <= Max({filed[g] : g \in Mails})
    BY Highest
  <2>2. \A f \in Mails : filed[f] \in Nat
    BY DEF RowTypes
  <2>3. ASSUME NEW m \in Nat, \A f \in Mails : filed[f] <= m
        PROVE  \A f \in Mails : filed[f] < 1 + m
    BY <2>2, <2>3
  <2> QED
    BY <2>1, <2>2, <2>3
<1>4. /\ flags'[e] = flags[e] \cup {"kept"} /\ \A f \in Mails : f # e => flags'[f] = flags[f]
      /\ filed'[e] = top /\ \A f \in Mails : f # e => filed'[f] = filed[f]
  BY <1>1 DEF RowTypes
<1>5. RowTypes'
  BY <1>1, <1>3 DEF RowTypes, Flags
<1>6. RowsInv'
  <2>1. ASSUME NEW f \in Mails
        PROVE  /\ came'[f] = 0 => flags'[f] \subseteq {"removed"}
               /\ "kept" \in flags'[f] => filed'[f] # 0
               /\ "spam" \in flags'[f] => <<f, "sent">> \notin rows'
    <3>1. CASE f = e
      BY <1>1, <1>2, <1>3, <1>4, <3>1 DEF RowsInv
    <3>2. CASE f # e
      BY <1>1, <1>4, <3>2 DEF RowsInv
    <3> QED
      BY <3>1, <3>2
  <2>2. ASSUME NEW f \in Mails, NEW g \in Mails, filed'[f] = filed'[g], filed'[f] # 0
        PROVE  f = g
    <3>1. f # e => filed'[f] # top
      BY <1>3, <1>4
    <3>2. g # e => filed'[g] # top
      BY <1>3, <1>4
    <3>3. CASE f # e /\ g # e
      BY <1>4, <2>2, <3>3 DEF RowsInv
    <3> QED
      BY <1>4, <2>2, <3>1, <3>2, <3>3
  <2> QED
    BY <1>1, <2>1, <2>2 DEF RowsInv
<1>7. Steady
  <2>. SUFFICES ASSUME NEW list \in Lists, NEW r \in AnyRow, NEW s \in AnyRow, Timed(list, r)
                PROVE  /\ Timed(list, r)'
                       /\ Ahead(list, s, r) =>
                            \/ Ahead(list, s, r)'
                            \/ list = "folder" /\ r \in Shown(list)' \ Shown(list)
    BY DEF Steady
  <2>1. CASE list # "folder"
    BY <1>1, <2>1 DEF Timed, Time, Ahead
  <2>2. CASE list = "folder" /\ r[1] = e
    <3>1. r[2] = "received" /\ r = <<e, "received">>
      BY <2>2 DEF Timed, AnyRow
    <3>2. r \in Shown(list)'
      BY <1>1, <1>2, <1>4, <2>2, <3>1 DEF Shown, Among, Matches
    <3>3. r \notin Shown(list)
      BY <1>2, <2>2 DEF Shown, Among, Matches
    <3>4. Timed(list, r)'
      BY <1>3, <1>4, <2>2, <3>1 DEF Timed, Time
    <3> QED
      BY <2>2, <3>2, <3>3, <3>4
  <2>3. CASE list = "folder" /\ r[1] # e
    <3>1. r[1] \in Mails /\ s[1] \in Mails
      BY DEF AnyRow
    <3>2. /\ Time(list, r)' = Time(list, r) /\ Time(list, r) < top
          /\ Time(list, r) \in Nat
      BY <1>3, <1>4, <2>3, <3>1 DEF Time
    <3>3. Time(list, s)' = IF s[1] = e THEN top ELSE Time(list, s)
      BY <1>4, <2>3, <3>1 DEF Time
    <3>4. Timed(list, r)'
      BY <2>3, <3>2 DEF Timed
    <3> QED
      BY <1>3, <3>2, <3>3, <3>4 DEF Ahead
  <2> QED
    BY <2>1, <2>2, <2>3
<1> QED
  BY <1>5, <1>6, <1>7

LEMMA MovingKeeps ==
  ASSUME RowTypes, RowsInv, Moving
  PROVE  RowTypes' /\ RowsInv' /\ Steady /\ Notes(rows', flags')
<1>1. ASSUME NEW e \in Mails, NEW R \in {{"received"}, {"sent"}, {"received", "sent"}},
             NEW F \in {{}, {"spam"}}, NEW place \in 1 .. Cardinality(Arrived) + 1,
             Deliver(e, R, F, place)
      PROVE  RowTypes' /\ RowsInv' /\ Steady /\ Notes(rows', flags')
  <2>1. Notes(rows', flags')
    BY <1>1 DEF Deliver
  <2> QED
    BY <1>1, <2>1, DeliverKeeps
<1>2. ASSUME NEW e \in Mails, CreateDraft(e)
      PROVE  RowTypes' /\ RowsInv' /\ Steady /\ Notes(rows', flags')
  <2>1. flags' = flags /\ Notes(rows', flags)
    BY <1>2 DEF CreateDraft
  <2> QED
    BY <1>2, <2>1, CreateDraftKeeps
<1>3. ASSUME NEW e \in Mails, NEW F, Sets(e, F)
      PROVE  Notes(rows', flags')
  <2>1. rows' = rows /\ Notes(rows, flags')
    BY <1>3 DEF Sets
  <2> QED
    BY <2>1
<1>4. ASSUME NEW e \in Mails, DeleteDrafts(e)
      PROVE  RowTypes' /\ RowsInv' /\ Steady /\ Notes(rows', flags')
  <2>1. Sets(e, {"removed"}) /\ UNCHANGED filed /\ {"removed"} \in SUBSET Flags
    BY <1>4 DEF DeleteDrafts, Flags
  <2>2. RowTypes' /\ RowsInv' /\ Steady
    BY <1>4, <2>1, FlaggingKeeps
  <2> QED
    BY <1>3, <2>1, <2>2
<1>5. ASSUME NEW e \in Mails, Moves(e)
      PROVE  RowTypes' /\ RowsInv' /\ Steady /\ Notes(rows', flags')
  <2>1. CASE AddEmailToFolder(e) /\ Flagging(e, flags[e] \cup {"kept"})
    <3>1. Sets(e, flags[e] \cup {"kept"})
      BY <2>1 DEF Flagging
    <3>2. RowTypes' /\ RowsInv' /\ Steady
      BY <2>1, FilingKeeps
    <3> QED
      BY <1>3, <3>1, <3>2
  <2>3. CASE \E F : Flagging(e, F) /\ UNCHANGED filed /\ ("kept" \in F => "kept" \in flags[e])
    <3>1. PICK F : Flagging(e, F) /\ UNCHANGED filed /\ ("kept" \in F => "kept" \in flags[e])
      BY <2>3
    <3>2. /\ Sets(e, F) /\ F \in SUBSET Flags /\ came[e] # 0
          /\ "spam" \in F => "spam" \in flags[e] \/ <<e, "sent">> \notin rows
      BY <3>1 DEF Flagging
    <3>3. RowTypes' /\ RowsInv' /\ Steady
      BY <3>1, <3>2, FlaggingKeeps
    <3> QED
      BY <1>3, <3>2, <3>3
  <2>4. \/ AddEmailToFolder(e) /\ Flagging(e, flags[e] \cup {"kept"})
        \/ \E F : Flagging(e, F) /\ UNCHANGED filed /\ ("kept" \in F => "kept" \in flags[e])
    BY <1>5, MovesFlag
  <2> QED
    BY <2>1, <2>3, <2>4
<1> QED
  BY <1>1, <1>2, <1>4, <1>5 DEF Moving

-----------------------------------------------------------------------------
(* The walk. *)

(* How many places the client has read. *)
Walked == walk.offset + (IF walk.step \in {"total", "done"} THEN Limit ELSE 0)

WalkInv ==
  /\ walk.step = "rest" => walk.list \in {"folder", "all"}
  /\ walk.step = "rest" /\ walk.list = "all" =>
       Cardinality(walk.part) <= Limit /\ \A r \in walk.part : r[2] = "received"
  /\ walk.offset \in {0, Limit} \/ walk.offset >= Limit + Limit
  /\ Walked = 0 => seen = {}
  /\ \A r \in seen \cup walk.part : Timed(walk.list, r)

(* A row that is not on the pages read, nor on the one that is being read,  *)
(* comes after them, unless one ahead of it left.                           *)
Unread(list, r) ==
  \/ \E g \in gone : Ahead(list, g, r)
  \/ walk.step = "rest" /\ r \in walk.part
  \/ Place(list, Shown(list), r) >= Walked + (IF walk.step = "rest" THEN Limit ELSE 0)

MissedInv ==
  walk.list # "all" /\ walk.step # "none" =>
    /\ \A r \in Shown(walk.list) \ (fresh \cup seen) : Unread(walk.list, r)
    /\ walk.step = "done" => Cardinality(Shown(walk.list)) <= Walked

(* A row that came into the list during the walk, or behind one that did. *)
Excused(list, r) == r \in fresh \/ \E f \in fresh : Ahead(list, f, r)

(* A row that was seen is on the pages read. *)
SeenInv ==
  LET list == walk.list
  IN list # "all" =>
       /\ \A r \in seen \cap Shown(list) :
            Excused(list, r) \/ Place(list, Shown(list), r) < Walked
       /\ walk.step = "rest" => \A r \in walk.part :
            /\ r \in seen => Excused(list, r)
            /\ r \in Shown(list) =>
                 Excused(list, r) \/ Place(list, Shown(list), r) < Walked + Limit

(* In the list of all mails only the sent ones are counted.  Nothing is     *)
(* shown after the second page.                                             *)
SeenAllInv ==
  walk.list = "all" =>
    \A r \in seen :
      r \in Shown("all") \/ (walk.step = "rest" /\ r \in walk.part) =>
        \/ Excused("all", r)
        \/ Place("all", Shown("sent"), r) < (IF r[2] = "sent" THEN Walked ELSE Limit)
        \/ r[2] # "sent" /\ Walked >= Limit + Limit

AgainInv == \A r \in again : Excused(walk.list, r)

Inv ==
  /\ Types /\ RowsInv /\ WalkInv
  /\ MissedInv /\ SeenInv /\ SeenAllInv /\ AgainInv

-----------------------------------------------------------------------------
(* How the places change with the rows. *)

LEMMA PlaceTypeNext ==
  ASSUME NEW list, NEW R \in SUBSET AnyRow, NEW r
  PROVE  Place(list, R, r)' \in Nat
<1>1. {s \in R : Ahead(list, s, r)'} \in SUBSET AnyRow
  OBVIOUS
<1>2. Place(list, R, r)' = Cardinality({s \in R : Ahead(list, s, r)'})
  BY DEF Place
<1> QED
  BY <1>1, <1>2, Counted

LEMMA AheadNext ==
  ASSUME Times', NEW list, NEW r \in AnyRow, NEW s \in AnyRow
  PROVE  /\ ~Ahead(list, r, r)'
         /\ Ahead(list, r, s)' => ~Ahead(list, s, r)'
<1>1. Time(list, r)' \in Nat /\ Time(list, s)' \in Nat
  BY MailsAssumption DEF Times, Time, AnyRow
<1>2. r[1] = s[1] => Time(list, r)' = Time(list, s)'
  BY DEF Time
<1> QED
  BY <1>1, <1>2 DEF Ahead

(* When no row ahead of r leaves, its place does not get smaller. *)
LEMMA PlaceKept ==
  ASSUME NEW list, NEW R \in SUBSET AnyRow, NEW Q \in SUBSET AnyRow, NEW r,
         \A s \in R : Ahead(list, s, r) => s \in Q /\ Ahead(list, s, r)'
  PROVE  Place(list, R, r) <= Place(list, Q, r)'
<1>1. {s \in R : Ahead(list, s, r)} \in SUBSET {s \in Q : Ahead(list, s, r)'}
  OBVIOUS
<1>2. {s \in Q : Ahead(list, s, r)'} \in SUBSET AnyRow
  OBVIOUS
<1>3. Place(list, Q, r)' = Cardinality({s \in Q : Ahead(list, s, r)'})
  BY DEF Place
<1> QED
  BY <1>1, <1>2, <1>3, Fewer DEF Place

(* When no row comes ahead of r, its place does not get larger. *)
LEMMA PlaceHeld ==
  ASSUME NEW list, NEW R \in SUBSET AnyRow, NEW Q \in SUBSET AnyRow, NEW r,
         \A s \in Q : Ahead(list, s, r)' => s \in R /\ Ahead(list, s, r)
  PROVE  Place(list, Q, r)' <= Place(list, R, r)
<1>1. {s \in Q : Ahead(list, s, r)'} \in SUBSET {s \in R : Ahead(list, s, r)}
  OBVIOUS
<1>2. {s \in R : Ahead(list, s, r)} \in SUBSET AnyRow
  OBVIOUS
<1>3. Place(list, Q, r)' = Cardinality({s \in Q : Ahead(list, s, r)'})
  BY DEF Place
<1> QED
  BY <1>1, <1>2, <1>3, Fewer DEF Place

(* Rows that move during a walk. *)
LEMMA WalkSeesMoves ==
  ASSUME Inv, RowTypes', RowsInv', Steady, Notes(rows', flags'),
         walk.step \in {"page", "rest", "total"}
  PROVE  Inv'
<1>1. PICK list : list = walk.list
  OBVIOUS
<1>2. list \in Lists /\ RowTypes /\ RowsInv /\ WalkInv /\ walk.step # "done"
  BY <1>1 DEF Inv, Types
<1>3. PICK Q : Q = Shown(list)'
  OBVIOUS
<1>. DEFINE R == Shown(list)
<1>4. /\ walk' = walk /\ seen' = seen /\ again' = again
      /\ gone' = gone \cup (R \ Q) /\ fresh' = fresh \cup (Q \ R)
  <2>1. R = Among(walk.list, rows, flags) /\ Q = Among(walk.list, rows', flags')
    BY <1>1, <1>3 DEF Shown, Among
  <2> QED
    BY <2>1 DEF Notes, Shown
<1>5. Walked' = Walked
  BY <1>4 DEF Walked
<1>6. R \in SUBSET AnyRow /\ Q \in SUBSET AnyRow /\ R \subseteq rows
  <2>1. R \in SUBSET AnyRow /\ R \subseteq rows
    BY <1>2, ShownIsRows
  <2>2. Q \in SUBSET AnyRow
    BY <1>3 DEF RowTypes, Shown, Among
  <2> QED
    BY <2>1, <2>2
<1>7. ASSUME NEW r \in AnyRow, NEW s \in AnyRow, Timed(list, r), r \notin fresh', Ahead(list, s, r)
      PROVE  Ahead(list, s, r)'
  <2>1. \/ Ahead(list, s, r)'
        \/ r \in Shown(list)' \ Shown(list)
    BY <1>2, <1>7 DEF Steady
  <2> QED
    BY <1>3, <1>4, <1>7, <2>1
<1>8. \A r \in R : Timed(list, r)
  BY <1>2, ShownIsTimed
<1>9. ASSUME NEW r \in AnyRow, Timed(list, r), Excused(list, r)
      PROVE  Excused(list, r)'
  <2>1. CASE r \in fresh'
    BY <2>1 DEF Excused
  <2>2. CASE r \notin fresh'
    <3>1. PICK f \in fresh : Ahead(list, f, r)
      BY <1>4, <1>9, <2>2 DEF Excused
    <3>2. f \in AnyRow /\ f \in fresh'
      BY <1>4 DEF Inv, Types
    <3>3. Ahead(list, f, r)'
      BY <1>7, <1>9, <2>2, <3>1, <3>2
    <3> QED
      BY <3>2, <3>3 DEF Excused
  <2> QED
    BY <2>1, <2>2
<1>10. Types'
  BY <1>4, <1>6 DEF Inv, Types
<1>11. WalkInv'
  <2>1. ASSUME NEW r \in seen \cup walk.part
        PROVE  Timed(list, r)'
    <3>1. r \in AnyRow /\ Timed(list, r)
      BY <1>1, <1>2 DEF Inv, Types, WalkInv
    <3> QED
      BY <1>2, <3>1 DEF Steady
  <2>2. \A r \in seen' \cup walk'.part : Timed(walk.list, r)'
    BY <1>1, <1>4, <2>1
  <2> QED
    BY <1>2, <1>4, <1>5, <2>2 DEF WalkInv
<1>12. Times /\ Times'
  BY <1>2 DEF RowTypes, Times
<1>13. MissedInv'
  <2>. SUFFICES ASSUME list # "all", NEW r \in Q \ (fresh' \cup seen)
                PROVE  Unread(list, r)'
    BY <1>1, <1>2, <1>3, <1>4 DEF MissedInv
  <2>1. r \in R /\ r \notin fresh /\ r \notin fresh' /\ r \notin seen /\ r \in AnyRow /\ Timed(list, r)
    BY <1>4, <1>6, <1>8
  <2>2. Unread(list, r)
    BY <1>1, <2>1 DEF Inv, MissedInv
  <2>3. CASE \E g \in gone : Ahead(list, g, r)
    <3>1. PICK g \in gone : Ahead(list, g, r)
      BY <2>3
    <3>2. g \in AnyRow /\ g \in gone'
      BY <1>4 DEF Inv, Types
    <3> QED
      BY <1>7, <2>1, <3>1, <3>2 DEF Unread
  <2>4. CASE walk.step = "rest" /\ r \in walk.part
    BY <1>4, <2>4 DEF Unread
  <2>5. CASE Place(list, R, r) >= Walked + (IF walk.step = "rest" THEN Limit ELSE 0)
    <3>1. CASE \E s \in R : Ahead(list, s, r) /\ s \notin Q
      <4>1. PICK s \in R : Ahead(list, s, r) /\ s \notin Q
        BY <3>1
      <4>2. s \in gone' /\ Ahead(list, s, r)'
        BY <1>4, <1>6, <1>7, <2>1, <4>1
      <4> QED
        BY <4>2 DEF Unread
    <3>2. CASE \A s \in R : Ahead(list, s, r) => s \in Q
      <4>1. \A s \in R : Ahead(list, s, r) => s \in Q /\ Ahead(list, s, r)'
        BY <1>6, <1>7, <2>1, <3>2
      <4>2. Place(list, R, r) <= Place(list, Q, r)'
        BY <1>6, <4>1, PlaceKept
      <4>3. Place(list, Shown(list), r)' = Place(list, Q, r)'
        BY <1>3 DEF Place
      <4>4. Place(list, R, r) \in Nat /\ Place(list, Q, r)' \in Nat
        BY <1>6, PlaceType, PlaceTypeNext
      <4>5. Walked \in Nat /\ Limit \in Nat
        BY LimitAssumption DEF Inv, Types, Walked
      <4>6. Place(list, Shown(list), r)' >= Walked' + (IF walk'.step = "rest" THEN Limit ELSE 0)
        BY <1>4, <1>5, <2>5, <4>2, <4>3, <4>4, <4>5
      <4> QED
        BY <4>6 DEF Unread
    <3> QED
      BY <3>1, <3>2
  <2> QED
    BY <2>2, <2>3, <2>4, <2>5 DEF Unread
<1>14. ASSUME NEW r \in R, r \in Q, ~Excused(list, r)'
       PROVE  Place(list, Shown(list), r)' <= Place(list, R, r)
  <2>1. r \in AnyRow /\ Timed(list, r) /\ r \notin fresh'
    BY <1>6, <1>8, <1>14 DEF Excused
  <2>2. ASSUME NEW s \in Q, Ahead(list, s, r)'
        PROVE  s \in R /\ Ahead(list, s, r)
    <3>1. s \in AnyRow /\ s \notin fresh'
      BY <1>6, <1>14, <2>2 DEF Excused
    <3>2. s \in R
      BY <1>4, <3>1
    <3>3. r # s /\ ~Ahead(list, r, s)'
      BY <1>12, <2>1, <2>2, <3>1, AheadNext
    <3>4. ~Ahead(list, r, s)
      BY <1>7, <1>8, <2>1, <3>1, <3>2, <3>3
    <3>5. Sorted(list, R)
      BY <1>2, ShownIsSorted
    <3> QED
      BY <3>2, <3>3, <3>4, <3>5 DEF Sorted
  <2>3. Place(list, Q, r)' <= Place(list, R, r)
    BY <1>6, <2>2, PlaceHeld
  <2>4. Place(list, Shown(list), r)' = Place(list, Q, r)'
    BY <1>3 DEF Place
  <2> QED
    BY <2>3, <2>4
<1>15. \A r : Place(list, R, r) \in Nat /\ Place(list, Shown(list), r)' \in Nat
  <2>1. ASSUME NEW r
        PROVE  Place(list, R, r) \in Nat /\ Place(list, Shown(list), r)' \in Nat
    <3>1. Place(list, Q, r)' \in Nat
      BY <1>6, PlaceTypeNext
    <3>2. Place(list, Shown(list), r)' = Place(list, Q, r)'
      BY <1>3 DEF Place
    <3> QED
      BY <1>6, <3>1, <3>2, PlaceType
  <2> QED
    BY <2>1
<1>16. Walked \in Nat /\ Limit \in Nat
  BY LimitAssumption DEF Inv, Types, Walked
<1>17. ASSUME list # "all"
       PROVE  SeenInv'
  <2>1. ASSUME NEW r \in seen \cap Q
        PROVE  Excused(list, r)' \/ Place(list, Shown(list), r)' < Walked'
    <3>1. r \in AnyRow /\ Timed(list, r)
      BY <1>1, <1>6 DEF Inv, WalkInv
    <3>2. CASE r \in R
      <4>1. Excused(list, r) \/ Place(list, R, r) < Walked
        BY <1>1, <1>17, <2>1, <3>2 DEF Inv, SeenInv
      <4> QED
        BY <1>5, <1>9, <1>14, <1>15, <1>16, <2>1, <3>1, <3>2, <4>1
    <3>3. CASE r \notin R
      BY <1>4, <2>1, <3>3 DEF Excused
    <3> QED
      BY <3>2, <3>3
  <2>2. ASSUME walk.step = "rest", NEW r \in walk.part
        PROVE  /\ r \in seen => Excused(list, r)'
               /\ r \in Q => Excused(list, r)' \/ Place(list, Shown(list), r)' < Walked' + Limit
    <3>1. r \in AnyRow /\ Timed(list, r)
      BY <1>1 DEF Inv, WalkInv, Types
    <3>2. r \in seen => Excused(list, r)'
      BY <1>1, <1>9, <1>17, <2>2, <3>1 DEF Inv, SeenInv
    <3>3. CASE r \in Q /\ r \in R
      <4>1. Excused(list, r) \/ Place(list, R, r) < Walked + Limit
        BY <1>1, <1>17, <2>2, <3>3 DEF Inv, SeenInv
      <4> QED
        BY <1>5, <1>9, <1>14, <1>15, <1>16, <3>1, <3>2, <3>3, <4>1
    <3>4. CASE r \in Q /\ r \notin R
      BY <1>4, <3>2, <3>4 DEF Excused
    <3> QED
      BY <3>2, <3>3, <3>4
  <2> QED
    BY <1>1, <1>3, <1>4, <2>1, <2>2 DEF SeenInv
<1>18. ASSUME list = "all"
       PROVE  SeenAllInv'
  <2>. SUFFICES ASSUME NEW r \in seen, ~Excused("all", r)',
                       r \in Q \/ (walk.step = "rest" /\ r \in walk.part)
                PROVE  \/ Place("all", Shown("sent"), r)' < (IF r[2] = "sent" THEN Walked ELSE Limit)
                       \/ r[2] # "sent" /\ Walked >= Limit + Limit
    BY <1>1, <1>3, <1>4, <1>5, <1>18 DEF SeenAllInv
  <2>1. r \in AnyRow /\ Timed(list, r)
    BY <1>1 DEF Inv, WalkInv, Types
  <2>2. ~Excused("all", r)
    BY <1>9, <1>18, <2>1
  <2>3. r \in R \/ (walk.step = "rest" /\ r \in walk.part)
    BY <1>4 DEF Excused
  <2>4. \/ Place("all", Shown("sent"), r) < (IF r[2] = "sent" THEN Walked ELSE Limit)
        \/ r[2] # "sent" /\ Walked >= Limit + Limit
    BY <1>1, <1>18, <2>2, <2>3 DEF Inv, SeenAllInv
  <2>5. PICK S : S = Shown("sent")'
    OBVIOUS
  <2>6. Shown("sent") \in SUBSET AnyRow /\ S \in SUBSET AnyRow
    <3>1. S \in SUBSET AnyRow
      BY <2>5 DEF RowTypes, Shown, Among
    <3> QED
      BY <1>2, <2>5, <3>1, ShownIsRows
  <2>7. ASSUME NEW s \in S, Ahead("all", s, r)'
        PROVE  s \in Shown("sent") /\ Ahead("all", s, r)
    <3>1. Ahead("all", s, r)
      BY <2>7 DEF Ahead, Time
    <3>2. s \in Q /\ s[2] = "sent"
      BY <1>3, <1>18, <2>5 DEF Shown, Among, Matches
    <3>3. s \in R
      BY <1>4, <1>18, <2>7, <3>2 DEF Excused
    <3>4. s \in Shown("sent")
      BY <1>18, <3>2, <3>3 DEF Shown, Among, Matches
    <3> QED
      BY <3>1, <3>4
  <2>8. Place("all", S, r)' <= Place("all", Shown("sent"), r)
    BY <2>6, <2>7, PlaceHeld
  <2>9. Place("all", Shown("sent"), r)' = Place("all", S, r)'
    BY <2>5 DEF Place
  <2>10. Place("all", Shown("sent"), r) \in Nat /\ Place("all", S, r)' \in Nat
    BY <2>6, PlaceType, PlaceTypeNext
  <2> QED
    BY <1>16, <2>4, <2>8, <2>9, <2>10
<1>19. AgainInv'
  <2>1. ASSUME NEW r \in again
        PROVE  Excused(list, r)'
    <3>1. r \in AnyRow /\ Timed(list, r) /\ Excused(list, r)
      BY <1>1 DEF Inv, WalkInv, Types, AgainInv
    <3> QED
      BY <1>9, <3>1
  <2> QED
    BY <1>1, <1>4, <2>1 DEF AgainInv
<1>20. SeenInv' /\ SeenAllInv'
  <2>1. list = "all" => SeenInv'
    BY <1>1, <1>4 DEF SeenInv
  <2>2. list # "all" => SeenAllInv'
    BY <1>1, <1>4 DEF SeenAllInv
  <2> QED
    BY <1>17, <1>18, <2>1, <2>2
<1> QED
  BY <1>10, <1>11, <1>13, <1>19, <1>20 DEF Inv

(* Without a walk there is nothing to remember. *)
LEMMA WalkIsOver ==
  ASSUME Inv, RowTypes', RowsInv', Notes(rows', flags'),
         walk.step \notin {"page", "rest", "total"}
  PROVE  Inv'
<1>1. walk' = NoWalk /\ seen' = {} /\ again' = {} /\ gone' = {} /\ fresh' = {}
  BY DEF Notes
<1>2. walk'.list = "inbox" /\ walk'.step = "none" /\ walk'.offset = 0 /\ walk'.part = {}
  BY <1>1 DEF NoWalk
<1>3. Types'
  <2>1. walk' \in [list : Lists, offset : Nat, step : {"none", "page", "rest", "total", "done"},
                   part : SUBSET AnyRow]
    BY <1>1 DEF NoWalk, Lists
  <2> QED
    BY <1>1, <2>1 DEF Types
<1>4. WalkInv'
  BY <1>1, <1>2 DEF WalkInv
<1>5. MissedInv' /\ SeenInv' /\ SeenAllInv' /\ AgainInv'
  BY <1>1, <1>2 DEF MissedInv, SeenInv, SeenAllInv, AgainInv
<1> QED
  BY <1>3, <1>4, <1>5 DEF Inv

-----------------------------------------------------------------------------
(* The steps of the client, which leave the rows alone. *)
LEMMA Unmoved ==
  ASSUME UNCHANGED rowVars
  PROVE  /\ RowTypes' = RowTypes /\ RowsInv' = RowsInv
         /\ \A list : Shown(list)' = Shown(list)
         /\ \A list, r : Timed(list, r)' = Timed(list, r)
         /\ \A list, r, s : Ahead(list, r, s)' = Ahead(list, r, s)
         /\ \A list, R, r : Place(list, R, r)' = Place(list, R, r)
<1>1. UNCHANGED <<rows, came, filed, flags>>
  BY DEF rowVars
<1>2. \A list, r : Time(list, r)' = Time(list, r)
  BY <1>1 DEF Time
<1>3. \A list, r, s : Ahead(list, r, s)' = Ahead(list, r, s)
  BY <1>2 DEF Ahead
<1>4. \A list : Shown(list)' = Shown(list)
  BY <1>1 DEF Shown, Among
<1>5. \A list, r : Timed(list, r)' = Timed(list, r)
  BY <1>2 DEF Timed
<1>6. \A list, R, r : Place(list, R, r)' = Place(list, R, r)
  BY <1>3 DEF Place
<1>7. RowTypes' = RowTypes /\ RowsInv' = RowsInv
  BY <1>1 DEF RowTypes, RowsInv
<1> QED
  BY <1>3, <1>4, <1>5, <1>6, <1>7

LEMMA OpenKeeps ==
  ASSUME Inv, NEW list \in Lists, Open(list)
  PROVE  Inv'
<1>1. /\ walk'.list = list /\ walk'.step = "page" /\ walk'.offset = 0 /\ walk'.part = {}
      /\ walk' \in [list : Lists, offset : Nat, step : {"none", "page", "rest", "total", "done"},
                    part : SUBSET AnyRow]
      /\ seen' = {} /\ again' = {} /\ gone' = {} /\ fresh' = {}
  BY DEF Open
<1>2. RowTypes' /\ RowsInv'
  BY Unmoved DEF Open, Inv, Types
<1>3. Types' /\ WalkInv' /\ SeenInv' /\ SeenAllInv' /\ AgainInv'
  BY <1>1, <1>2 DEF Types, WalkInv, SeenInv, SeenAllInv, AgainInv
<1>4. MissedInv'
  <2>1. ASSUME NEW r
        PROVE  Unread(list, r)'
    <3>1. Place(list, Shown(list), r)' \in Nat
      <4>1. PICK R : R = Shown(list)'
        OBVIOUS
      <4>2. R \in SUBSET AnyRow
        BY <1>2, <4>1 DEF RowTypes, Shown, Among
      <4>3. Place(list, Shown(list), r)' = Place(list, R, r)'
        BY <4>1 DEF Place
      <4> QED
        BY <4>2, <4>3, PlaceTypeNext
    <3>2. Walked' = 0
      BY <1>1 DEF Walked
    <3> QED
      BY <1>1, <3>1, <3>2 DEF Unread
  <2> QED
    BY <1>1, <2>1 DEF MissedInv
<1> QED
  BY <1>2, <1>3, <1>4 DEF Inv

(* The client has got a page of a list sorted by one order. *)
LEMMA ShowsKeeps ==
  ASSUME Inv, walk.step \in {"page", "rest"}, walk.list # "all",
         NEW P \in SUBSET AnyRow, Shows(P),
         \A r \in P :
           /\ Timed(walk.list, r)
           /\ r \in seen => Excused(walk.list, r)
           /\ r \in Shown(walk.list) =>
                \/ Excused(walk.list, r)
                \/ Place(walk.list, Shown(walk.list), r) < walk.offset + Limit,
         \A r \in Shown(walk.list) \ (fresh \cup seen \cup P) :
           \/ \E g \in gone : Ahead(walk.list, g, r)
           \/ Place(walk.list, Shown(walk.list), r) >= walk.offset + Limit
  PROVE  Inv'
<1>1. PICK list : list = walk.list
  OBVIOUS
<1>2. PICK R : R = Shown(list)
  OBVIOUS
<1>3. /\ list \in Lists /\ walk.offset \in Nat /\ Limit \in Nat /\ Limit # 0
      /\ RowTypes /\ RowsInv /\ WalkInv
  BY <1>1, LimitAssumption DEF Inv, Types
<1>4. /\ walk' = [walk EXCEPT !.step = "total", !.part = P]
      /\ seen' = seen \cup P /\ again' = again \cup (seen \cap P)
      /\ UNCHANGED <<rowVars, gone, fresh>>
  BY DEF Shows, Goes
<1>5. /\ walk'.list = list /\ walk'.step = "total" /\ walk'.offset = walk.offset /\ walk'.part = P
      /\ walk' \in [list : Lists, offset : Nat, step : {"none", "page", "rest", "total", "done"},
                    part : SUBSET AnyRow]
  BY <1>1, <1>4 DEF Inv, Types
<1>6. /\ RowTypes' /\ RowsInv' /\ Shown(list)' = R
      /\ \A r : Timed(list, r)' = Timed(list, r)
      /\ \A r, s : Ahead(list, r, s)' = Ahead(list, r, s)
      /\ \A r : Place(list, Shown(list), r)' = Place(list, R, r)
  <2>1. /\ RowTypes' = RowTypes /\ RowsInv' = RowsInv
        /\ Shown(list)' = R
        /\ \A r : Timed(list, r)' = Timed(list, r)
        /\ \A r, s : Ahead(list, r, s)' = Ahead(list, r, s)
        /\ \A r : Place(list, R, r)' = Place(list, R, r)
    BY <1>2, <1>4, Unmoved
  <2>2. \A r : Place(list, Shown(list), r)' = Place(list, R, r)'
    BY <2>1 DEF Place
  <2> QED
    BY <1>3, <2>1, <2>2
<1>7. \A r : Excused(list, r)' = Excused(list, r)
  BY <1>4, <1>6 DEF Excused
<1>8. Walked' = walk.offset + Limit /\ Walked = walk.offset
  BY <1>5 DEF Walked
<1>9. R \in SUBSET AnyRow /\ \A r : Place(list, R, r) \in Nat
  BY <1>2, <1>3, ShownIsRows, PlaceType
<1>10. Types'
  BY <1>4, <1>5, <1>6 DEF Inv, Types
<1>11. WalkInv'
  <2>1. \A r \in seen' \cup walk'.part : Timed(list, r)'
    BY <1>1, <1>3, <1>4, <1>5, <1>6 DEF WalkInv
  <2>2. walk'.offset \in {0, Limit} \/ walk'.offset >= Limit + Limit
    BY <1>3, <1>5 DEF WalkInv
  <2>3. Walked' # 0
    BY <1>3, <1>8
  <2> QED
    BY <1>5, <2>1, <2>2, <2>3 DEF WalkInv
<1>12. MissedInv'
  <2>1. ASSUME NEW r \in R \ (fresh' \cup seen')
        PROVE  Unread(list, r)'
    BY <1>1, <1>2, <1>4, <1>5, <1>6, <1>8, <1>3, <1>9, <2>1 DEF Unread
  <2> QED
    BY <1>5, <1>6, <2>1 DEF MissedInv
<1>13. SeenInv'
  <2>1. ASSUME NEW r \in seen' \cap R
        PROVE  Excused(list, r) \/ Place(list, R, r) < walk.offset + Limit
    <3>1. CASE r \in P
      BY <1>1, <1>2, <2>1, <3>1
    <3>2. CASE r \in seen
      BY <1>1, <1>2, <1>3, <1>8, <1>9, <2>1, <3>2 DEF Inv, SeenInv
    <3> QED
      BY <1>4, <2>1, <3>1, <3>2
  <2>2. \A r \in seen' \cap Shown(list)' : Excused(list, r)' \/ Place(list, Shown(list), r)' < Walked'
    BY <1>6, <1>7, <1>8, <2>1
  <2> QED
    BY <1>5, <2>2 DEF SeenInv
<1>14. SeenAllInv'
  BY <1>1, <1>5 DEF SeenAllInv
<1>15. AgainInv'
  <2>1. \A r \in again' : Excused(list, r)
    BY <1>1, <1>4 DEF Inv, AgainInv
  <2> QED
    BY <1>5, <1>7, <2>1 DEF AgainInv
<1> QED
  BY <1>6, <1>10, <1>11, <1>12, <1>13, <1>14, <1>15 DEF Inv

(* What is known of the page at the offset of the walk. *)
LEMMA PageOfWalk ==
  ASSUME Inv, walk.step = "page", walk.list # "all"
  PROVE  LET list == walk.list
             P == Page(list, Shown(list), walk.offset)
         IN /\ P \in SUBSET AnyRow
            /\ \A r \in P :
                 /\ Timed(list, r)
                 /\ r \in seen => Excused(list, r)
                 /\ Place(list, Shown(list), r) < walk.offset + Limit
            /\ \A r \in Shown(list) \ (fresh \cup seen \cup P) :
                 \/ \E g \in gone : Ahead(list, g, r)
                 \/ Place(list, Shown(list), r) >= walk.offset + Limit
<1>. DEFINE list == walk.list
            R == Shown(list)
            P == Page(list, R, walk.offset)
<1>1. /\ list \in Lists /\ walk.offset \in Nat /\ Limit \in Nat
      /\ RowTypes /\ RowsInv
  BY LimitAssumption DEF Inv, Types
<1>2. R \in SUBSET AnyRow /\ \A r : Place(list, R, r) \in Nat
  BY <1>1, ShownIsRows, PlaceType
<1>3. \A r \in R : r \in P <=> Place(list, R, r) \in walk.offset .. walk.offset + Limit - 1
  BY DEF Page
<1>4. P \subseteq R
  BY DEF Page
<1>5. Walked = walk.offset
  BY <1>1 DEF Walked
<1>6. ASSUME NEW r \in P
      PROVE  /\ Timed(list, r)
             /\ r \in seen => Excused(list, r)
             /\ Place(list, R, r) < walk.offset + Limit
  <2>1. Place(list, R, r) \in walk.offset .. walk.offset + Limit - 1
    BY <1>3, <1>4
  <2>2. Timed(list, r)
    BY <1>1, <1>4, ShownIsTimed
  <2>3. r \in seen => Excused(list, r) \/ Place(list, R, r) < walk.offset
    BY <1>4, <1>5 DEF Inv, SeenInv
  <2> QED
    BY <1>1, <1>2, <2>1, <2>2, <2>3
<1>7. ASSUME NEW r \in R \ (fresh \cup seen \cup P)
      PROVE  \/ \E g \in gone : Ahead(list, g, r)
             \/ Place(list, R, r) >= walk.offset + Limit
  <2>1. Unread(list, r)
    BY <1>7 DEF Inv, MissedInv
  <2>2. (\E g \in gone : Ahead(list, g, r)) \/ Place(list, R, r) >= walk.offset
    BY <1>1, <1>5, <2>1 DEF Unread
  <2> QED
    BY <1>1, <1>2, <1>3, <2>2
<1> QED
  BY <1>2, <1>4, <1>6, <1>7

LEMMA ReadPageKeeps ==
  ASSUME Inv, walk.step = "page", walk.list # "all",
         Shows(Page(walk.list, Shown(walk.list), walk.offset))
  PROVE  Inv'
<1>1. PICK P : P = Page(walk.list, Shown(walk.list), walk.offset)
  OBVIOUS
<1>2. Shows(P) /\ P \in SUBSET AnyRow
  BY <1>1, PageOfWalk
<1>3. \A r \in P :
        /\ Timed(walk.list, r)
        /\ r \in seen => Excused(walk.list, r)
        /\ r \in Shown(walk.list) =>
             \/ Excused(walk.list, r)
             \/ Place(walk.list, Shown(walk.list), r) < walk.offset + Limit
  BY <1>1, PageOfWalk
<1>4. \A r \in Shown(walk.list) \ (fresh \cup seen \cup P) :
        \/ \E g \in gone : Ahead(walk.list, g, r)
        \/ Place(walk.list, Shown(walk.list), r) >= walk.offset + Limit
  BY <1>1, PageOfWalk
<1> QED
  BY <1>2, <1>3, <1>4, ShowsKeeps

(* The folder service has the ids of a page. *)
LEMMA ReadFolderKeeps ==
  ASSUME Inv, ReadFolder
  PROVE  Inv'
<1>1. /\ walk.offset \in Nat /\ Limit \in Nat /\ RowTypes /\ RowsInv /\ WalkInv
      /\ walk.list = "folder" /\ walk.list \in Lists
  BY LimitAssumption DEF Inv, Types, ReadFolder
<1>2. CASE walk.step = "page"
  <2>1. PICK P : P = Page("folder", Shown("folder"), walk.offset)
    OBVIOUS
  <2>2. PICK R : R = Shown("folder")
    OBVIOUS
  <2>3. /\ walk' = [walk EXCEPT !.step = "rest", !.part = P]
        /\ UNCHANGED <<rowVars, seen, again, gone, fresh>>
    BY <1>2, <2>1 DEF ReadFolder, GetFolderEmailIDs, Goes
  <2>4. /\ P \in SUBSET AnyRow
        /\ \A r \in P :
             /\ Timed("folder", r)
             /\ r \in seen => Excused("folder", r)
             /\ Place("folder", R, r) < walk.offset + Limit
        /\ \A r \in R \ (fresh \cup seen \cup P) :
             \/ \E g \in gone : Ahead("folder", g, r)
             \/ Place("folder", R, r) >= walk.offset + Limit
    BY <1>1, <1>2, <2>1, <2>2, PageOfWalk
  <2>5. /\ walk'.list = "folder" /\ walk'.step = "rest" /\ walk'.offset = walk.offset /\ walk'.part = P
        /\ walk' \in [list : Lists, offset : Nat, step : {"none", "page", "rest", "total", "done"},
                      part : SUBSET AnyRow]
    BY <1>1, <2>3, <2>4 DEF Inv, Types
  <2>6. /\ RowTypes' /\ RowsInv' /\ Shown("folder")' = R
        /\ \A r : Timed("folder", r)' = Timed("folder", r)
        /\ \A r, s : Ahead("folder", r, s)' = Ahead("folder", r, s)
        /\ \A r : Place("folder", Shown("folder"), r)' = Place("folder", R, r)
    <3>1. /\ RowTypes' = RowTypes /\ RowsInv' = RowsInv
          /\ Shown("folder")' = R
          /\ \A r : Timed("folder", r)' = Timed("folder", r)
          /\ \A r, s : Ahead("folder", r, s)' = Ahead("folder", r, s)
          /\ \A r : Place("folder", R, r)' = Place("folder", R, r)
      BY <2>2, <2>3, Unmoved
    <3>2. \A r : Place("folder", Shown("folder"), r)' = Place("folder", R, r)'
      BY <3>1 DEF Place
    <3> QED
      BY <1>1, <3>1, <3>2
  <2>7. \A r : Excused("folder", r)' = Excused("folder", r)
    BY <2>3, <2>6 DEF Excused
  <2>8. Walked' = walk.offset /\ Walked = walk.offset
    BY <1>1, <1>2, <2>5 DEF Walked
  <2>9. Types'
    BY <2>3, <2>5, <2>6 DEF Inv, Types
  <2>10. WalkInv'
    <3>1. \A r \in seen' \cup walk'.part : Timed("folder", r)'
      BY <1>1, <2>3, <2>4, <2>5, <2>6 DEF WalkInv
    <3>2. walk'.offset \in {0, Limit} \/ walk'.offset >= Limit + Limit
      BY <1>1, <2>5 DEF WalkInv
    <3>3. Walked' = 0 => seen' = {}
      BY <1>1, <2>3, <2>8 DEF WalkInv
    <3> QED
      BY <2>5, <3>1, <3>2, <3>3 DEF WalkInv
  <2>11. MissedInv'
    <3>1. ASSUME NEW r \in R \ (fresh' \cup seen')
          PROVE  Unread("folder", r)'
      BY <2>3, <2>4, <2>5, <2>6, <2>8, <3>1 DEF Unread
    <3> QED
      BY <2>5, <2>6, <3>1 DEF MissedInv
  <2>12. SeenInv'
    <3>1. \A r \in seen' \cap Shown("folder")' :
            Excused("folder", r)' \/ Place("folder", Shown("folder"), r)' < Walked'
      BY <1>1, <2>2, <2>3, <2>6, <2>7, <2>8 DEF Inv, SeenInv
    <3>2. \A r \in walk'.part :
            /\ r \in seen' => Excused("folder", r)'
            /\ r \in Shown("folder")' =>
                 Excused("folder", r)' \/ Place("folder", Shown("folder"), r)' < Walked' + Limit
      BY <2>3, <2>4, <2>5, <2>6, <2>7, <2>8
    <3> QED
      BY <2>5, <3>1, <3>2 DEF SeenInv
  <2>13. SeenAllInv' /\ AgainInv'
    <3>1. \A r \in again' : Excused("folder", r)'
      BY <1>1, <2>3, <2>7 DEF Inv, AgainInv
    <3> QED
      BY <2>5, <3>1 DEF SeenAllInv, AgainInv
  <2> QED
    BY <2>6, <2>9, <2>10, <2>11, <2>12, <2>13 DEF Inv
<1>3. CASE walk.step = "rest"
  <2>1. PICK P : P = GetEmailIdsByUserEmailIds(walk.part)
    OBVIOUS
  <2>2. Shows(P) /\ P \in SUBSET walk.part /\ walk.part \in SUBSET AnyRow
    BY <1>3, <2>1 DEF ReadFolder, GetEmailIdsByUserEmailIds, Inv, Types
  <2>3. Walked = walk.offset
    BY <1>1, <1>3 DEF Walked
  <2>4. \A r \in P :
          /\ Timed(walk.list, r)
          /\ r \in seen => Excused(walk.list, r)
          /\ r \in Shown(walk.list) =>
               \/ Excused(walk.list, r)
               \/ Place(walk.list, Shown(walk.list), r) < walk.offset + Limit
    BY <1>1, <1>3, <2>2, <2>3 DEF Inv, WalkInv, SeenInv
  <2>5. ASSUME NEW r \in Shown(walk.list) \ (fresh \cup seen \cup P)
        PROVE  \/ \E g \in gone : Ahead(walk.list, g, r)
               \/ Place(walk.list, Shown(walk.list), r) >= walk.offset + Limit
    <3>1. Unread(walk.list, r)
      BY <1>1, <1>3, <2>5 DEF Inv, MissedInv
    <3>2. "removed" \notin flags[r[1]]
      BY <1>1 DEF Shown, Among, Matches
    <3>3. r \notin walk.part
      BY <2>1, <2>5, <3>2 DEF GetEmailIdsByUserEmailIds
    <3> QED
      BY <1>3, <2>3, <3>1, <3>3 DEF Unread
  <2> QED
    BY <1>1, <1>3, <2>2, <2>4, <2>5, ShowsKeeps
<1> QED
  BY <1>2, <1>3 DEF ReadFolder

(* The total is not less than the rows of the list: spam has no sender's    *)
(* rows.                                                                    *)
LEMMA TotalCounts ==
  ASSUME RowTypes, RowsInv, NEW list \in Lists, list # "all"
  PROVE  Cardinality(Shown(list)) <= Total(list) /\ Total(list) \in Nat
<1>1. Shown(list) \in SUBSET rows /\ Shown(list) \in SUBSET AnyRow
  BY ShownIsRows
<1>2. CASE list = "sent"
  <2>. DEFINE S == {r \in rows : r[2] = "sent"}
  <2>1. Shown(list) \in SUBSET S /\ S \in SUBSET AnyRow
    BY <1>1, <1>2 DEF Shown, Among, Matches, RowTypes
  <2>2. Total(list) = Cardinality(S)
    BY <1>2 DEF Total
  <2> QED
    BY <2>1, <2>2, Fewer, Counted
<1>3. CASE list = "spam"
  <2>1. ASSUME NEW r \in Shown("spam")
        PROVE  r[2] = "received"
    <3>1. r \in rows /\ r[1] \in Mails /\ r[2] \in Roles /\ r = <<r[1], r[2]>>
      BY <1>1, <1>3 DEF AnyRow
    <3>2. "spam" \in flags[r[1]]
      BY DEF Shown, Among, Matches
    <3>3. r[2] # "sent"
      BY <3>1, <3>2 DEF RowsInv
    <3>4. r[2] # "draft"
      <4>1. came[r[1]] # 0
        BY <3>1, <3>2 DEF RowsInv
      <4> QED
        BY <3>1, <4>1 DEF RowsInv
    <3> QED
      BY <3>1, <3>3, <3>4 DEF Roles
  <2>2. {r \in Shown("spam") : r[2] = "received"} = Shown("spam")
    BY <2>1
  <2>3. Total(list) = Cardinality(Shown(list))
    BY <1>3, <2>2 DEF Total
  <2> QED
    BY <1>1, <2>3, Counted
<1>4. CASE list \notin {"sent", "all", "spam"}
  <2>1. Total(list) = Cardinality(Shown(list))
    BY <1>4 DEF Total
  <2> QED
    BY <1>1, <2>1, Counted
<1> QED
  BY <1>2, <1>3, <1>4

LEMMA ReadTotalKeeps ==
  ASSUME Inv, ReadTotal
  PROVE  Inv'
<1>1. PICK list : list = walk.list
  OBVIOUS
<1>2. PICK R : R = Shown(list)
  OBVIOUS
<1>3. /\ walk.offset \in Nat /\ Limit \in Nat /\ Limit # 0 /\ RowTypes /\ RowsInv /\ WalkInv
      /\ list \in Lists /\ walk.step = "total"
  BY <1>1, LimitAssumption DEF Inv, Types, ReadTotal
<1>4. UNCHANGED <<rowVars, seen, again, gone, fresh>>
  BY DEF ReadTotal
<1>5. /\ walk'.list = list /\ walk'.part = walk.part
      /\ walk' \in [list : Lists, offset : Nat, step : {"none", "page", "rest", "total", "done"},
                    part : SUBSET AnyRow]
      /\ \/ walk'.step = "done" /\ walk'.offset = walk.offset /\ walk.offset + Limit >= Total(list)
         \/ walk'.step = "page" /\ walk'.offset = walk.offset + Limit
  <2>1. walk \in [list : Lists, offset : Nat, step : {"none", "page", "rest", "total", "done"},
                  part : SUBSET AnyRow]
    BY DEF Inv, Types
  <2>2. CASE walk.offset + Limit >= Total(walk.list)
    <3>1. walk' = [walk EXCEPT !.step = "done"]
      BY <2>2 DEF ReadTotal
    <3> QED
      BY <1>1, <2>1, <2>2, <3>1
  <2>3. CASE ~(walk.offset + Limit >= Total(walk.list))
    <3>1. walk' = [walk EXCEPT !.step = "page", !.offset = @ + Limit]
      BY <2>3 DEF ReadTotal
    <3>2. walk.offset + Limit \in Nat
      BY <1>3
    <3>3. walk'.step = "page" /\ walk'.offset = walk.offset + Limit /\ walk'.list = list /\ walk'.part = walk.part
      BY <1>1, <2>1, <3>1
    <3>4. walk' \in [list : Lists, offset : Nat, step : {"none", "page", "rest", "total", "done"},
                     part : SUBSET AnyRow]
      BY <2>1, <3>1, <3>2
    <3> QED
      BY <3>3, <3>4
  <2> QED
    BY <2>2, <2>3
<1>6. /\ RowTypes' /\ RowsInv' /\ Shown(list)' = R
      /\ \A r : Timed(list, r)' = Timed(list, r)
      /\ \A l, r, s : Ahead(l, r, s)' = Ahead(l, r, s)
      /\ \A r : Place(list, Shown(list), r)' = Place(list, R, r)
      /\ \A r : Place("all", Shown("sent"), r)' = Place("all", Shown("sent"), r)
  <2>1. /\ RowTypes' = RowTypes /\ RowsInv' = RowsInv
        /\ Shown(list)' = R /\ Shown("sent")' = Shown("sent")
        /\ \A r : Timed(list, r)' = Timed(list, r)
        /\ \A l, r, s : Ahead(l, r, s)' = Ahead(l, r, s)
    BY <1>2, <1>4, Unmoved
  <2>2. \A r : Place(list, Shown(list), r)' = Place(list, R, r)
    BY <2>1 DEF Place
  <2>3. \A r : Place("all", Shown("sent"), r)' = Place("all", Shown("sent"), r)
    BY <2>1 DEF Place
  <2> QED
    BY <1>3, <2>1, <2>2, <2>3
<1>7. \A l, r : Excused(l, r)' = Excused(l, r)
  BY <1>4, <1>6 DEF Excused
<1>8. Walked' = Walked /\ Walked = walk.offset + Limit
  BY <1>3, <1>5 DEF Walked
<1>9. Types'
  BY <1>4, <1>5, <1>6 DEF Inv, Types
<1>10. WalkInv'
  <2>1. \A r \in seen' \cup walk'.part : Timed(list, r)'
    BY <1>1, <1>3, <1>4, <1>5, <1>6 DEF WalkInv
  <2>2. walk'.offset \in {0, Limit} \/ walk'.offset >= Limit + Limit
    BY <1>3, <1>5 DEF WalkInv
  <2>3. Walked' # 0
    BY <1>3, <1>8
  <2> QED
    BY <1>5, <2>1, <2>2, <2>3 DEF WalkInv
<1>11. ASSUME list # "all"
       PROVE  MissedInv'
  <2>1. ASSUME NEW r \in R \ (fresh' \cup seen')
        PROVE  Unread(list, r)'
    <3>1. Unread(list, r)
      BY <1>1, <1>2, <1>3, <1>4, <1>11, <2>1 DEF Inv, MissedInv
    <3> QED
      BY <1>2, <1>3, <1>4, <1>5, <1>6, <1>8, <3>1 DEF Unread
  <2>2. walk'.step = "done" => Cardinality(R) <= Walked'
    <3>1. Cardinality(R) <= Total(list) /\ Total(list) \in Nat /\ Cardinality(R) \in Nat
      BY <1>2, <1>3, <1>11, TotalCounts, ShownIsRows, Counted
    <3> QED
      BY <1>3, <1>5, <1>8, <3>1
  <2> QED
    BY <1>5, <1>6, <2>1, <2>2 DEF MissedInv
<1>12. ASSUME list # "all"
       PROVE  SeenInv'
  <2>1. \A r \in seen' \cap Shown(list)' :
          Excused(list, r)' \/ Place(list, Shown(list), r)' < Walked'
    BY <1>1, <1>2, <1>4, <1>6, <1>7, <1>8, <1>12 DEF Inv, SeenInv
  <2> QED
    BY <1>5, <2>1 DEF SeenInv
<1>13. ASSUME list = "all"
       PROVE  SeenAllInv'
  <2>1. ASSUME NEW r \in seen', r \in Shown("all")'
        PROVE  \/ Excused("all", r)'
               \/ Place("all", Shown("sent"), r)' < (IF r[2] = "sent" THEN Walked' ELSE Limit)
               \/ r[2] # "sent" /\ Walked' >= Limit + Limit
    <3>1. r \in seen /\ r \in Shown("all")
      BY <1>2, <1>4, <1>6, <1>13, <2>1
    <3>2. \/ Excused("all", r)
          \/ Place("all", Shown("sent"), r) < (IF r[2] = "sent" THEN Walked ELSE Limit)
          \/ r[2] # "sent" /\ Walked >= Limit + Limit
      BY <1>1, <1>13, <3>1 DEF Inv, SeenAllInv
    <3> QED
      BY <1>6, <1>7, <1>8, <3>2
  <2> QED
    BY <1>5, <2>1 DEF SeenAllInv
<1>14. AgainInv'
  <2>1. \A r \in again' : Excused(list, r)'
    BY <1>1, <1>4, <1>7 DEF Inv, AgainInv
  <2> QED
    BY <1>5, <2>1 DEF AgainInv
<1>15. /\ list = "all" => MissedInv' /\ SeenInv'
       /\ list # "all" => SeenAllInv'
  BY <1>5 DEF MissedInv, SeenInv, SeenAllInv
<1> QED
  BY <1>6, <1>9, <1>10, <1>11, <1>12, <1>13, <1>14, <1>15 DEF Inv

-----------------------------------------------------------------------------
(* The list of all mails. *)

LEMMA AllIsBoth ==
  /\ Shown("all") = Shown("received") \cup Shown("sent")
  /\ \A r \in Shown("received") : r[2] = "received"
  /\ \A r \in Shown("sent") : r[2] = "sent"
  BY DEF Shown, Among, Matches

LEMMA AllAsSent ==
  /\ \A r, s : Ahead("all", r, s) = Ahead("sent", r, s)
  /\ \A R, r : Place("all", R, r) = Place("sent", R, r)
  /\ \A r : Timed("all", r)
<1>1. \A r, s : Ahead("all", r, s) = Ahead("sent", r, s)
  BY DEF Ahead, Time
<1>2. \A R, r : Place("all", R, r) = Place("sent", R, r)
  BY <1>1 DEF Place
<1> QED
  BY <1>1, <1>2 DEF Timed

(* The received mails of a page have been read. *)
LEMMA ReadReceivedKeeps ==
  ASSUME Inv, walk.step = "page", walk.list = "all",
         Goes("rest", queryUserMailbox("received", walk.offset)),
         UNCHANGED <<rowVars, seen, again, gone, fresh>>
  PROVE  Inv'
<1>1. PICK P : P = Page("received", Shown("received"), walk.offset)
  OBVIOUS
<1>2. /\ walk.offset \in Nat /\ Limit \in Nat /\ RowTypes /\ RowsInv /\ WalkInv
  BY LimitAssumption DEF Inv, Types
<1>3. P \in SUBSET Shown("received") /\ P \in SUBSET AnyRow
  BY <1>1, <1>2, ShownIsRows DEF Page
<1>4. /\ walk'.list = "all" /\ walk'.step = "rest" /\ walk'.offset = walk.offset /\ walk'.part = P
      /\ walk' \in [list : Lists, offset : Nat, step : {"none", "page", "rest", "total", "done"},
                    part : SUBSET AnyRow]
  <2>1. walk' = [walk EXCEPT !.step = "rest", !.part = P]
    BY <1>1 DEF Goes, queryUserMailbox
  <2> QED
    BY <1>3, <2>1 DEF Inv, Types
<1>5. Cardinality(P) <= Limit
  <2>1. Shown("received") \in SUBSET AnyRow /\ Sorted("received", Shown("received")) /\ Times
    BY <1>2, ShownIsRows, ShownIsSorted DEF RowTypes, Times
  <2> QED
    BY <1>1, <1>2, <2>1, PageIsSmall
<1>6. /\ RowTypes' /\ RowsInv' /\ Shown("all")' = Shown("all")
      /\ \A r : Timed("all", r)' = Timed("all", r)
      /\ \A r, s : Ahead("all", r, s)' = Ahead("all", r, s)
      /\ \A r : Place("all", Shown("sent"), r)' = Place("all", Shown("sent"), r)
  <2>1. /\ RowTypes' = RowTypes /\ RowsInv' = RowsInv
        /\ Shown("all")' = Shown("all") /\ Shown("sent")' = Shown("sent")
        /\ \A r : Timed("all", r)' = Timed("all", r)
        /\ \A r, s : Ahead("all", r, s)' = Ahead("all", r, s)
    BY Unmoved
  <2>2. \A r : Place("all", Shown("sent"), r)' = Place("all", Shown("sent"), r)
    BY <2>1 DEF Place
  <2> QED
    BY <1>2, <2>1, <2>2
<1>7. \A r : Excused("all", r)' = Excused("all", r)
  BY <1>6 DEF Excused
<1>8. Walked' = Walked
  BY <1>4 DEF Walked
<1>9. Types'
  BY <1>4, <1>6 DEF Inv, Types
<1>10. WalkInv'
  <2>1. \A r \in seen' \cup walk'.part : Timed("all", r)'
    BY <1>6, AllAsSent
  <2>2. \A r \in P : r[2] = "received"
    BY <1>3, AllIsBoth
  <2> QED
    BY <1>2, <1>4, <1>5, <1>8, <2>1, <2>2 DEF WalkInv
<1>11. SeenAllInv'
  <2>1. ASSUME NEW r \in seen, r \in Shown("all") \/ r \in P
        PROVE  \/ Excused("all", r)
               \/ Place("all", Shown("sent"), r) < (IF r[2] = "sent" THEN Walked ELSE Limit)
               \/ r[2] # "sent" /\ Walked >= Limit + Limit
    <3>1. r \in Shown("all")
      BY <1>3, <2>1, AllIsBoth
    <3> QED
      BY <2>1, <3>1 DEF Inv, SeenAllInv
  <2> QED
    BY <1>4, <1>6, <1>7, <1>8, <2>1 DEF SeenAllInv
<1>12. MissedInv' /\ SeenInv'
  BY <1>4 DEF MissedInv, SeenInv
<1>13. AgainInv'
  <2>1. \A r \in again' : Excused("all", r)'
    BY <1>7 DEF Inv, AgainInv
  <2> QED
    BY <1>4, <2>1 DEF AgainInv
<1> QED
  BY <1>6, <1>9, <1>10, <1>11, <1>12, <1>13 DEF Inv

(* What the page of the two pages shows: on the second page nothing that    *)
(* was on the first, and from the third page on nothing at all.             *)
LEMMA PageOfPages ==
  ASSUME Inv, walk.step = "rest", walk.list = "all"
  PROVE  LET Sent == Shown("sent")
             P == GetAllEmails(walk.part, GetSentEmails(walk.offset), walk.offset)
         IN /\ P \in SUBSET AnyRow
            /\ \A r \in P : r \in seen => Excused("all", r)
            /\ \A r \in P :
                 \/ Place("all", Sent, r) < (IF r[2] = "sent" THEN walk.offset + Limit ELSE Limit)
                 \/ r[2] # "sent" /\ walk.offset >= Limit
<1>. DEFINE K == walk.offset
            Sent == Shown("sent")
            S == Page("sent", Sent, K)
            U == walk.part \cup S
            P == Page("all", U, K)
<1>1. /\ K \in Nat /\ Limit \in Nat /\ Limit # 0 /\ RowTypes /\ RowsInv /\ WalkInv /\ Times
  BY LimitAssumption DEF Inv, Types, RowTypes, Times
<1>2. GetAllEmails(walk.part, GetSentEmails(K), K) = P
  BY DEF GetAllEmails, GetSentEmails
<1>3. /\ walk.part \in SUBSET AnyRow /\ Cardinality(walk.part) <= Limit
      /\ \A r \in walk.part : r[2] = "received"
  BY <1>1 DEF Inv, Types, WalkInv
<1>4. /\ Sent \in SUBSET AnyRow /\ Sorted("sent", Sent) /\ Sorted("all", Sent)
      /\ \A r \in Sent : r[2] = "sent"
  <2>1. Sorted("sent", Sent)
    BY <1>1, ShownIsSorted DEF Lists
  <2>2. Sorted("all", Sent)
    BY <2>1, AllAsSent DEF Sorted
  <2> QED
    BY <1>1, <2>1, <2>2, ShownIsRows, AllIsBoth
<1>5. S \in SUBSET Sent /\ Cardinality(S) <= Limit
  <2>1. Cardinality(S) <= Limit
    BY <1>1, <1>4, PageIsSmall
  <2> QED
    BY <2>1 DEF Page
<1>6. \A r \in Sent : r \in S <=> Place("all", Sent, r) \in K .. K + Limit - 1
  BY AllAsSent DEF Page
<1>7. U \in SUBSET AnyRow
  BY <1>3, <1>4, <1>5
<1>8. P \in SUBSET U /\ \A r \in P : Place("all", U, r) \in K .. K + Limit - 1
  BY DEF Page
<1>9. \A r : Place("all", Sent, r) \in Nat /\ Place("all", U, r) \in Nat
  BY <1>4, <1>7, PlaceType
<1>10. K = 0 \/ K = Limit \/ K >= Limit + Limit
  BY <1>1 DEF WalkInv
<1>11. ASSUME NEW r \in P, K >= Limit + Limit
       PROVE  FALSE
  <2>1. Place("all", U, r) < Cardinality(U)
    BY <1>1, <1>7, <1>8, PlaceInside
  <2>2. Cardinality(U) <= Limit + Limit
    <3>1. /\ IsFiniteSet(walk.part) /\ Cardinality(walk.part) \in Nat
          /\ IsFiniteSet(S) /\ Cardinality(S) \in Nat
      BY <1>3, <1>4, <1>5, Counted
    <3>2. walk.part \cap S \in SUBSET AnyRow
      BY <1>3
    <3>3. Cardinality(walk.part \cap S) \in Nat
      BY <3>2, Counted
    <3>4. Cardinality(U) = Cardinality(walk.part) + Cardinality(S) - Cardinality(walk.part \cap S)
      BY <3>1, FS_Union
    <3> QED
      BY <1>1, <1>3, <1>5, <3>1, <3>3, <3>4
  <2>3. Cardinality(U) \in Nat
    BY <1>7, Counted
  <2>4. Place("all", U, r) \in K .. K + Limit - 1
    BY <1>8
  <2>5. Place("all", U, r) >= K
    BY <1>1, <1>9, <2>4
  <2> QED
    BY <1>1, <1>9, <1>11, <2>1, <2>2, <2>3, <2>5
<1>12. ASSUME NEW r \in P, r \in seen
       PROVE  Excused("all", r)
  <2>. SUFFICES ASSUME ~Excused("all", r)
                PROVE  FALSE
    OBVIOUS
  <2>1. Walked = K
    BY <1>1 DEF Walked
  <2>2. K = Limit
    BY <1>1, <1>10, <1>11, <1>12, <2>1 DEF WalkInv
  <2>3. r \in AnyRow /\ r \in U /\ Place("all", U, r) \in K .. K + Limit - 1
    BY <1>7, <1>8
  <2>4. r \in Shown("all") \/ r \in walk.part
    BY <1>5, <2>3, AllIsBoth
  <2>5. Place("all", Sent, r) < Limit
    <3>1. \/ Place("all", Sent, r) < (IF r[2] = "sent" THEN Walked ELSE Limit)
          \/ r[2] # "sent" /\ Walked >= Limit + Limit
      BY <1>12, <2>4 DEF Inv, SeenAllInv
    <3> QED
      BY <1>1, <2>1, <2>2, <3>1
  <2>6. r \notin S
    BY <1>1, <1>5, <1>6, <1>9, <2>2, <2>5
  <2>7. r \in walk.part
    BY <2>3, <2>6
  <2>8. ASSUME NEW s \in S, Ahead("all", s, r)
        PROVE  FALSE
    <3>1. s \in Sent /\ Place("all", Sent, s) \in K .. K + Limit - 1
      BY <1>5, <1>6
    <3>2. Place("all", Sent, s) < Place("all", Sent, r)
      BY <1>1, <1>4, <2>3, <2>8, <3>1, PlaceGrows
    <3> QED
      BY <1>1, <1>9, <2>2, <2>5, <3>1, <3>2
  <2>9. {s \in U : Ahead("all", s, r)} = {s \in walk.part : Ahead("all", s, r)}
    BY <2>8
  <2>10. Place("all", U, r) = Place("all", walk.part, r)
    BY <2>9 DEF Place
  <2>11. Place("all", walk.part, r) < Cardinality(walk.part)
    BY <1>1, <1>3, <2>7, PlaceInside
  <2>12. Cardinality(walk.part) \in Nat
    BY <1>3, Counted
  <2> QED
    BY <1>1, <1>3, <1>9, <2>2, <2>3, <2>10, <2>11, <2>12
<1>13. ASSUME NEW r \in P
       PROVE  \/ Place("all", Sent, r) < (IF r[2] = "sent" THEN K + Limit ELSE Limit)
              \/ r[2] # "sent" /\ K >= Limit
  <2>1. r \in AnyRow /\ r \in U /\ Place("all", U, r) \in K .. K + Limit - 1
    BY <1>7, <1>8
  <2>2. CASE r \in S
    <3>1. r[2] = "sent" /\ Place("all", Sent, r) \in K .. K + Limit - 1
      BY <1>4, <1>5, <1>6, <2>2
    <3> QED
      BY <1>1, <1>9, <3>1
  <2>3. CASE r \in walk.part /\ K = 0
    <3>1. r[2] # "sent"
      BY <1>3, <2>3
    <3>2. CASE Place("all", Sent, r) >= Limit
      <4>1. \A s \in Sent : Place("all", Sent, s) < Limit => s \in U
        BY <1>1, <1>6, <1>9, <2>3
      <4>2. Place("all", U, r) >= Limit
        BY <1>1, <1>4, <1>7, <2>1, <3>2, <4>1, BehindAPage
      <4> QED
        BY <1>1, <1>9, <2>1, <2>3, <4>2
    <3>3. CASE ~(Place("all", Sent, r) >= Limit)
      BY <1>1, <1>9, <3>1, <3>3
    <3> QED
      BY <3>2, <3>3
  <2>4. CASE r \in walk.part /\ K # 0
    BY <1>1, <1>3, <1>10, <2>4
  <2> QED
    BY <2>1, <2>2, <2>3, <2>4
<1> QED
  BY <1>2, <1>7, <1>8, <1>12, <1>13

LEMMA ShowAllKeeps ==
  ASSUME Inv, walk.step = "rest", walk.list = "all",
         Shows(GetAllEmails(walk.part, GetSentEmails(walk.offset), walk.offset))
  PROVE  Inv'
<1>1. PICK P : P = GetAllEmails(walk.part, GetSentEmails(walk.offset), walk.offset)
  OBVIOUS
<1>2. /\ walk.offset \in Nat /\ Limit \in Nat /\ Limit # 0 /\ RowTypes /\ RowsInv /\ WalkInv
  BY LimitAssumption DEF Inv, Types
<1>3. /\ P \in SUBSET AnyRow
      /\ \A r \in P : r \in seen => Excused("all", r)
      /\ \A r \in P :
           \/ Place("all", Shown("sent"), r) < (IF r[2] = "sent" THEN walk.offset + Limit ELSE Limit)
           \/ r[2] # "sent" /\ walk.offset >= Limit
  BY <1>1, PageOfPages
<1>4. /\ walk' = [walk EXCEPT !.step = "total", !.part = P]
      /\ seen' = seen \cup P /\ again' = again \cup (seen \cap P)
      /\ UNCHANGED <<rowVars, gone, fresh>>
  BY <1>1 DEF Shows, Goes
<1>5. /\ walk'.list = "all" /\ walk'.step = "total" /\ walk'.offset = walk.offset /\ walk'.part = P
      /\ walk' \in [list : Lists, offset : Nat, step : {"none", "page", "rest", "total", "done"},
                    part : SUBSET AnyRow]
  BY <1>3, <1>4 DEF Inv, Types
<1>6. /\ RowTypes' /\ RowsInv' /\ Shown("all")' = Shown("all")
      /\ \A r, s : Ahead("all", r, s)' = Ahead("all", r, s)
      /\ \A r : Timed("all", r)'
      /\ \A r : Place("all", Shown("sent"), r)' = Place("all", Shown("sent"), r)
  <2>1. /\ RowTypes' = RowTypes /\ RowsInv' = RowsInv
        /\ Shown("all")' = Shown("all") /\ Shown("sent")' = Shown("sent")
        /\ \A r : Timed("all", r)' = Timed("all", r)
        /\ \A r, s : Ahead("all", r, s)' = Ahead("all", r, s)
    BY <1>4, Unmoved
  <2>2. \A r : Place("all", Shown("sent"), r)' = Place("all", Shown("sent"), r)
    BY <2>1 DEF Place
  <2> QED
    BY <1>2, <2>1, <2>2, AllAsSent
<1>7. \A r : Excused("all", r)' = Excused("all", r)
  BY <1>4, <1>6 DEF Excused
<1>8. Walked' = walk.offset + Limit /\ Walked = walk.offset
  BY <1>2, <1>5 DEF Walked
<1>9. Types'
  BY <1>3, <1>4, <1>5, <1>6 DEF Inv, Types
<1>10. WalkInv'
  <2>1. walk'.offset \in {0, Limit} \/ walk'.offset >= Limit + Limit
    BY <1>2, <1>5 DEF WalkInv
  <2>2. Walked' # 0
    BY <1>2, <1>8
  <2> QED
    BY <1>5, <1>6, <2>1, <2>2 DEF WalkInv
<1>11. SeenAllInv'
  <2>1. ASSUME NEW r \in seen \cup P, r \in Shown("all")
        PROVE  \/ Excused("all", r)
               \/ Place("all", Shown("sent"), r) < (IF r[2] = "sent" THEN Walked' ELSE Limit)
               \/ r[2] # "sent" /\ Walked' >= Limit + Limit
    <3>1. Place("all", Shown("sent"), r) \in Nat
      BY <1>2, ShownIsRows, PlaceType
    <3>2. CASE r \in seen
      <4>1. \/ Excused("all", r)
            \/ Place("all", Shown("sent"), r) < (IF r[2] = "sent" THEN Walked ELSE Limit)
            \/ r[2] # "sent" /\ Walked >= Limit + Limit
        BY <2>1, <3>2 DEF Inv, SeenAllInv
      <4> QED
        BY <1>2, <1>8, <3>1, <4>1
    <3>3. CASE r \in P
      BY <1>2, <1>3, <1>8, <3>1, <3>3
    <3> QED
      BY <2>1, <3>2, <3>3
  <2> QED
    BY <1>4, <1>5, <1>6, <1>7, <2>1 DEF SeenAllInv
<1>12. MissedInv' /\ SeenInv'
  BY <1>5 DEF MissedInv, SeenInv
<1>13. AgainInv'
  <2>1. \A r \in again' : Excused("all", r)
    BY <1>3, <1>4 DEF Inv, AgainInv
  <2> QED
    BY <1>5, <1>7, <2>1 DEF AgainInv
<1> QED
  BY <1>6, <1>9, <1>10, <1>11, <1>12, <1>13 DEF Inv

-----------------------------------------------------------------------------
(* The invariant. *)

LEMMA InitInv == Init => Inv
<1>. SUFFICES ASSUME Init PROVE Inv
  OBVIOUS
<1>1. RowTypes /\ RowsInv
  BY DEF Init, RowTypes, RowsInv
<1>2. walk \in [list : Lists, offset : Nat, step : {"none", "page", "rest", "total", "done"},
               part : SUBSET AnyRow]
  BY DEF Init, NoWalk, Lists
<1>3. /\ walk.list = "inbox" /\ walk.step = "none" /\ walk.offset = 0 /\ walk.part = {}
      /\ seen = {} /\ again = {} /\ gone = {} /\ fresh = {}
  BY DEF Init, NoWalk
<1>4. Types /\ WalkInv
  BY <1>1, <1>2, <1>3 DEF Types, WalkInv
<1>5. MissedInv /\ SeenInv /\ SeenAllInv /\ AgainInv
  BY <1>3 DEF MissedInv, SeenInv, SeenAllInv, AgainInv
<1> QED
  BY <1>1, <1>4, <1>5 DEF Inv

LEMMA NextInv == Inv /\ [Next]_vars => Inv'
<1>. SUFFICES ASSUME Inv, [Next]_vars PROVE Inv'
  OBVIOUS
<1>1. CASE Moving
  <2>1. RowTypes' /\ RowsInv' /\ Steady /\ Notes(rows', flags')
    BY <1>1, MovingKeeps DEF Inv, Types
  <2> QED
    BY <2>1, WalkSeesMoves, WalkIsOver
<1>2. ASSUME NEW list \in Lists, Open(list)
      PROVE  Inv'
  BY <1>2, OpenKeeps
<1>3. CASE ReadMailbox
  BY <1>3, ReadPageKeeps DEF ReadMailbox, queryUserMailbox
<1>4. CASE ReadSent
  BY <1>4, ReadPageKeeps DEF ReadSent, GetSentEmails
<1>5. CASE ReadDrafts
  BY <1>5, ReadPageKeeps DEF ReadDrafts, GetDrafts
<1>6. CASE ReadFolder
  BY <1>6, ReadFolderKeeps
<1>7. CASE ReadAll
  BY <1>7, ReadReceivedKeeps, ShowAllKeeps DEF ReadAll
<1>8. CASE ReadTotal
  BY <1>8, ReadTotalKeeps
<1>9. CASE UNCHANGED vars
  <2>1. UNCHANGED rowVars /\ UNCHANGED <<walk, seen, again, gone, fresh>>
    BY <1>9 DEF vars, walkVars
  <2>2. UNCHANGED <<rows, came, filed, flags>>
    BY <2>1 DEF rowVars
  <2> QED
    BY <2>1, <2>2 DEF Inv, Types, RowTypes, RowsInv, WalkInv, MissedInv, SeenInv, SeenAllInv, AgainInv,
                      Walked, Timed, Time, Ahead, Place, Shown, Among, Unread, Excused
<1> QED
  BY <1>1, <1>2, <1>3, <1>4, <1>5, <1>6, <1>7, <1>8, <1>9 DEF Next, Moving

(* The invariant holds in every state. *)
LEMMA Invariant == Spec => []Inv
<1> QED
  BY InitInv, NextInv, PTL DEF Spec

(* Whoever walks through a list, but that of all mails, to its end has seen *)
(* each row that was there all the time, unless a row ahead of it left.     *)
THEOREM NothingMissedAlways == Spec => []NothingMissed
<1>1. Inv => NothingMissed
  <2>. SUFFICES ASSUME Inv, walk.step = "done", walk.list # "all",
                       NEW r \in Shown(walk.list) \ (fresh \cup seen)
                PROVE  \E g \in gone : Ahead(walk.list, g, r)
    BY DEF NothingMissed
  <2>1. PICK R : R = Shown(walk.list)
    OBVIOUS
  <2>2. RowTypes /\ Times /\ R \in SUBSET AnyRow
    BY <2>1, ShownIsRows DEF Inv, Types, RowTypes, Times
  <2>3. Unread(walk.list, r) /\ Cardinality(R) <= Walked
    BY <2>1 DEF Inv, MissedInv
  <2>4. Place(walk.list, R, r) < Cardinality(R)
    BY <2>1, <2>2, PlaceInside
  <2>5. Place(walk.list, R, r) \in Nat /\ Cardinality(R) \in Nat /\ Walked \in Nat
    BY <2>2, PlaceType, Counted, LimitAssumption DEF Inv, Types, Walked
  <2> QED
    BY <2>1, <2>3, <2>4, <2>5 DEF Unread
<1> QED
  BY <1>1, Invariant, PTL

(* No row of any list is shown twice, unless it or one ahead of it came     *)
(* into the list during the walk; in the list of all mails neither,         *)
(* although its pages are taken from two lists of another order.            *)
THEOREM NothingTwiceAlways == Spec => []NothingTwice
<1>1. Inv => NothingTwice
  BY DEF Inv, AgainInv, Excused, NothingTwice
<1> QED
  BY <1>1, Invariant, PTL

(* The first page of all mails has the newest of both lists, while the      *)
(* mails came in the order of their numbers.                                *)
THEOREM FirstPageIsNewestAlways == Spec => []FirstPageIsNewest
<1>1. Inv => FirstPageIsNewest
  <2>. SUFFICES ASSUME Inv, \A e, f \in Arrived : e < f => came[e] < came[f]
                PROVE  GetAllEmails(queryUserMailbox("received", 0), GetSentEmails(0), 0)
                         = Page("all", Shown("all"), 0)
    BY DEF FirstPageIsNewest
  <2>. DEFINE In == Shown("received")
              Sent == Shown("sent")
              Both == Shown("all")
              Q == Page("received", In, 0) \cup Page("sent", Sent, 0)
  <2>1. RowTypes /\ RowsInv /\ Times /\ Limit \in Nat
    BY LimitAssumption DEF Inv, Types, RowTypes, Times
  <2>2. /\ In \in SUBSET AnyRow /\ Sent \in SUBSET AnyRow /\ Both \in SUBSET AnyRow
        /\ Sorted("all", Both) /\ Both = In \cup Sent
    BY <2>1, ShownIsRows, ShownIsSorted, AllIsBoth DEF Lists
  <2>3. \A R \in SUBSET AnyRow : \A r : Place("all", R, r) \in Nat
    BY PlaceType
  <2>4. ASSUME NEW r \in In, NEW s \in In
        PROVE  Ahead("received", s, r) = Ahead("all", s, r)
    <3>1. /\ r[1] \in Mails /\ s[1] \in Mails /\ r[1] \in Nat /\ s[1] \in Nat
          /\ came[r[1]] \in Nat /\ came[s[1]] \in Nat
      <4>1. r[1] \in Mails /\ s[1] \in Mails
        BY <2>2 DEF AnyRow
      <4> QED
        BY <2>1, <4>1, MailsAssumption DEF RowTypes
    <3>2. came[r[1]] # 0 /\ came[s[1]] # 0
      <4>1. Timed("received", r) /\ Timed("received", s)
        BY <2>1, ShownIsTimed
      <4> QED
        BY <4>1 DEF Timed, Time
    <3>3. /\ r[1] < s[1] => came[r[1]] < came[s[1]]
          /\ s[1] < r[1] => came[s[1]] < came[r[1]]
      BY <3>1, <3>2 DEF Arrived
    <3>4. s[1] > r[1] <=> came[s[1]] > came[r[1]]
      BY <3>1, <3>3
    <3> QED
      BY <3>4 DEF Ahead, Time
  <2>5. \A r \in In : Place("received", In, r) = Place("all", In, r)
    <3>1. ASSUME NEW r \in In
          PROVE  Place("received", In, r) = Place("all", In, r)
      <4>1. {s \in In : Ahead("received", s, r)} = {s \in In : Ahead("all", s, r)}
        BY <2>4
      <4> QED
        BY <4>1 DEF Place
    <3> QED
      BY <3>1
  <2>6. /\ \A r \in In : Place("all", In, r) < Limit => r \in Q
        /\ \A r \in Sent : Place("all", Sent, r) < Limit => r \in Q
        /\ Q \in SUBSET Both
    <3>1. \A r \in Sent : Place("sent", Sent, r) = Place("all", Sent, r)
      BY AllAsSent
    <3>2. \A r \in In : Place("received", In, r) \in 0 .. 0 + Limit - 1 <=> Place("all", In, r) < Limit
      BY <2>1, <2>2, <2>3, <2>5
    <3>3. \A r \in Sent : Place("sent", Sent, r) \in 0 .. 0 + Limit - 1 <=> Place("all", Sent, r) < Limit
      BY <2>1, <2>2, <2>3, <3>1
    <3> QED
      BY <2>2, <3>2, <3>3 DEF Page
  <2>7. \A r \in Both : Place("all", Both, r) < Limit => r \in Q
    <3>1. ASSUME NEW r \in Both, Place("all", Both, r) < Limit
          PROVE  r \in Q
      <4>1. Place("all", In, r) <= Place("all", Both, r) /\ Place("all", Sent, r) <= Place("all", Both, r)
        BY <2>2, PlaceOfMore
      <4>2. Place("all", In, r) < Limit /\ Place("all", Sent, r) < Limit
        BY <2>1, <2>2, <2>3, <3>1, <4>1
      <4> QED
        BY <2>2, <2>6, <4>2
    <3> QED
      BY <3>1
  <2>8. ASSUME NEW r \in Q
        PROVE  Place("all", Q, r) < Limit <=> Place("all", Both, r) < Limit
    <3>1. r \in AnyRow /\ Q \in SUBSET AnyRow /\ Place("all", Q, r) <= Place("all", Both, r)
      BY <2>2, <2>6, PlaceOfMore
    <3>2. Place("all", Both, r) >= Limit => Place("all", Q, r) >= Limit
      BY <2>1, <2>2, <2>7, <3>1, BehindAPage
    <3> QED
      BY <2>1, <2>2, <2>3, <3>1, <3>2
  <2>9. GetAllEmails(queryUserMailbox("received", 0), GetSentEmails(0), 0) = Page("all", Q, 0)
    BY DEF GetAllEmails, queryUserMailbox, GetSentEmails
  <2>10. Page("all", Q, 0) = {r \in Q : Place("all", Q, r) < Limit}
    <3>1. Q \in SUBSET AnyRow
      BY <2>2, <2>6
    <3>2. \A r : Place("all", Q, r) \in 0 .. 0 + Limit - 1 <=> Place("all", Q, r) < Limit
      BY <2>1, <2>3, <3>1
    <3> QED
      BY <3>2 DEF Page
  <2>11. Page("all", Both, 0) = {r \in Both : Place("all", Both, r) < Limit}
    <3>1. \A r : Place("all", Both, r) \in 0 .. 0 + Limit - 1 <=> Place("all", Both, r) < Limit
      BY <2>1, <2>2, <2>3
    <3> QED
      BY <3>1 DEF Page
  <2> QED
    BY <2>6, <2>7, <2>8, <2>9, <2>10, <2>11
<1> QED
  BY <1>1, Invariant, PTL
=============================================================================
