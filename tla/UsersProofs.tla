---------------------------- MODULE UsersProofs ----------------------------
(***************************************************************************)
(* Proofs about Users, for any accounts, addresses, browsers and requests, *)
(* and any bound of their number.                                          *)
(***************************************************************************)
EXTENDS Users, TLAPS

(* The requests whose statement may have been executed. *)
Executed(i, k) == {r \in Changing(i, k) : req[r].step \notin {"checked", "put"}}

(* What a request knows at each of its steps. *)
Staged ==
  \A r \in Requests :
    /\ req[r].step = "free" =>
         /\ req[r].kind = "signup" /\ req[r].browser \in Browsers
         /\ req[r].address \in Addresses /\ req[r].new \in Values
    /\ req[r].step = "token" =>
         /\ req[r].kind \in {"signup", "signin"} /\ req[r].browser \in Browsers
         /\ req[r].user \in DOMAIN users
    /\ req[r].step = "checked" => req[r].kind \in {"password", "name"}
    /\ req[r].step \in {"put", "stored", "undo"} => req[r].kind = "avatar"
    /\ req[r].step = "written" => req[r].kind \in Column
    /\ req[r].kind \in Column => req[r].step # "idle" /\ req[r].new \in Values

(* Two requests that change the same column have met. *)
Met ==
  \A r, s \in Requests :
    /\ req[r].kind \in Column /\ req[s].kind = req[r].kind
    /\ req[s].user = req[r].user /\ s # r
    => s \in req[r].met

(* Of an account that is not there nothing was told. *)
Untold == \A i \in Ids \ DOMAIN users : told[i] = [k \in Column |-> {Nobody}]

(* What the answers, and the changes on their way, explain of a column. *)
Told(i, k) == told[i][k] \cup {req[r].new : r \in Executed(i, k)}

(* AsTold, with only those requests that have executed something, and for *)
(* an object that no row leads to as well.                                *)
Explained ==
  /\ \A i \in Ids : object[i] \in Told(i, "avatar")
  /\ \A i \in DOMAIN users :
       /\ users[i].password \in Told(i, "password")
       /\ users[i].name \in Told(i, "name")
       /\ users[i].image_path # "key" => Nobody \in Told(i, "avatar")

(* A request that met nobody finds what it wrote. *)
Finds(r) ==
  /\ req[r].step = "written" /\ req[r].kind = "password"
       => users[req[r].user].password = req[r].new
  /\ req[r].step = "written" /\ req[r].kind = "name"
       => users[req[r].user].name = req[r].new
  /\ req[r].step \in {"stored", "written"} /\ req[r].kind = "avatar"
       => object[req[r].user] = req[r].new
  /\ req[r].step = "written" /\ req[r].kind = "avatar"
       => users[req[r].user].image_path = "key"

Unmet == \A r \in Requests : req[r].met = {} => Finds(r)

(* The comparison of a request that met nobody still holds. *)
Compared ==
  \A r \in Requests :
    req[r].met = {} /\ req[r].kind = "password" /\ req[r].step = "checked"
      => users[req[r].user].password = req[r].old

(* A browser gave a password that the account has had. *)
Proven(b, i) == \E p \in past[i] : <<users[i].address, p>> \in gave[b]

(* Tokens and what leads to them; the cookies are SessionProven. *)
Tokens ==
  /\ \A i \in DOMAIN users : users[i].password \in past[i]
  /\ \A b \in Browsers : cookie[b] # Nobody => Proven(b, cookie[b])
  /\ \A r \in Requests :
       /\ req[r].step = "token" => Proven(req[r].browser, req[r].user)
       /\ req[r].step = "free" =>
            <<req[r].address, req[r].new>> \in gave[req[r].browser]

Known == TypeOK /\ Staged /\ Met

-----------------------------------------------------------------------------
(* What becomes of the requests when one of them ends, goes on or begins.   *)
LEMMA IdleRequest == Idle \in Request /\ Idle.kind \notin Column
BY DEF Idle, Request, Column

LEMMA Ending ==
  ASSUME Known, NEW r \in Requests, Ends(r)
  PROVE  /\ req' \in [Requests -> Request]
         /\ req'[r] = Idle
         /\ \A s \in Requests : s # r => req'[s] = req[s]
BY IdleRequest DEF Known, TypeOK, Ends

LEMMA Going ==
  ASSUME Known, NEW r \in Requests,
         NEW step \in {"undo", "stored", "written"}, Goes(r, step)
  PROVE  /\ req' \in [Requests -> Request]
         /\ req'[r] = [req[r] EXCEPT !.step = step]
         /\ req'[r].step = step
         /\ req'[r].kind = req[r].kind /\ req'[r].user = req[r].user
         /\ req'[r].browser = req[r].browser /\ req'[r].address = req[r].address
         /\ req'[r].old = req[r].old /\ req'[r].new = req[r].new
         /\ req'[r].met = req[r].met
         /\ \A s \in Requests : s # r => req'[s] = req[s]
<1>1. req \in [Requests -> Request] /\ req[r] \in Request
  BY DEF Known, TypeOK
<1>2. req' = [req EXCEPT ![r] = [req[r] EXCEPT !.step = step]]
  BY <1>1 DEF Goes
<1>3. [req[r] EXCEPT !.step = step] \in Request
  BY <1>1 DEF Request
<1>4. req' \in [Requests -> Request] /\ req'[r] = [req[r] EXCEPT !.step = step]
      /\ \A s \in Requests : s # r => req'[s] = req[s]
  BY <1>1, <1>2, <1>3
<1>. QED
  BY <1>1, <1>4 DEF Request

LEMMA Beginning ==
  ASSUME Known, NEW r \in Requests, NEW q \in Request, Begins(r, q)
  PROVE  /\ req' \in [Requests -> Request]
         /\ req[r].step = "idle" /\ begun' \in 0 .. MaxRequests
         /\ req'[r].kind = q.kind /\ req'[r].step = q.step
         /\ req'[r].user = q.user /\ req'[r].browser = q.browser
         /\ req'[r].address = q.address /\ req'[r].new = q.new
         /\ req'[r].old = q.old
         /\ \A s \in Requests : s # r =>
              /\ req'[s].kind = req[s].kind /\ req'[s].step = req[s].step
              /\ req'[s].user = req[s].user /\ req'[s].browser = req[s].browser
              /\ req'[s].address = req[s].address /\ req'[s].new = req[s].new
              /\ req'[s].old = req[s].old
              /\ req[s].met \subseteq req'[s].met
              /\ q.kind \in Column /\ req[s].kind = q.kind /\ req[s].user = q.user
                   => s \in req'[r].met /\ r \in req'[s].met
<1>. DEFINE rivals == IF q.kind \in Column THEN Changing(q.user, q.kind) ELSE {}
<1>1. req' = [s \in Requests |->
                IF s = r THEN [q EXCEPT !.met = rivals]
                ELSE IF s \in rivals THEN [req[s] EXCEPT !.met = @ \cup {r}]
                ELSE req[s]]
  BY DEF Begins
<1>2. rivals \in SUBSET Requests
  BY DEF Changing
<1>3. [q EXCEPT !.met = rivals] \in Request
  BY <1>2 DEF Request
<1>4. \A s \in Requests :
        /\ req[s] \in Request
        /\ [req[s] EXCEPT !.met = @ \cup {r}] \in Request
  BY DEF Known, TypeOK, Request
<1>5. req' \in [Requests -> Request]
  BY <1>1, <1>3, <1>4
<1>6. begun' \in 0 .. MaxRequests /\ req[r].step = "idle"
  BY MaxRequestsAssumption DEF Begins, Known, TypeOK
<1>7. /\ req'[r] = [q EXCEPT !.met = rivals]
      /\ \A s \in Requests \ {r} :
           req'[s] = IF s \in rivals THEN [req[s] EXCEPT !.met = @ \cup {r}] ELSE req[s]
  BY <1>1
<1>8. \A s \in Requests \ {r} :
        /\ req'[s].kind = req[s].kind /\ req'[s].step = req[s].step
        /\ req'[s].user = req[s].user /\ req'[s].browser = req[s].browser
        /\ req'[s].address = req[s].address /\ req'[s].new = req[s].new
        /\ req'[s].old = req[s].old
        /\ req[s].met \subseteq req'[s].met
        /\ s \in rivals => r \in req'[s].met
  <2>. SUFFICES ASSUME NEW s \in Requests \ {r}
                PROVE  <1>8!(s)
    OBVIOUS
  <2>1. CASE s \in rivals
    <3>1. req'[s] = [req[s] EXCEPT !.met = @ \cup {r}] /\ req[s] \in Request
      BY <1>4, <1>7, <2>1
    <3>. QED  BY <3>1 DEF Request
  <2>2. CASE s \notin rivals
    BY <1>7, <2>2
  <2>. QED  BY <2>1, <2>2
<1>9. /\ req'[r].kind = q.kind /\ req'[r].step = q.step
      /\ req'[r].user = q.user /\ req'[r].browser = q.browser
      /\ req'[r].address = q.address /\ req'[r].new = q.new
      /\ req'[r].old = q.old /\ req'[r].met = rivals
  BY <1>7 DEF Request
<1>10. \A s \in Requests : q.kind \in Column /\ req[s].kind = q.kind /\ req[s].user = q.user
         => s \in rivals
  BY DEF Changing
<1>. QED
  BY <1>5, <1>6, <1>8, <1>9, <1>10

-----------------------------------------------------------------------------
(* Staged and Met survive what may become of the requests, while the table  *)
(* loses no account.                                                        *)
Sound ==
  /\ req \in [Requests -> Request] /\ Staged /\ Met
  /\ \A r \in Requests : req[r].kind \in Column => req[r].user \in DOMAIN users

LEMMA IdleIsSound ==
  /\ Idle.step = "idle" /\ Idle.kind \notin Column /\ Idle.user = Nobody
  /\ Idle.met = {}
BY DEF Idle, Column

LEMMA EndingSound ==
  ASSUME Known, NEW r \in Requests, Ends(r), DOMAIN users \subseteq DOMAIN users'
  PROVE  Sound'
<1>1. /\ req' \in [Requests -> Request] /\ req'[r] = Idle
      /\ \A s \in Requests : s # r => req'[s] = req[s]
  BY Ending
<1>2. Staged'
  BY <1>1, IdleIsSound DEF Known, Staged
<1>3. Met'
  BY <1>1, IdleIsSound DEF Known, Met
<1>4. \A s \in Requests : req'[s].kind \in Column => req'[s].user \in DOMAIN users'
  BY <1>1, IdleIsSound DEF Known, TypeOK
<1>. QED
  BY <1>1, <1>2, <1>3, <1>4 DEF Sound, Column

LEMMA GoingSound ==
  ASSUME Known, NEW r \in Requests,
         NEW step \in {"undo", "stored", "written"}, Goes(r, step),
         req[r].kind \in Column, step # "written" => req[r].kind = "avatar",
         DOMAIN users \subseteq DOMAIN users'
  PROVE  Sound'
<1>1. /\ req' \in [Requests -> Request] /\ req'[r].step = step
      /\ req'[r].kind = req[r].kind /\ req'[r].user = req[r].user
      /\ req'[r].new = req[r].new /\ req'[r].met = req[r].met
      /\ \A s \in Requests : s # r => req'[s] = req[s]
  BY Going
<1>2. Staged'
  BY <1>1 DEF Known, Staged
<1>3. Met'
  BY <1>1 DEF Known, Met
<1>4. \A s \in Requests : req'[s].kind \in Column => req'[s].user \in DOMAIN users'
  BY <1>1 DEF Known, TypeOK
<1>. QED
  BY <1>1, <1>2, <1>3, <1>4 DEF Sound, Column

LEMMA BeginningSound ==
  ASSUME Known, NEW r \in Requests, NEW q \in Request, Begins(r, q),
         UNCHANGED users,
         \/ /\ q.kind = "signup" /\ q.step = "free" /\ q.browser \in Browsers
            /\ q.address \in Addresses /\ q.new \in Values
         \/ /\ q.kind = "signin" /\ q.step = "token" /\ q.browser \in Browsers
            /\ q.user \in DOMAIN users
         \/ /\ q.kind \in {"password", "name"} /\ q.step = "checked"
            /\ q.user \in DOMAIN users /\ q.new \in Values
         \/ /\ q.kind = "avatar" /\ q.step = "put"
            /\ q.user \in DOMAIN users /\ q.new \in Values
  PROVE  Sound' /\ begun' \in 0 .. MaxRequests
<1>1. /\ req' \in [Requests -> Request] /\ begun' \in 0 .. MaxRequests
      /\ req'[r].kind = q.kind /\ req'[r].step = q.step /\ req'[r].user = q.user
      /\ req'[r].browser = q.browser /\ req'[r].address = q.address
      /\ req'[r].new = q.new
  BY Beginning
<1>2. \A s \in Requests : s # r =>
        /\ req'[s].kind = req[s].kind /\ req'[s].step = req[s].step
        /\ req'[s].user = req[s].user /\ req'[s].browser = req[s].browser
        /\ req'[s].address = req[s].address /\ req'[s].new = req[s].new
        /\ req[s].met \subseteq req'[s].met
        /\ q.kind \in Column /\ req[s].kind = q.kind /\ req[s].user = q.user
             => s \in req'[r].met /\ r \in req'[s].met
  BY Beginning
<1>3. Staged'
  BY <1>1, <1>2 DEF Known, Staged, Column
<1>4. Met'
  <2>. SUFFICES ASSUME NEW s \in Requests, NEW t \in Requests,
                       req'[s].kind \in Column, req'[t].kind = req'[s].kind,
                       req'[t].user = req'[s].user, t # s
                PROVE  t \in req'[s].met
    BY DEF Met, Column
  <2>1. CASE s = r
    BY <1>1, <1>2, <2>1
  <2>2. CASE t = r
    BY <1>1, <1>2, <2>2
  <2>3. CASE s # r /\ t # r
    BY <1>2, <2>3 DEF Known, Met
  <2>. QED  BY <2>1, <2>2, <2>3
<1>5. \A s \in Requests : req'[s].kind \in Column => req'[s].user \in DOMAIN users'
  BY <1>1, <1>2 DEF Known, TypeOK, Column
<1>. QED
  BY <1>1, <1>3, <1>4, <1>5 DEF Sound, Column

-----------------------------------------------------------------------------
(* What becomes of the data.                                                *)
Data ==
  /\ DOMAIN users \subseteq Ids
  /\ \A i \in DOMAIN users : users[i] \in User
  /\ \A i, j \in DOMAIN users : users[i].address = users[j].address => i = j
  /\ object \in [Ids -> Values \cup {Nobody}]
  /\ cookie \in [Browsers -> DOMAIN users \cup {Nobody}]
  /\ told \in [Ids -> [Column -> SUBSET (Values \cup {Nobody})]]
  /\ gave \in [Browsers -> SUBSET (Addresses \X Values)]
  /\ past \in [Ids -> SUBSET Values]

LEMMA KnownParts == Known <=> Data /\ Sound /\ begun \in 0 .. MaxRequests
BY DEF Known, TypeOK, Data, Sound

(* A request for the change of a column, whose account is there. *)
LEMMA Changer ==
  ASSUME Known, NEW r \in Requests, req[r].kind \in Column
  PROVE  req[r].user \in DOMAIN users /\ req[r].user \in Ids /\ req[r].new \in Values
BY DEF Known, TypeOK, Staged

LEMMA Doubting ==
  ASSUME Known, NEW r \in Requests, NEW V \in SUBSET (Values \cup {Nobody}),
         req[r].kind \in Column, Doubts(r, V)
  PROVE  /\ told' \in [Ids -> [Column -> SUBSET (Values \cup {Nobody})]]
         /\ \A i \in Ids, k \in Column :
              told'[i][k] = IF i = req[r].user /\ k = req[r].kind
                            THEN told[i][k] \cup V ELSE told[i][k]
         /\ \A i \in Ids : i # req[r].user => told'[i] = told[i]
<1>1. PICK i \in Ids, k \in Column : i = req[r].user /\ k = req[r].kind
  BY Changer
<1>2. told \in [Ids -> [Column -> SUBSET (Values \cup {Nobody})]]
  BY DEF Known, TypeOK
<1>3. told' = [told EXCEPT ![i] = [told[i] EXCEPT ![k] = told[i][k] \cup V]]
  BY <1>1, <1>2 DEF Doubts
<1>4. told[i] \in [Column -> SUBSET (Values \cup {Nobody})]
  BY <1>2
<1>5. PICK w : w = [told[i] EXCEPT ![k] = told[i][k] \cup V]
  OBVIOUS
<1>6. /\ w \in [Column -> SUBSET (Values \cup {Nobody})]
      /\ \A c \in Column : w[c] = IF c = k THEN told[i][c] \cup V ELSE told[i][c]
  BY <1>4, <1>5
<1>7. /\ told' \in [Ids -> [Column -> SUBSET (Values \cup {Nobody})]]
      /\ told'[i] = w /\ \A j \in Ids : j # i => told'[j] = told[j]
  BY <1>2, <1>3, <1>5, <1>6
<1>. QED
  BY <1>1, <1>6, <1>7

(* A row is written, whose address stays. *)
LEMMA Updating ==
  ASSUME Known, NEW i \in DOMAIN users, NEW row \in User,
         row.address = users[i].address,
         users' = [users EXCEPT ![i] = row],
         UNCHANGED <<object, cookie, gave>>,
         told' \in [Ids -> [Column -> SUBSET (Values \cup {Nobody})]],
         past' \in [Ids -> SUBSET Values]
  PROVE  /\ Data' /\ DOMAIN users' = DOMAIN users /\ users'[i] = row
         /\ \A j \in DOMAIN users : j # i => users'[j] = users[j]
         /\ \A j \in DOMAIN users : users'[j].address = users[j].address
<1>1. /\ DOMAIN users' = DOMAIN users /\ users'[i] = row
      /\ \A j \in DOMAIN users : j # i => users'[j] = users[j]
  OBVIOUS
<1>2. \A j \in DOMAIN users : users'[j].address = users[j].address
  BY <1>1
<1>3. \A j \in DOMAIN users : users'[j] \in User
  BY <1>1 DEF Known, TypeOK
<1>. QED
  BY <1>1, <1>2, <1>3 DEF Known, TypeOK, Data

(* A sign-up whose row is inserted. *)
LEMMA Inserting ==
  ASSUME Known, NEW r \in Requests, NEW i \in Ids,
         Unique(req[r].address), Inserts(r, i)
  PROVE  /\ Data' /\ DOMAIN users' = DOMAIN users \cup {i} /\ i \notin DOMAIN users
         /\ req[r].step = "free" /\ UNCHANGED <<object, cookie, gave, begun>>
         /\ users'[i] = NewUser(req[r].address, req[r].new)
         /\ \A j \in DOMAIN users : users'[j] = users[j]
         /\ past'[i] = {req[r].new} /\ told'[i] = [told[i] EXCEPT !["password"] = {req[r].new}]
         /\ \A j \in Ids : j # i => past'[j] = past[j] /\ told'[j] = told[j]
<1>1. /\ req[r].address \in Addresses /\ req[r].new \in Values /\ req[r].step = "free"
  BY DEF Known, Staged, Inserts
<1>2. NewUser(req[r].address, req[r].new) \in User
  BY <1>1 DEF NewUser, User
<1>3. i \notin DOMAIN users /\ UNCHANGED <<object, cookie, gave, begun>>
  BY DEF Inserts
<1>4. /\ DOMAIN users' = DOMAIN users \cup {i}
      /\ users'[i] = NewUser(req[r].address, req[r].new)
      /\ \A j \in DOMAIN users : users'[j] = users[j]
  BY <1>3 DEF Inserts
<1>5. \A j \in DOMAIN users' : users'[j] \in User
  BY <1>2, <1>4 DEF Known, TypeOK
<1>6. ASSUME NEW j \in DOMAIN users', NEW k \in DOMAIN users',
             users'[j].address = users'[k].address
      PROVE  j = k
  <2>1. users'[i].address = req[r].address
    <3>1. NewUser(req[r].address, req[r].new).address = req[r].address
      BY DEF NewUser
    <3>. QED  BY <1>4, <3>1
  <2>2. \A l \in DOMAIN users : users'[l].address = users[l].address /\ users[l].address # req[r].address
    BY <1>4 DEF Unique
  <2>3. CASE j = i \/ k = i
    BY <1>4, <1>6, <2>1, <2>2, <2>3
  <2>4. CASE j # i /\ k # i
    BY <1>4, <1>6, <2>2, <2>4 DEF Known, TypeOK
  <2>. QED  BY <2>3, <2>4
<1>7. /\ past \in [Ids -> SUBSET Values]
      /\ told \in [Ids -> [Column -> SUBSET (Values \cup {Nobody})]]
  BY DEF Known, TypeOK
<1>8. past' \in [Ids -> SUBSET Values] /\ past'[i] = {req[r].new}
      /\ \A j \in Ids : j # i => past'[j] = past[j]
  BY <1>1, <1>7 DEF Inserts
<1>9. PICK w : w = [told[i] EXCEPT !["password"] = {req[r].new}]
  OBVIOUS
<1>10. told' = [told EXCEPT ![i] = w]
  BY <1>7, <1>9 DEF Inserts
<1>11. w \in [Column -> SUBSET (Values \cup {Nobody})]
  BY <1>1, <1>7, <1>9
<1>12. told' \in [Ids -> [Column -> SUBSET (Values \cup {Nobody})]] /\ told'[i] = w
       /\ \A j \in Ids : j # i => told'[j] = told[j]
  BY <1>7, <1>10, <1>11
<1>13. cookie' \in [Browsers -> DOMAIN users' \cup {Nobody}]
  BY <1>3, <1>4 DEF Known, TypeOK
<1>14. /\ DOMAIN users' \subseteq Ids /\ object' \in [Ids -> Values \cup {Nobody}]
       /\ gave' \in [Browsers -> SUBSET (Addresses \X Values)]
  BY <1>3, <1>4 DEF Known, TypeOK
<1>15. Data'
  BY <1>5, <1>6, <1>8, <1>12, <1>13, <1>14 DEF Data
<1>. QED
  BY <1>1, <1>3, <1>4, <1>8, <1>9, <1>12, <1>15

(* The row that the change r leaves. *)
Row(r) ==
  LET u == users[req[r].user]
  IN CASE req[r].kind = "password" -> [u EXCEPT !.password = req[r].new]
       [] req[r].kind = "name" -> [u EXCEPT !.name = req[r].new]
       [] req[r].kind = "avatar" -> [u EXCEPT !.image_path = "key"]

LEMMA RowOfUser ==
  ASSUME Known, NEW r \in Requests, req[r].kind \in Column
  PROVE  /\ Row(r) \in User /\ Row(r).address = users[req[r].user].address
         /\ Row(r).password = IF req[r].kind = "password" THEN req[r].new
                              ELSE users[req[r].user].password
         /\ Row(r).name = IF req[r].kind = "name" THEN req[r].new
                          ELSE users[req[r].user].name
         /\ Row(r).image_path = IF req[r].kind = "avatar" THEN "key"
                                ELSE users[req[r].user].image_path
<1>1. users[req[r].user] \in User /\ req[r].new \in Values
  BY Changer DEF Known, TypeOK
<1>. QED
  BY <1>1 DEF Row, User, Column

LEMMA Writing ==
  ASSUME Known, NEW r \in Requests, Writes(r)
  PROVE  /\ req[r].kind \in Column /\ req[r].step \in {"checked", "stored"}
         /\ req[r].step = "stored" <=> req[r].kind = "avatar"
         /\ users' = [users EXCEPT ![req[r].user] = Row(r)]
         /\ past' \in [Ids -> SUBSET Values]
         /\ \A i \in Ids : past'[i] = IF i = req[r].user /\ req[r].kind = "password"
                                      THEN past[i] \cup {req[r].new} ELSE past[i]
<1>1. req[r].kind \in Column /\ req[r].step \in {"checked", "stored"}
      /\ (req[r].step = "stored" <=> req[r].kind = "avatar")
  BY DEF Writes, Known, Staged, Column
<1>2. PICK u \in DOMAIN users : u = req[r].user
  BY <1>1, Changer
<1>3. users' = [users EXCEPT ![u] = Row(r)]
  BY <1>1, <1>2 DEF Writes, Row, Known, Staged
<1>4. past \in [Ids -> SUBSET Values] /\ u \in Ids /\ req[r].new \in Values
  BY <1>1, <1>2, Changer DEF Known, TypeOK
<1>5. past' = IF req[r].kind = "password" THEN [past EXCEPT ![u] = past[u] \cup {req[r].new}] ELSE past
  BY <1>1, <1>2 DEF Writes
<1>. QED
  BY <1>1, <1>2, <1>3, <1>4, <1>5

-----------------------------------------------------------------------------
LEMMA InitKnown == Init => Known
<1>. SUFFICES ASSUME Init PROVE Known
  OBVIOUS
<1>1. \A r \in Requests : req[r] = Idle
  BY DEF Init
<1>2. Sound
  BY <1>1, IdleIsSound, IdleRequest DEF Init, Sound, Staged, Met, Column
<1>3. Data
  BY DEF Init, Data
<1>. QED
  BY <1>2, <1>3, MaxRequestsAssumption, KnownParts DEF Init

(* The requests that can begin. *)
LEMMA NewRequest ==
  ASSUME Known, NEW b \in Browsers,
         NEW k \in {"none", "signup", "signin", "password", "name", "avatar"},
         NEW step \in {"free", "token", "checked", "put"},
         NEW u \in Ids \cup {Nobody}, NEW a \in Addresses \cup {Nobody},
         NEW old \in Values \cup {Nobody}, NEW new \in Values \cup {Nobody}
  PROVE  [kind |-> k, step |-> step, browser |-> b, user |-> u,
          address |-> a, old |-> old, new |-> new, met |-> {}] \in Request
BY DEF Request, Column

LEMMA SigningUp ==
  ASSUME Known, NEW r \in Requests, NEW b \in Browsers, NEW a \in Addresses,
         NEW p \in Values, SignUp(r, b, a, p)
  PROVE  \E q \in Request :
           /\ Begins(r, q) /\ q.kind = "signup" /\ q.step = "free" /\ q.browser = b
           /\ q.address = a /\ q.new = p
<1>1. PICK q : q = [Idle EXCEPT !.kind = "signup", !.step = "free", !.browser = b,
                                !.address = a, !.new = p]
  OBVIOUS
<1>2. q = [kind |-> "signup", step |-> "free", browser |-> b, user |-> Nobody,
           address |-> a, old |-> Nobody, new |-> p, met |-> {}]
  BY <1>1 DEF Idle
<1>3. q \in Request
  BY <1>2, NewRequest
<1>. QED
  BY <1>1, <1>2, <1>3 DEF SignUp

LEMMA SigningIn ==
  ASSUME Known, NEW r \in Requests, NEW b \in Browsers, NEW a \in Addresses,
         NEW p \in Values, SignIn(r, b, a, p)
  PROVE  \E q \in Request, i \in DOMAIN users :
           /\ users[i].address = a /\ users[i].password = p
           /\ Begins(r, q) /\ q.kind = "signin" /\ q.step = "token" /\ q.browser = b
           /\ q.user = i
<1>1. PICK i \in DOMAIN users : users[i].address = a /\ users[i].password = p
         /\ Begins(r, [Idle EXCEPT !.kind = "signin", !.step = "token",
                                   !.browser = b, !.user = i])
  BY DEF SignIn, FindByEmail
<1>2. PICK q : q = [Idle EXCEPT !.kind = "signin", !.step = "token",
                                !.browser = b, !.user = i]
  OBVIOUS
<1>3. q = [kind |-> "signin", step |-> "token", browser |-> b, user |-> i,
           address |-> Nobody, old |-> Nobody, new |-> Nobody, met |-> {}]
  BY <1>2 DEF Idle
<1>4. i \in Ids
  BY DEF Known, TypeOK
<1>5. q \in Request
  BY <1>3, <1>4, NewRequest
<1>. QED
  BY <1>1, <1>2, <1>3, <1>5

LEMMA Changes ==
  ASSUME Known, NEW r \in Requests, NEW b \in Browsers,
         NEW k \in Column, NEW step \in {"checked", "put"},
         NEW old \in Values \cup {Nobody}, NEW new \in Values,
         Change(r, b, k, step, old, new)
  PROVE  /\ UNCHANGED <<users, object, cookie, history>>
         /\ cookie[b] \in DOMAIN users
         /\ \E q \in Request :
              /\ Begins(r, q) /\ q.kind = k /\ q.step = step /\ q.browser = b
              /\ q.user = cookie[b] /\ q.old = old /\ q.new = new
<1>1. PICK q : q = [Idle EXCEPT !.kind = k, !.step = step, !.browser = b,
                                !.user = cookie[b], !.old = old, !.new = new]
  OBVIOUS
<1>2. q = [kind |-> k, step |-> step, browser |-> b, user |-> cookie[b],
           address |-> Nobody, old |-> old, new |-> new, met |-> {}]
  BY <1>1 DEF Idle
<1>3. cookie[b] \in DOMAIN users /\ cookie[b] \in Ids
  BY DEF Change, Known, TypeOK
<1>4. q \in Request
  BY <1>2, <1>3, NewRequest DEF Column
<1>5. Begins(r, q) /\ UNCHANGED <<users, object, cookie, history>>
  BY <1>1 DEF Change
<1>. QED
  BY <1>2, <1>3, <1>4, <1>5

(* The request whose row was inserted gets the id. *)
LEMMA Saving ==
  ASSUME Known, NEW r \in Requests, NEW i \in Ids, Save(r, i)
  PROVE  /\ Sound' /\ req'[r].step = "token" /\ req'[r].user = i
         /\ req'[r].kind = req[r].kind /\ req'[r].new = req[r].new
         /\ req'[r].browser = req[r].browser /\ req'[r].met = req[r].met
         /\ req'[r].kind \notin Column
         /\ \A s \in Requests : s # r => req'[s] = req[s]
<1>1. req \in [Requests -> Request] /\ req[r] \in Request
  BY DEF Known, TypeOK
<1>2. PICK q : q = [req[r] EXCEPT !.step = "token", !.user = i]
  OBVIOUS
<1>3. /\ q \in Request /\ q.step = "token" /\ q.user = i /\ q.kind = req[r].kind
      /\ q.browser = req[r].browser /\ q.new = req[r].new /\ q.met = req[r].met
  BY <1>1, <1>2 DEF Request
<1>4. req' = [req EXCEPT ![r] = q]
  BY <1>1, <1>2 DEF Save
<1>5. req' \in [Requests -> Request] /\ req'[r] = q
      /\ \A s \in Requests : s # r => req'[s] = req[s]
  BY <1>1, <1>3, <1>4
<1>6. /\ DOMAIN users' = DOMAIN users \cup {i} /\ req[r].step = "free"
  BY Inserting DEF Save
<1>7. req[r].kind = "signup" /\ req[r].browser \in Browsers
  BY <1>6 DEF Known, Staged
<1>8. Staged'
  BY <1>3, <1>5, <1>6, <1>7 DEF Known, Staged, Column
<1>9. Met'
  BY <1>3, <1>5, <1>7 DEF Known, Met, Column
<1>10. \A s \in Requests : req'[s].kind \in Column => req'[s].user \in DOMAIN users'
  BY <1>3, <1>5, <1>6, <1>7 DEF Known, TypeOK, Column
<1>. QED
  BY <1>3, <1>5, <1>7, <1>8, <1>9, <1>10 DEF Sound, Column

LEMMA InDoubt ==
  ASSUME Known, NEW r \in Requests, NEW V \in SUBSET (Values \cup {Nobody}),
         Doubts(r, V)
  PROVE  /\ told' \in [Ids -> [Column -> SUBSET (Values \cup {Nobody})]]
         /\ \A i \in Ids, k \in Column : told[i][k] \subseteq told'[i][k]
         /\ req[r].kind \in Column => V \subseteq told'[req[r].user][req[r].kind]
<1>1. CASE req[r].kind \in Column
  <2>1. /\ told' \in [Ids -> [Column -> SUBSET (Values \cup {Nobody})]]
        /\ \A i \in Ids, k \in Column :
             told'[i][k] = IF i = req[r].user /\ k = req[r].kind
                           THEN told[i][k] \cup V ELSE told[i][k]
    BY <1>1, Doubting
  <2>2. \A i \in Ids, k \in Column : told[i][k] \subseteq told'[i][k]
    BY <2>1
  <2>3. V \subseteq told'[req[r].user][req[r].kind]
    BY <1>1, <2>1, Changer
  <2>. QED  BY <2>1, <2>2, <2>3
<1>2. CASE req[r].kind \notin Column
  BY <1>2 DEF Doubts, Known, TypeOK
<1>. QED
  BY <1>1, <1>2

(* The value that a positive answer is about. *)
LEMMA Answering ==
  ASSUME Known, NEW r \in Requests, Answer(r)
  PROVE  /\ req[r].kind \in Column
         /\ told' \in [Ids -> [Column -> SUBSET (Values \cup {Nobody})]]
         /\ \A i \in Ids, k \in Column :
              told'[i][k] = IF i = req[r].user /\ k = req[r].kind
                            THEN IF req[r].met = {} THEN {req[r].new}
                                 ELSE told[i][k] \cup {req[r].new}
                            ELSE told[i][k]
         /\ \A i \in Ids : i # req[r].user => told'[i] = told[i]
<1>1. req[r].kind \in Column
  BY DEF Answer, Known, Staged
<1>2. PICK i \in Ids, k \in Column : i = req[r].user /\ k = req[r].kind
  BY <1>1, Changer
<1>3. told \in [Ids -> [Column -> SUBSET (Values \cup {Nobody})]] /\ req[r].new \in Values
  BY <1>1, Changer DEF Known, TypeOK
<1>4. PICK V : V = IF req[r].met = {} THEN {req[r].new} ELSE told[i][k] \cup {req[r].new}
  OBVIOUS
<1>5. V \in SUBSET (Values \cup {Nobody})
  BY <1>3, <1>4
<1>6. PICK w : w = [told[i] EXCEPT ![k] = V]
  OBVIOUS
<1>7. told' = [told EXCEPT ![i] = w]
  BY <1>2, <1>3, <1>4, <1>6 DEF Answer
<1>8. told[i] \in [Column -> SUBSET (Values \cup {Nobody})]
  BY <1>3
<1>9. /\ w \in [Column -> SUBSET (Values \cup {Nobody})]
      /\ \A c \in Column : w[c] = IF c = k THEN V ELSE told[i][c]
  BY <1>5, <1>6, <1>8
<1>10. /\ told' \in [Ids -> [Column -> SUBSET (Values \cup {Nobody})]]
       /\ told'[i] = w /\ \A j \in Ids : j # i => told'[j] = told[j]
  BY <1>3, <1>7, <1>9
<1>. QED
  BY <1>1, <1>2, <1>4, <1>9, <1>10

-----------------------------------------------------------------------------
LEMMA KnownKept == Known /\ Next => Known'
<1>. SUFFICES ASSUME Known, Next PROVE Known'
  OBVIOUS
<1>. USE DEF history
<1>a. SUFFICES Data' /\ Sound' /\ begun' \in 0 .. MaxRequests
  BY DEF Known, TypeOK, Data, Sound
<1>b. Data /\ Sound /\ begun \in 0 .. MaxRequests
  BY KnownParts
<1>1. ASSUME NEW r \in Requests, NEW b \in Browsers, NEW a \in Addresses,
             NEW p \in Values, SignUp(r, b, a, p) \/ SignIn(r, b, a, p)
      PROVE  Data' /\ Sound' /\ begun' \in 0 .. MaxRequests
  <2>1. gave' \in [Browsers -> SUBSET (Addresses \X Values)]
    <3>1. gave' = [gave EXCEPT ![b] = gave[b] \cup {<<a, p>>}]
      BY <1>1 DEF SignUp, SignIn
    <3>. QED  BY <1>b, <3>1 DEF Data
  <2>2. UNCHANGED <<users, object, cookie, told, past>>
    BY <1>1 DEF SignUp, SignIn
  <2>3. Data'
    BY <1>b, <2>1, <2>2 DEF Data
  <2>4. CASE SignUp(r, b, a, p)
    <3>1. PICK q \in Request :
            /\ Begins(r, q) /\ q.kind = "signup" /\ q.step = "free"
            /\ q.browser = b /\ q.address = a /\ q.new = p
      BY <2>4, SigningUp
    <3>. QED  BY <2>2, <2>3, <3>1, BeginningSound
  <2>5. CASE SignIn(r, b, a, p)
    <3>1. PICK q \in Request, i \in DOMAIN users :
            /\ Begins(r, q) /\ q.kind = "signin" /\ q.step = "token"
            /\ q.browser = b /\ q.user = i
      BY <2>5, SigningIn
    <3>. QED  BY <2>2, <2>3, <3>1, BeginningSound
  <2>. QED  BY <1>1, <2>4, <2>5
<1>2. ASSUME NEW r \in Requests, NEW b \in Browsers, NEW k \in Column,
             NEW step \in {"checked", "put"}, step = "put" <=> k = "avatar",
             NEW old \in Values \cup {Nobody}, NEW new \in Values,
             Change(r, b, k, step, old, new)
      PROVE  Data' /\ Sound' /\ begun' \in 0 .. MaxRequests
  <2>1. PICK q \in Request :
          /\ Begins(r, q) /\ q.kind = k /\ q.step = step /\ q.browser = b
          /\ q.user = cookie[b] /\ q.old = old /\ q.new = new
    BY <1>2, Changes
  <2>2. cookie[b] \in DOMAIN users /\ UNCHANGED <<users, object, cookie, history>>
    BY <1>2, Changes
  <2>3. Sound' /\ begun' \in 0 .. MaxRequests
    BY <1>2, <2>1, <2>2, BeginningSound DEF Column
  <2>. QED  BY <1>b, <2>2, <2>3 DEF Data
<1>3. ASSUME NEW r \in Requests, NEW b \in Browsers, Enter(r, b)
      PROVE  Data' /\ Sound' /\ begun' \in 0 .. MaxRequests
  <2>. PICK p \in Values :
         \/ \E a \in Addresses : SignUp(r, b, a, p) \/ SignIn(r, b, a, p)
         \/ \E old \in Values : UpdatePassword(r, b, old, p)
         \/ UpdateProfile(r, b, p)
         \/ UploadAvatar(r, b, p)
    BY <1>3 DEF Enter
  <2>1. CASE \E a \in Addresses : SignUp(r, b, a, p) \/ SignIn(r, b, a, p)
    BY <1>1, <2>1
  <2>2. CASE \E old \in Values : UpdatePassword(r, b, old, p)
    BY <1>2, <2>2 DEF UpdatePassword, Column
  <2>3. CASE UpdateProfile(r, b, p)
    BY <1>2, <2>3 DEF UpdateProfile, Column
  <2>4. CASE UploadAvatar(r, b, p)
    BY <1>2, <2>4 DEF UploadAvatar, Column
  <2>. QED  BY <2>1, <2>2, <2>3, <2>4
<1>4. ASSUME NEW r \in Requests, NEW i \in Ids, Save(r, i) \/ SaveLost(r, i)
      PROVE  Data' /\ Sound' /\ begun' \in 0 .. MaxRequests
  <2>1. /\ Data' /\ DOMAIN users' = DOMAIN users \cup {i} /\ UNCHANGED begun
    BY <1>4, Inserting DEF Save, SaveLost
  <2>2. CASE Save(r, i)
    BY <1>b, <2>1, <2>2, Saving
  <2>3. CASE SaveLost(r, i)
    BY <1>b, <2>1, <2>3, EndingSound DEF SaveLost
  <2>. QED  BY <1>4, <2>2, <2>3
<1>5. ASSUME NEW r \in Requests, SaveFails(r) \/ SetCookie(r)
      PROVE  Data' /\ Sound' /\ begun' \in 0 .. MaxRequests
  <2>1. Ends(r) /\ UNCHANGED <<users, object, history, begun>>
    BY <1>5 DEF SaveFails, SetCookie
  <2>2. cookie' \in [Browsers -> DOMAIN users \cup {Nobody}]
    BY <1>5, <1>b DEF SaveFails, SetCookie, Data, Sound, Staged
  <2>. QED  BY <1>b, <2>1, <2>2, EndingSound DEF Data
<1>6. ASSUME NEW r \in Requests, PutObject(r) \/ PutFails(r) \/ DeleteAvatar(r)
      PROVE  Data' /\ Sound' /\ begun' \in 0 .. MaxRequests
  <2>1. req[r].kind = "avatar" /\ UNCHANGED <<users, cookie, gave, past, begun>>
    BY <1>6, <1>b DEF PutObject, PutFails, DeleteAvatar, Sound, Staged
  <2>2. req[r].user \in Ids /\ req[r].new \in Values
    BY <2>1, Changer DEF Column
  <2>3. object' \in [Ids -> Values \cup {Nobody}]
    BY <1>6, <1>b, <2>2 DEF PutObject, PutFails, DeleteAvatar, Data
  <2>4. told' \in [Ids -> [Column -> SUBSET (Values \cup {Nobody})]]
    <3>1. CASE PutObject(r)
      BY <1>b, <3>1 DEF PutObject, Data
    <3>2. CASE PutFails(r)
      BY <2>2, <3>2, InDoubt DEF PutFails
    <3>3. CASE DeleteAvatar(r)
      BY <3>3, InDoubt DEF DeleteAvatar
    <3>. QED  BY <1>6, <3>1, <3>2, <3>3
  <2>5. Sound'
    <3>1. CASE PutObject(r)
      BY <2>1, <3>1, GoingSound DEF PutObject, Column
    <3>2. CASE PutFails(r) \/ DeleteAvatar(r)
      BY <2>1, <3>2, EndingSound DEF PutFails, DeleteAvatar
    <3>. QED  BY <1>6, <3>1, <3>2
  <2>. QED  BY <1>b, <2>1, <2>3, <2>4, <2>5 DEF Data
<1>7. ASSUME NEW r \in Requests, Write(r) \/ WriteLost(r)
      PROVE  Data' /\ Sound' /\ begun' \in 0 .. MaxRequests
  <2>1. /\ req[r].kind \in Column
        /\ req[r].step = "stored" <=> req[r].kind = "avatar"
        /\ users' = [users EXCEPT ![req[r].user] = Row(r)]
        /\ past' \in [Ids -> SUBSET Values]
    BY <1>7, Writing DEF Write, WriteLost
  <2>2. /\ req[r].user \in DOMAIN users /\ req[r].new \in Values
        /\ Row(r) \in User /\ Row(r).address = users[req[r].user].address
    BY <2>1, Changer, RowOfUser
  <2>3. UNCHANGED <<object, cookie, gave, begun>>
    BY <1>7 DEF Write, WriteLost
  <2>4. told' \in [Ids -> [Column -> SUBSET (Values \cup {Nobody})]]
    <3>1. CASE UNCHANGED told
      BY <1>b, <3>1 DEF Data
    <3>2. CASE Doubts(r, {req[r].new})
      BY <2>2, <3>2, InDoubt
    <3>. QED  BY <1>7, <3>1, <3>2 DEF Write, WriteLost, Fails
  <2>5. Data' /\ DOMAIN users' = DOMAIN users
    BY <2>1, <2>2, <2>3, <2>4, Updating
  <2>6. Sound'
    <3>1. CASE Write(r)
      BY <2>1, <2>5, <3>1, GoingSound DEF Write
    <3>2. CASE WriteLost(r) /\ req[r].step = "stored"
      BY <2>1, <2>5, <3>2, GoingSound DEF WriteLost, Fails
    <3>3. CASE WriteLost(r) /\ req[r].step # "stored"
      BY <2>5, <3>3, EndingSound DEF WriteLost, Fails
    <3>. QED  BY <1>7, <3>1, <3>2, <3>3
  <2>. QED  BY <1>b, <2>3, <2>5, <2>6
<1>8. ASSUME NEW r \in Requests, WriteFails(r)
      PROVE  Data' /\ Sound' /\ begun' \in 0 .. MaxRequests
  <2>1. UNCHANGED <<users, object, cookie, history, begun>>
    BY <1>8 DEF WriteFails
  <2>2. CASE Ends(r)
    BY <1>b, <2>1, <2>2, EndingSound DEF Data
  <2>3. CASE req[r].step = "stored" /\ Goes(r, "undo")
    <3>1. req[r].kind = "avatar"
      BY <1>b, <2>3 DEF Sound, Staged
    <3>2. Sound'
      BY <2>1, <2>3, <3>1, GoingSound DEF Column
    <3>. QED  BY <1>b, <2>1, <3>2 DEF Data
  <2>. QED  BY <1>8, <2>2, <2>3 DEF WriteFails
<1>9. ASSUME NEW r \in Requests, Answer(r) \/ Stops(r)
      PROVE  Data' /\ Sound' /\ begun' \in 0 .. MaxRequests
  <2>1. Ends(r) /\ UNCHANGED <<users, object, cookie, gave, past, begun>>
    BY <1>9 DEF Answer, Stops
  <2>2. told' \in [Ids -> [Column -> SUBSET (Values \cup {Nobody})]]
    <3>1. CASE Answer(r)
      BY <3>1, Answering
    <3>2. CASE Stops(r)
      <4>1. PICK V : Doubts(r, V) /\ V \in {{}, {req[r].new}}
        BY <3>2 DEF Stops
      <4>2. req[r].new \in Values \cup {Nobody}
        BY <1>b DEF Sound, Request
      <4>. QED  BY <4>1, <4>2, InDoubt
    <3>. QED  BY <1>9, <3>1, <3>2
  <2>. QED  BY <1>b, <2>1, <2>2, EndingSound DEF Data
<1>10. ASSUME NEW b \in Browsers, Logout(b)
       PROVE  Data' /\ Sound' /\ begun' \in 0 .. MaxRequests
  <2>1. UNCHANGED <<users, object, req, history, begun>>
    BY <1>10 DEF Logout
  <2>2. cookie' \in [Browsers -> DOMAIN users \cup {Nobody}]
    BY <1>10, <1>b DEF Logout, Data
  <2>. QED  BY <1>b, <2>1, <2>2 DEF Data, Sound, Staged, Met
<1>. QED
  BY <1>3, <1>4, <1>5, <1>6, <1>7, <1>8, <1>9, <1>10 DEF Next

LEMMA KnownAlways == Spec => []Known
<1>1. Known /\ UNCHANGED vars => Known'
  BY DEF Known, TypeOK, Staged, Met, vars
<1>. QED
  BY <1>1, InitKnown, KnownKept, PTL DEF Spec

(* Types, one account for an address, and changes of accounts that exist,   *)
(* which user/repository/db/postgres.go and users.email UNIQUE ensure.      *)
THEOREM UserTypes == Spec => []TypeOK
<1>1. Known => TypeOK
  BY DEF Known
<1>. QED
  BY <1>1, KnownAlways, PTL

-----------------------------------------------------------------------------
(* Nothing that was proven is lost, and what is new is proven.              *)
Lasting ==
  /\ DOMAIN users \subseteq DOMAIN users'
  /\ \A i \in DOMAIN users :
       users'[i].address = users[i].address /\ past[i] \subseteq past'[i]
  /\ \A b \in Browsers : gave[b] \subseteq gave'[b]

(* Proven in the next state, where b and i may be of the next state too. *)
ProvenNext(b, i) == \E p \in past'[i] : <<users'[i].address, p>> \in gave'[b]

LEMMA ProofsLast ==
  ASSUME Lasting, NEW b \in Browsers, NEW i \in DOMAIN users, Proven(b, i)
  PROVE  ProvenNext(b, i)
BY DEF Lasting, Proven, ProvenNext

LEMMA Carried ==
  ASSUME Known, Tokens, Lasting,
         \A i \in DOMAIN users' : users'[i].password \in past'[i],
         \A b \in Browsers : cookie'[b] = cookie[b] \/ cookie'[b] = Nobody,
         \A r \in Requests :
           /\ req'[r].step = "token" =>
                \/ /\ req[r].step = "token"
                   /\ req'[r].browser = req[r].browser /\ req'[r].user = req[r].user
                \/ ProvenNext(req'[r].browser, req'[r].user)
           /\ req'[r].step = "free" =>
                \/ /\ req[r].step = "free"
                   /\ req'[r].browser = req[r].browser
                   /\ req'[r].address = req[r].address /\ req'[r].new = req[r].new
                \/ <<req'[r].address, req'[r].new>> \in gave'[req'[r].browser]
  PROVE  Tokens'
<1>1. \A b \in Browsers : cookie'[b] # Nobody => ProvenNext(b, cookie'[b])
  <2>. SUFFICES ASSUME NEW b \in Browsers, cookie'[b] # Nobody
                PROVE  ProvenNext(b, cookie'[b])
    OBVIOUS
  <2>1. cookie'[b] = cookie[b] /\ cookie[b] \in DOMAIN users /\ Proven(b, cookie[b])
    BY DEF Known, TypeOK, Tokens
  <2>2. ProvenNext(b, cookie[b])
    <3>1. PICK i \in DOMAIN users : i = cookie[b]
      BY <2>1
    <3>2. ProvenNext(b, i)
      BY <2>1, <3>1, ProofsLast
    <3>. QED  BY <2>1, <3>1, <3>2
  <2>. QED  BY <2>1, <2>2
<1>2. \A r \in Requests :
        req'[r].step = "token" => ProvenNext(req'[r].browser, req'[r].user)
  <2>. SUFFICES ASSUME NEW r \in Requests, req'[r].step = "token",
                       req[r].step = "token", req'[r].browser = req[r].browser,
                       req'[r].user = req[r].user
                PROVE  ProvenNext(req'[r].browser, req'[r].user)
    OBVIOUS
  <2>1. PICK b \in Browsers, i \in DOMAIN users : b = req[r].browser /\ i = req[r].user
    BY DEF Known, Staged
  <2>2. ProvenNext(b, i)
    BY <2>1, ProofsLast DEF Tokens
  <2>. QED  BY <2>1, <2>2
<1>3. \A r \in Requests :
        req'[r].step = "free" =>
          <<req'[r].address, req'[r].new>> \in gave'[req'[r].browser]
  BY DEF Lasting, Known, Staged, Tokens
<1>. QED
  BY <1>1, <1>2, <1>3 DEF Tokens, Proven, ProvenNext

(* What the requests do of their own does not matter. *)
LEMMA OthersCarried ==
  ASSUME Known, NEW r \in Requests,
         Ends(r) \/ \E step \in {"undo", "stored", "written"} : Goes(r, step)
  PROVE  \A s \in Requests : req'[s].step \in {"token", "free"} => req'[s] = req[s]
<1>1. CASE Ends(r)
  BY <1>1, Ending, IdleIsSound
<1>2. ASSUME NEW step \in {"undo", "stored", "written"}, Goes(r, step)
      PROVE  \A s \in Requests : req'[s].step \in {"token", "free"} => req'[s] = req[s]
  BY <1>2, Going
<1>. QED
  BY <1>1, <1>2

LEMMA TokensKept == Known /\ Tokens /\ Next => Tokens'
<1>. SUFFICES ASSUME Known, Tokens, Next PROVE Tokens'
  OBVIOUS
<1>. USE DEF history
<1>a. \A i \in DOMAIN users : i \in Ids /\ users[i].password \in past[i]
  BY DEF Known, TypeOK, Tokens
<1>0. ASSUME UNCHANGED <<users, gave, past>>
      PROVE  Lasting /\ \A i \in DOMAIN users' : users'[i].password \in past'[i]
  BY <1>0, <1>a DEF Lasting
<1>1. ASSUME NEW r \in Requests, NEW b \in Browsers, NEW a \in Addresses,
             NEW p \in Values, SignUp(r, b, a, p) \/ SignIn(r, b, a, p)
      PROVE  Tokens'
  <2>1. UNCHANGED <<users, object, cookie, told, past>>
    BY <1>1 DEF SignUp, SignIn
  <2>2. gave' = [gave EXCEPT ![b] = gave[b] \cup {<<a, p>>}]
    BY <1>1 DEF SignUp, SignIn
  <2>3. (\A c \in Browsers : gave[c] \subseteq gave'[c]) /\ <<a, p>> \in gave'[b]
    BY <2>2 DEF Known, TypeOK
  <2>4. Lasting /\ \A i \in DOMAIN users' : users'[i].password \in past'[i]
    BY <1>a, <2>1, <2>3 DEF Lasting
  <2>5. \E q \in Request :
          /\ Begins(r, q) /\ q.browser = b
          /\ \/ q.step = "free" /\ q.address = a /\ q.new = p
             \/ q.step = "token" /\ ProvenNext(b, q.user)
    <3>1. CASE SignUp(r, b, a, p)
      BY <3>1, SigningUp
    <3>2. CASE SignIn(r, b, a, p)
      <4>1. PICK q \in Request, i \in DOMAIN users :
              /\ users[i].address = a /\ users[i].password = p
              /\ Begins(r, q) /\ q.step = "token" /\ q.browser = b /\ q.user = i
        BY <3>2, SigningIn
      <4>2. ProvenNext(b, i)
        BY <1>a, <2>1, <2>3, <4>1 DEF ProvenNext
      <4>. QED  BY <4>1, <4>2
    <3>. QED  BY <1>1, <3>1, <3>2
  <2>6. PICK q \in Request :
          /\ Begins(r, q) /\ q.browser = b
          /\ \/ q.step = "free" /\ q.address = a /\ q.new = p
             \/ q.step = "token" /\ ProvenNext(b, q.user)
    BY <2>5
  <2>7. /\ req'[r].step = q.step /\ req'[r].user = q.user
        /\ req'[r].browser = q.browser /\ req'[r].address = q.address
        /\ req'[r].new = q.new
        /\ \A s \in Requests : s # r =>
             /\ req'[s].step = req[s].step /\ req'[s].user = req[s].user
             /\ req'[s].browser = req[s].browser /\ req'[s].address = req[s].address
             /\ req'[s].new = req[s].new
    BY <2>6, Beginning
  <2>8. \A c \in Browsers : cookie'[c] = cookie[c] \/ cookie'[c] = Nobody
    BY <2>1
  <2>9. /\ req'[r].step = "token" => ProvenNext(req'[r].browser, req'[r].user)
        /\ req'[r].step = "free" =>
             <<req'[r].address, req'[r].new>> \in gave'[req'[r].browser]
    BY <2>3, <2>6, <2>7
  <2>. QED  BY <2>4, <2>7, <2>8, <2>9, Carried
<1>2. ASSUME NEW r \in Requests, NEW b \in Browsers, NEW k \in Column,
             NEW step \in {"checked", "put"},
             NEW old \in Values \cup {Nobody}, NEW new \in Values,
             Change(r, b, k, step, old, new)
      PROVE  Tokens'
  <2>1. PICK q \in Request : Begins(r, q) /\ q.step = step
    BY <1>2, Changes
  <2>2. UNCHANGED <<users, object, cookie, history>>
    BY <1>2, Changes
  <2>3. /\ req'[r].step = step
        /\ \A s \in Requests : s # r =>
             /\ req'[s].step = req[s].step /\ req'[s].user = req[s].user
             /\ req'[s].browser = req[s].browser /\ req'[s].address = req[s].address
             /\ req'[s].new = req[s].new
    BY <2>1, Beginning
  <2>. QED  BY <1>0, <2>2, <2>3, Carried
<1>3. ASSUME NEW r \in Requests, NEW b \in Browsers, Enter(r, b)
      PROVE  Tokens'
  <2>. PICK p \in Values :
         \/ \E a \in Addresses : SignUp(r, b, a, p) \/ SignIn(r, b, a, p)
         \/ \E old \in Values : UpdatePassword(r, b, old, p)
         \/ UpdateProfile(r, b, p)
         \/ UploadAvatar(r, b, p)
    BY <1>3 DEF Enter
  <2>1. CASE \E a \in Addresses : SignUp(r, b, a, p) \/ SignIn(r, b, a, p)
    BY <1>1, <2>1
  <2>2. CASE \E old \in Values : UpdatePassword(r, b, old, p)
    BY <1>2, <2>2 DEF UpdatePassword, Column
  <2>3. CASE UpdateProfile(r, b, p)
    BY <1>2, <2>3 DEF UpdateProfile, Column
  <2>4. CASE UploadAvatar(r, b, p)
    BY <1>2, <2>4 DEF UploadAvatar, Column
  <2>. QED  BY <2>1, <2>2, <2>3, <2>4
<1>4. ASSUME NEW r \in Requests, NEW i \in Ids, Save(r, i) \/ SaveLost(r, i)
      PROVE  Tokens'
  <2>1. /\ DOMAIN users' = DOMAIN users \cup {i} /\ i \notin DOMAIN users
        /\ users'[i] = NewUser(req[r].address, req[r].new)
        /\ req[r].step = "free" /\ UNCHANGED <<cookie, gave>>
        /\ \A j \in DOMAIN users : users'[j] = users[j]
        /\ past'[i] = {req[r].new} /\ \A j \in Ids : j # i => past'[j] = past[j]
    BY <1>4, Inserting DEF Save, SaveLost
  <2>2. /\ NewUser(req[r].address, req[r].new).address = req[r].address
        /\ NewUser(req[r].address, req[r].new).password = req[r].new
    BY DEF NewUser
  <2>3. Lasting /\ \A j \in DOMAIN users' : users'[j].password \in past'[j]
    BY <1>a, <2>1, <2>2 DEF Lasting
  <2>4. ProvenNext(req[r].browser, i)
    <3>1. <<req[r].address, req[r].new>> \in gave[req[r].browser]
      BY <2>1 DEF Tokens
    <3>. QED  BY <2>1, <2>2, <3>1 DEF ProvenNext
  <2>5. CASE Save(r, i)
    <3>1. /\ req'[r].step = "token" /\ req'[r].user = i
          /\ req'[r].browser = req[r].browser
          /\ \A s \in Requests : s # r => req'[s] = req[s]
      BY <2>5, Saving
    <3>. QED  BY <2>1, <2>3, <2>4, <3>1, Carried
  <2>6. CASE SaveLost(r, i)
    <3>1. \A s \in Requests : req'[s].step \in {"token", "free"} => req'[s] = req[s]
      BY <2>6, OthersCarried DEF SaveLost
    <3>. QED  BY <2>1, <2>3, <3>1, Carried
  <2>. QED  BY <1>4, <2>5, <2>6
<1>5. ASSUME NEW r \in Requests, SetCookie(r)
      PROVE  Tokens'
  <2>1. /\ Ends(r) /\ UNCHANGED <<users, object, history, begun>>
        /\ cookie' = [cookie EXCEPT ![req[r].browser] = req[r].user]
        /\ Proven(req[r].browser, req[r].user)
    BY <1>5 DEF SetCookie, Tokens
  <2>2. \A s \in Requests : req'[s].step \in {"token", "free"} => req'[s] = req[s]
    BY <2>1, OthersCarried
  <2>3. \A b \in Browsers : cookie'[b] # Nobody => Proven(b, cookie'[b])
    BY <2>1 DEF Known, TypeOK, Tokens
  <2>. QED  BY <2>1, <2>2, <2>3 DEF Tokens, Proven
<1>6. ASSUME NEW r \in Requests,
             \/ SaveFails(r) \/ PutObject(r) \/ PutFails(r) \/ WriteFails(r)
             \/ DeleteAvatar(r) \/ Answer(r) \/ Stops(r)
      PROVE  Tokens'
  <2>1. UNCHANGED <<users, cookie, gave, past>>
    BY <1>6 DEF SaveFails, PutObject, PutFails, WriteFails, DeleteAvatar, Answer, Stops
  <2>2. \A s \in Requests : req'[s].step \in {"token", "free"} => req'[s] = req[s]
    BY <1>6, OthersCarried
       DEF SaveFails, PutObject, PutFails, WriteFails, DeleteAvatar, Answer, Stops
  <2>. QED  BY <1>0, <2>1, <2>2, Carried
<1>7. ASSUME NEW r \in Requests, Write(r) \/ WriteLost(r)
      PROVE  Tokens'
  <2>1. /\ req[r].kind \in Column
        /\ users' = [users EXCEPT ![req[r].user] = Row(r)]
        /\ \A i \in Ids : past'[i] = IF i = req[r].user /\ req[r].kind = "password"
                                     THEN past[i] \cup {req[r].new} ELSE past[i]
    BY <1>7, Writing DEF Write, WriteLost
  <2>2. /\ Row(r).address = users[req[r].user].address
        /\ Row(r).password = IF req[r].kind = "password" THEN req[r].new
                             ELSE users[req[r].user].password
    BY <2>1, RowOfUser
  <2>3. UNCHANGED <<cookie, gave>>
    BY <1>7 DEF Write, WriteLost
  <2>4. Lasting /\ \A i \in DOMAIN users' : users'[i].password \in past'[i]
    BY <1>a, <2>1, <2>2, <2>3, Changer DEF Lasting
  <2>5. \A s \in Requests : req'[s].step \in {"token", "free"} => req'[s] = req[s]
    BY <1>7, OthersCarried DEF Write, WriteLost, Fails
  <2>. QED  BY <2>3, <2>4, <2>5, Carried
<1>8. ASSUME NEW b \in Browsers, Logout(b)
      PROVE  Tokens'
  <2>1. UNCHANGED <<users, object, req, history, begun>>
    BY <1>8 DEF Logout
  <2>2. \A c \in Browsers : cookie'[c] = cookie[c] \/ cookie'[c] = Nobody
    BY <1>8 DEF Logout, Known, TypeOK
  <2>. QED  BY <1>0, <2>1, <2>2, Carried
<1>. QED
  BY <1>3, <1>4, <1>5, <1>6, <1>7, <1>8 DEF Next

(* A session belongs to who gave a password of the account, whatever the    *)
(* order of answers, stops and sign-up races (user/service/user.go).        *)
THEOREM SessionProvenAlways == Spec => []SessionProven
<1>1. Init => Tokens
  <2>. SUFFICES ASSUME Init PROVE Tokens
    OBVIOUS
  <2>1. \A r \in Requests : req[r].step = "idle"
    BY IdleIsSound DEF Init
  <2>. QED  BY <2>1 DEF Init, Tokens
<1>2. Known /\ Tokens /\ [Next]_vars => Tokens'
  <2>1. Tokens /\ UNCHANGED vars => Tokens'
    BY DEF Tokens, Proven, vars
  <2>. QED  BY <2>1, TokensKept
<1>3. Known /\ Tokens => SessionProven
  BY DEF Tokens, Proven, SessionProven
<1>. QED
  BY <1>1, <1>2, <1>3, KnownAlways, PTL DEF Spec

-----------------------------------------------------------------------------
LEMMA ComparedKept == Known /\ Compared /\ Next => Compared'
<1>. SUFFICES ASSUME Known, Compared, Next,
                     NEW s \in Requests, req'[s].met = {},
                     req'[s].kind = "password", req'[s].step = "checked"
              PROVE  users'[req'[s].user].password = req'[s].old
  BY DEF Compared
<1>. USE DEF history
<1>a. ASSUME req[s].kind = "password", req[s].step = "checked", req[s].met = {},
             req'[s].user = req[s].user, req'[s].old = req[s].old,
             users'[req[s].user].password = users[req[s].user].password
      PROVE  users'[req'[s].user].password = req'[s].old
  BY <1>a DEF Compared
<1>b. ASSUME NEW r \in Requests,
             Ends(r) \/ \E step \in {"undo", "stored", "written"} : Goes(r, step)
      PROVE  req'[s] = req[s] /\ s # r
  <2>1. CASE Ends(r)
    BY <2>1, Ending, IdleIsSound
  <2>2. ASSUME NEW step \in {"undo", "stored", "written"}, Goes(r, step)
        PROVE  req'[s] = req[s] /\ s # r
    BY <2>2, Going
  <2>. QED  BY <1>b, <2>1, <2>2
<1>1. ASSUME NEW r \in Requests, NEW q \in Request, Begins(r, q), UNCHANGED users,
             q.kind = "password" =>
               q.step = "checked" /\ users[q.user].password = q.old
      PROVE  users'[req'[s].user].password = req'[s].old
  <2>1. /\ req'[r].kind = q.kind /\ req'[r].user = q.user /\ req'[r].old = q.old
        /\ \A t \in Requests : t # r =>
             /\ req'[t].kind = req[t].kind /\ req'[t].step = req[t].step
             /\ req'[t].user = req[t].user /\ req'[t].old = req[t].old
             /\ req[t].met \subseteq req'[t].met
    BY <1>1, Beginning
  <2>2. CASE s = r
    BY <1>1, <2>1, <2>2
  <2>3. CASE s # r
    <3>1. req[s].met = {}
      BY <2>1, <2>3
    <3>. QED  BY <1>1, <1>a, <2>1, <2>3, <3>1
  <2>. QED  BY <2>2, <2>3
<1>2. ASSUME NEW r \in Requests, NEW b \in Browsers, Enter(r, b)
      PROVE  users'[req'[s].user].password = req'[s].old
  <2>. PICK p \in Values :
         \/ \E a \in Addresses : SignUp(r, b, a, p) \/ SignIn(r, b, a, p)
         \/ \E old \in Values : UpdatePassword(r, b, old, p)
         \/ UpdateProfile(r, b, p)
         \/ UploadAvatar(r, b, p)
    BY <1>2 DEF Enter
  <2>1. ASSUME NEW a \in Addresses, SignUp(r, b, a, p)
        PROVE  users'[req'[s].user].password = req'[s].old
    <3>1. UNCHANGED users
      BY <2>1 DEF SignUp
    <3>. QED  BY <1>1, <2>1, <3>1, SigningUp
  <2>2. ASSUME NEW a \in Addresses, SignIn(r, b, a, p)
        PROVE  users'[req'[s].user].password = req'[s].old
    <3>1. UNCHANGED users
      BY <2>2 DEF SignIn
    <3>. QED  BY <1>1, <2>2, <3>1, SigningIn
  <2>3. ASSUME NEW old \in Values, UpdatePassword(r, b, old, p)
        PROVE  users'[req'[s].user].password = req'[s].old
    <3>1. Change(r, b, "password", "checked", old, p) /\ users[cookie[b]].password = old
      BY <2>3 DEF UpdatePassword
    <3>2. PICK q \in Request :
            /\ Begins(r, q) /\ q.kind = "password" /\ q.step = "checked"
            /\ q.user = cookie[b] /\ q.old = old
      BY <3>1, Changes DEF Column
    <3>. QED  BY <1>1, <3>1, <3>2 DEF Change
  <2>4. CASE UpdateProfile(r, b, p)
    <3>1. Change(r, b, "name", "checked", Nobody, p)
      BY <2>4 DEF UpdateProfile
    <3>2. PICK q \in Request : Begins(r, q) /\ q.kind = "name"
      BY <3>1, Changes DEF Column
    <3>. QED  BY <1>1, <3>1, <3>2 DEF Change
  <2>5. CASE UploadAvatar(r, b, p)
    <3>1. Change(r, b, "avatar", "put", Nobody, p)
      BY <2>5 DEF UploadAvatar
    <3>2. PICK q \in Request : Begins(r, q) /\ q.kind = "avatar"
      BY <3>1, Changes DEF Column
    <3>. QED  BY <1>1, <3>1, <3>2 DEF Change
  <2>. QED  BY <2>1, <2>2, <2>3, <2>4, <2>5
<1>3. ASSUME NEW r \in Requests, NEW i \in Ids, Save(r, i) \/ SaveLost(r, i)
      PROVE  users'[req'[s].user].password = req'[s].old
  <2>1. \A j \in DOMAIN users : users'[j] = users[j]
    BY <1>3, Inserting DEF Save, SaveLost
  <2>2. req'[s] = req[s]
    BY <1>3, <1>b, Saving DEF SaveLost
  <2>3. req[s].user \in DOMAIN users
    BY <2>2, Changer DEF Column
  <2>. QED  BY <1>a, <2>1, <2>2, <2>3
<1>4. ASSUME NEW r \in Requests,
             \/ SaveFails(r) \/ SetCookie(r) \/ PutObject(r) \/ PutFails(r)
             \/ WriteFails(r) \/ DeleteAvatar(r) \/ Answer(r) \/ Stops(r)
      PROVE  users'[req'[s].user].password = req'[s].old
  <2>1. UNCHANGED users
    BY <1>4 DEF SaveFails, SetCookie, PutObject, PutFails, WriteFails, DeleteAvatar,
                Answer, Stops
  <2>2. req'[s] = req[s]
    BY <1>4, <1>b
       DEF SaveFails, SetCookie, PutObject, PutFails, WriteFails, DeleteAvatar,
           Answer, Stops
  <2>. QED  BY <1>a, <2>1, <2>2
<1>5. ASSUME NEW r \in Requests, Write(r) \/ WriteLost(r)
      PROVE  users'[req'[s].user].password = req'[s].old
  <2>1. req'[s] = req[s] /\ s # r
    BY <1>5, <1>b DEF Write, WriteLost, Fails
  <2>2. req[r].kind \in Column /\ users' = [users EXCEPT ![req[r].user] = Row(r)]
    BY <1>5, Writing DEF Write, WriteLost
  <2>3. req[r].kind = "password" => req[r].user # req[s].user
    BY <2>1 DEF Known, Met, Column
  <2>4. req[s].user \in DOMAIN users
    BY <2>1, Changer DEF Column
  <2>5. users'[req[s].user].password = users[req[s].user].password
    BY <2>2, <2>3, <2>4, RowOfUser
  <2>. QED  BY <1>a, <2>1, <2>5
<1>6. ASSUME NEW b \in Browsers, Logout(b)
      PROVE  users'[req'[s].user].password = req'[s].old
  BY <1>6, <1>a DEF Logout
<1>. QED
  BY <1>2, <1>3, <1>4, <1>5, <1>6 DEF Next

(* Only a change that met no other and compared the password replaces it.   *)
LEMMA Replacing ==
  ASSUME Known, Compared, Next, NEW i \in DOMAIN users,
         users'[i].password # users[i].password
  PROVE  \E r \in Changing(i, "password") :
           req[r].old = users[i].password \/ req[r].met # {}
<1>1. CASE \E r \in Requests : Write(r) \/ WriteLost(r)
  <2>1. PICK r \in Requests : Writes(r)
    BY <1>1 DEF Write, WriteLost
  <2>2. req[r].kind \in Column /\ users' = [users EXCEPT ![req[r].user] = Row(r)]
        /\ req[r].step \in {"checked", "stored"}
        /\ (req[r].step = "stored" <=> req[r].kind = "avatar")
    BY <2>1, Writing
  <2>3. i = req[r].user /\ req[r].kind = "password"
    BY <2>2, RowOfUser
  <2>. QED  BY <2>2, <2>3 DEF Compared, Changing
<1>2. CASE \E r \in Requests, j \in Ids : Save(r, j) \/ SaveLost(r, j)
  BY <1>2, Inserting DEF Save, SaveLost
<1>3. CASE /\ ~ \E r \in Requests : Write(r) \/ WriteLost(r)
           /\ ~ \E r \in Requests, j \in Ids : Save(r, j) \/ SaveLost(r, j)
  <2>1. UNCHANGED users
    <3>1. CASE \E r \in Requests, b \in Browsers : Enter(r, b)
      <4>1. ASSUME NEW r \in Requests, NEW b \in Browsers, NEW p,
                   \/ \E a \in Addresses : SignUp(r, b, a, p) \/ SignIn(r, b, a, p)
                   \/ \E old \in Values : UpdatePassword(r, b, old, p)
            PROVE  UNCHANGED users
        BY <4>1 DEF SignUp, SignIn, UpdatePassword, Change
      <4>2. ASSUME NEW r \in Requests, NEW b \in Browsers, NEW p,
                   UpdateProfile(r, b, p) \/ UploadAvatar(r, b, p)
            PROVE  UNCHANGED users
        BY <4>2 DEF UpdateProfile, UploadAvatar, Change
      <4>. QED  BY <3>1, <4>1, <4>2 DEF Enter
    <3>2. CASE \E r \in Requests :
                 \/ SaveFails(r) \/ SetCookie(r) \/ PutObject(r) \/ PutFails(r)
                 \/ WriteFails(r) \/ DeleteAvatar(r) \/ Answer(r) \/ Stops(r)
      BY <3>2 DEF SaveFails, SetCookie, PutObject, PutFails, WriteFails, DeleteAvatar,
                  Answer, Stops
    <3>3. CASE \E b \in Browsers : Logout(b)
      BY <3>3 DEF Logout
    <3>. QED  BY <1>3, <3>1, <3>2, <3>3 DEF Next
  <2>. QED  BY <2>1
<1>. QED
  BY <1>1, <1>2, <1>3

LEMMA ComparedAlways == Spec => []Compared
<1>1. Init => Compared
  BY IdleIsSound DEF Init, Compared
<1>2. Known /\ Compared /\ [Next]_vars => Compared'
  <2>1. Compared /\ UNCHANGED vars => Compared'
    BY DEF Compared, vars
  <2>. QED  BY <2>1, ComparedKept
<1>. QED
  BY <1>1, <1>2, KnownAlways, PTL DEF Spec

(* The old password was named (user/service/user.go:158), unless two        *)
(* changes overtook each other.                                             *)
THEOREM PasswordFromOldAlways == Spec => PasswordFromOld
<1>1. Known /\ Compared /\ [Next]_vars =>
        [\A i \in DOMAIN users :
           users'[i].password # users[i].password =>
             \E r \in Changing(i, "password") :
               req[r].old = users[i].password \/ req[r].met # {}]_vars
  BY Replacing
<1>. QED
  BY <1>1, KnownAlways, ComparedAlways, PTL DEF Spec, PasswordFromOld

-----------------------------------------------------------------------------
LEMMA Remembering ==
  ASSUME NEW i, NEW k, told[i][k] \subseteq told'[i][k],
         \A s \in Executed(i, k) :
           \/ req[s].new \in told'[i][k]
           \/ s \in Executed(i, k)' /\ req'[s].new = req[s].new
  PROVE  Told(i, k) \subseteq Told(i, k)'
BY DEF Told

(* The columns of an account that is not written in this step. *)
LEMMA ExplainedStill ==
  ASSUME Known, Explained, UNCHANGED <<users, object>>,
         \A i \in Ids, k \in Column : Told(i, k) \subseteq Told(i, k)'
  PROVE  Explained'
BY DEF Explained, Known, TypeOK, Column

(* One request goes on or ends, and what it has executed is not forgotten.  *)
LEMMA OneRemembers ==
  ASSUME Known, NEW r \in Requests,
         \A s \in Requests : s # r => req'[s] = req[s],
         \A i \in Ids, k \in Column : told[i][k] \subseteq told'[i][k],
         req[r].kind \in Column /\ req[r].step \notin {"checked", "put"} =>
           \/ req[r].new \in told'[req[r].user][req[r].kind]
           \/ /\ req'[r].kind = req[r].kind /\ req'[r].user = req[r].user
              /\ req'[r].new = req[r].new
              /\ req'[r].step \notin {"checked", "put"}
  PROVE  \A i \in Ids, k \in Column : Told(i, k) \subseteq Told(i, k)'
<1>. TAKE i \in Ids, k \in Column
<1>1. \A s \in Executed(i, k) :
        \/ req[s].new \in told'[i][k]
        \/ s \in Executed(i, k)' /\ req'[s].new = req[s].new
  <2>. TAKE s \in Executed(i, k)
  <2>1. s \in Requests /\ req[s].kind = k /\ req[s].user = i
        /\ req[s].step \notin {"checked", "put"}
    BY DEF Executed, Changing
  <2>2. CASE s # r
    BY <2>1, <2>2 DEF Executed, Changing
  <2>3. CASE s = r
    BY <2>1, <2>3 DEF Executed, Changing
  <2>. QED  BY <2>2, <2>3
<1>. QED
  BY <1>1, Remembering

LEMMA UntoldStill ==
  ASSUME Known, Untold, UNCHANGED users, NEW u \in DOMAIN users,
         \A i \in Ids : i # u => told'[i] = told[i]
  PROVE  Untold'
BY DEF Untold

(* A change that is not alone cannot have met nobody. *)
LEMMA Alone ==
  ASSUME Known, NEW r \in Requests, NEW s \in Requests, s # r,
         req[r].kind \in Column, req[s].kind = req[r].kind, req[s].met = {}
  PROVE  req[s].user # req[r].user
BY DEF Known, Met

Account == Untold /\ Explained /\ Unmet

LEMMA InitAccount == Init => Account
<1>. SUFFICES ASSUME Init PROVE Account
  OBVIOUS
<1>1. \A r \in Requests : req[r].step = "idle"
  BY IdleIsSound DEF Init
<1>2. \A i \in Ids : object[i] \in told[i]["avatar"]
  BY DEF Init, Column
<1>3. DOMAIN users = {}
  BY DEF Init
<1>4. Untold
  BY <1>3 DEF Init, Untold
<1>5. Explained
  BY <1>2, <1>3 DEF Explained, Told
<1>6. Unmet
  BY <1>1 DEF Unmet, Finds
<1>. QED
  BY <1>4, <1>5, <1>6 DEF Account

(* What a request that met nobody wrote is not written by the others. *)
Spared(s) ==
  /\ req[s].kind = "password"
       => users'[req[s].user].password = users[req[s].user].password
  /\ req[s].kind = "name"
       => users'[req[s].user].name = users[req[s].user].name
  /\ req[s].kind = "avatar"
       => /\ object'[req[s].user] = object[req[s].user]
          /\ users'[req[s].user].image_path = users[req[s].user].image_path

LEMMA UnmetStill ==
  ASSUME Known, Unmet, NEW r \in Requests,
         \A s \in Requests : s # r =>
           /\ req'[s].kind = req[s].kind /\ req'[s].step = req[s].step
           /\ req'[s].user = req[s].user /\ req'[s].new = req[s].new
           /\ req[s].met \subseteq req'[s].met
           /\ req[s].kind \in Column /\ req[s].met = {} => Spared(s),
         req'[r].met = {} => Finds(r)'
  PROVE  Unmet'
<1>. SUFFICES ASSUME NEW s \in Requests, s # r, req'[s].met = {} PROVE Finds(s)'
  BY DEF Unmet
<1>0. req[s].met = {}
  OBVIOUS
<1>1. Finds(s) /\ (req[s].kind \in Column => Spared(s))
  BY <1>0 DEF Unmet
<1>. QED
  BY <1>1 DEF Finds, Spared, Column

LEMMA AccountBegun ==
  ASSUME Known, Account, NEW r \in Requests, NEW q \in Request, Begins(r, q),
         q.step \in {"free", "token", "checked", "put"},
         UNCHANGED <<users, object, told>>
  PROVE  Account'
<1>1. /\ req[r].step = "idle" /\ req'[r].step = q.step
      /\ \A s \in Requests : s # r =>
           /\ req'[s].kind = req[s].kind /\ req'[s].step = req[s].step
           /\ req'[s].user = req[s].user /\ req'[s].new = req[s].new
           /\ req[s].met \subseteq req'[s].met
  BY Beginning
<1>2. Unmet'
  <2>1. Finds(r)'
    BY <1>1 DEF Finds
  <2>2. \A s \in Requests : Spared(s)
    BY DEF Spared
  <2>. QED  BY <1>1, <2>1, <2>2, UnmetStill DEF Account
<1>3. \A i \in Ids, k \in Column : Told(i, k) \subseteq Told(i, k)'
  <2>. TAKE i \in Ids, k \in Column
  <2>1. \A s \in Executed(i, k) : s \in Executed(i, k)' /\ req'[s].new = req[s].new
    BY <1>1 DEF Executed, Changing, Known, Staged
  <2>. QED  BY <2>1, Remembering
<1>4. Explained' /\ Untold'
  BY <1>3, ExplainedStill DEF Account, Untold
<1>. QED
  BY <1>2, <1>4 DEF Account

LEMMA AccountSaved ==
  ASSUME Known, Account, NEW r \in Requests, NEW i \in Ids, Save(r, i) \/ SaveLost(r, i)
  PROVE  Account'
<1>1. /\ Unique(req[r].address) /\ Inserts(r, i)
  BY DEF Save, SaveLost
<1>2. /\ DOMAIN users' = DOMAIN users \cup {i} /\ i \notin DOMAIN users
      /\ req[r].step = "free" /\ UNCHANGED object
      /\ users'[i] = NewUser(req[r].address, req[r].new)
      /\ \A j \in DOMAIN users : users'[j] = users[j]
      /\ told'[i] = [told[i] EXCEPT !["password"] = {req[r].new}]
      /\ \A j \in Ids : j # i => told'[j] = told[j]
  BY <1>1, Inserting
<1>3. /\ req[r].kind \notin Column
      /\ req'[r].kind \notin Column
      /\ \A s \in Requests : s # r => req'[s] = req[s]
  <2>1. CASE Save(r, i)
    BY <1>2, <2>1, Saving
  <2>2. CASE SaveLost(r, i)
    BY <1>2, <2>2, Ending, IdleIsSound DEF SaveLost, Known, Staged, Column
  <2>. QED  BY <2>1, <2>2
<1>4. Unmet'
  <2>1. Finds(r)'
    BY <1>3 DEF Finds, Save, SaveLost, Column
  <2>2. \A s \in Requests : req[s].kind \in Column => Spared(s)
    BY <1>2, Changer DEF Spared
  <2>. QED  BY <1>3, <2>1, <2>2, UnmetStill DEF Account
<1>5. Untold'
  BY <1>2 DEF Account, Untold
<1>6. \A j \in Ids, k \in Column : Told(j, k) \subseteq Told(j, k)' \/ j = i
  <2>. SUFFICES ASSUME NEW j \in Ids, NEW k \in Column, j # i
                PROVE  Told(j, k) \subseteq Told(j, k)'
    OBVIOUS
  <2>1. \A s \in Executed(j, k) : s \in Executed(j, k)' /\ req'[s].new = req[s].new
    BY <1>3 DEF Executed, Changing
  <2>. QED  BY <1>2, <2>1, Remembering
<1>7. told'[i] = [k \in Column |-> IF k = "password" THEN {req[r].new} ELSE {Nobody}]
  <2>1. told[i] = [k \in Column |-> {Nobody}]
    BY <1>2 DEF Account, Untold
  <2>2. told'[i] = [told[i] EXCEPT !["password"] = {req[r].new}]
    BY <1>2
  <2>. QED  BY <2>1, <2>2
<1>8. object[i] = Nobody
  <2>1. told[i] = [k \in Column |-> {Nobody}]
    BY <1>2 DEF Account, Untold
  <2>2. Executed(i, "avatar") = {}
    BY <1>2, Changer DEF Executed, Changing, Column
  <2>. QED  BY <2>1, <2>2 DEF Account, Explained, Told, Column
<1>9. /\ users'[i].password = req[r].new /\ users'[i].name = Nobody
      /\ users'[i].image_path = ""
  <2>1. /\ NewUser(req[r].address, req[r].new).password = req[r].new
        /\ NewUser(req[r].address, req[r].new).name = Nobody
        /\ NewUser(req[r].address, req[r].new).image_path = ""
    BY DEF NewUser
  <2>. QED  BY <1>2, <2>1
<1>10. /\ users'[i].password \in Told(i, "password")'
       /\ users'[i].name \in Told(i, "name")'
       /\ Nobody \in Told(i, "avatar")' /\ object'[i] \in Told(i, "avatar")'
  <2>1. /\ told'[i]["password"] = {req[r].new} /\ told'[i]["name"] = {Nobody}
        /\ told'[i]["avatar"] = {Nobody}
    BY <1>7 DEF Column
  <2>. QED  BY <1>2, <1>8, <1>9, <2>1 DEF Told
<1>11. Explained'
  <2>1. \A j \in Ids : object'[j] \in Told(j, "avatar")'
    BY <1>2, <1>6, <1>10 DEF Account, Explained, Column
  <2>2. ASSUME NEW j \in DOMAIN users'
        PROVE  /\ users'[j].password \in Told(j, "password")'
               /\ users'[j].name \in Told(j, "name")'
               /\ users'[j].image_path # "key" => Nobody \in Told(j, "avatar")'
    <3>1. CASE j = i
      BY <1>10, <3>1
    <3>2. CASE j # i
      <4>1. j \in DOMAIN users /\ j \in Ids /\ users'[j] = users[j]
        BY <1>2, <2>2, <3>2 DEF Known, TypeOK
      <4>. QED  BY <1>6, <3>2, <4>1 DEF Account, Explained, Column
    <3>. QED  BY <3>1, <3>2
  <2>. QED  BY <2>1, <2>2 DEF Explained
<1>. QED
  BY <1>4, <1>5, <1>11 DEF Account

(* PutObject, its failure, and the removal of an object. *)
LEMMA AccountStored ==
  ASSUME Known, Account, NEW r \in Requests,
         PutObject(r) \/ PutFails(r) \/ DeleteAvatar(r)
  PROVE  Account'
<1>1. /\ req[r].kind = "avatar" /\ req[r].kind \in Column /\ UNCHANGED users
      /\ \A s \in Requests : s # r => req'[s] = req[s]
  <2>1. req[r].step \in {"put", "undo"} /\ UNCHANGED users
    BY DEF PutObject, PutFails, DeleteAvatar
  <2>2. \A s \in Requests : s # r => req'[s] = req[s]
    BY Going, Ending DEF PutObject, PutFails, DeleteAvatar
  <2>. QED  BY <2>1, <2>2 DEF Known, Staged, Column
<1>2. PICK u \in DOMAIN users : u = req[r].user /\ u \in Ids /\ req[r].new \in Values
  BY <1>1, Changer
<1>3. \A i \in Ids : i # u => object'[i] = object[i]
  BY <1>2 DEF PutObject, PutFails, DeleteAvatar, Known, TypeOK
<1>4. Unmet'
  <2>1. Finds(r)'
    <3>1. CASE PutObject(r)
      <4>1. req'[r].step = "stored" /\ req'[r].user = u /\ req'[r].new = req[r].new
        BY <1>2, <3>1, Going DEF PutObject
      <4>2. object'[u] = req[r].new
        BY <1>2, <3>1 DEF PutObject, Known, TypeOK
      <4>. QED  BY <4>1, <4>2 DEF Finds
    <3>2. CASE PutFails(r) \/ DeleteAvatar(r)
      <4>1. req'[r].step = "idle"
        BY <3>2, Ending, IdleIsSound DEF PutFails, DeleteAvatar
      <4>. QED  BY <4>1 DEF Finds
    <3>. QED  BY <3>1, <3>2
  <2>2. \A s \in Requests : s # r /\ req[s].kind \in Column /\ req[s].met = {} => Spared(s)
    BY <1>1, <1>2, <1>3, Alone, Changer DEF Spared
  <2>. QED  BY <1>1, <2>1, <2>2, UnmetStill DEF Account
<1>5. /\ \A i \in Ids : i # u => told'[i] = told[i]
      /\ \A i \in Ids, k \in Column : told[i][k] \subseteq told'[i][k]
      /\ PutFails(r) => req[r].new \in told'[u]["avatar"]
      /\ DeleteAvatar(r) => Nobody \in told'[u]["avatar"]
  <2>1. PutObject(r) => UNCHANGED told
    BY DEF PutObject, history
  <2>2. ASSUME NEW V \in SUBSET (Values \cup {Nobody}), Doubts(r, V)
        PROVE  /\ \A i \in Ids : i # u => told'[i] = told[i]
               /\ \A i \in Ids, k \in Column : told[i][k] \subseteq told'[i][k]
               /\ V \subseteq told'[u]["avatar"]
    BY <1>1, <1>2, <2>2, Doubting, InDoubt
  <2>3. PutFails(r) =>
          /\ \A i \in Ids : i # u => told'[i] = told[i]
          /\ \A i \in Ids, k \in Column : told[i][k] \subseteq told'[i][k]
          /\ req[r].new \in told'[u]["avatar"]
    BY <1>2, <2>2 DEF PutFails
  <2>4. DeleteAvatar(r) =>
          /\ \A i \in Ids : i # u => told'[i] = told[i]
          /\ \A i \in Ids, k \in Column : told[i][k] \subseteq told'[i][k]
          /\ Nobody \in told'[u]["avatar"]
    BY <2>2 DEF DeleteAvatar
  <2>. QED  BY <2>1, <2>3, <2>4
<1>6. Untold'
  BY <1>1, <1>2, <1>5, UntoldStill DEF Account
<1>7. \A i \in Ids, k \in Column :
        (i = u /\ k = "avatar" /\ DeleteAvatar(r)) \/ Told(i, k) \subseteq Told(i, k)'
  <2>1. CASE PutObject(r)
    <3>1. req[r].step = "put"
      BY <2>1 DEF PutObject
    <3>. QED  BY <1>1, <1>5, <3>1, OneRemembers
  <2>2. CASE PutFails(r)
    <3>1. req[r].step = "put"
      BY <2>2 DEF PutFails
    <3>. QED  BY <1>1, <1>5, <3>1, OneRemembers
  <2>3. ASSUME DeleteAvatar(r), NEW i \in Ids, NEW k \in Column, i # u \/ k # "avatar"
        PROVE  Told(i, k) \subseteq Told(i, k)'
    <3>1. \A s \in Executed(i, k) : s \in Executed(i, k)' /\ req'[s].new = req[s].new
      BY <1>1, <1>2, <2>3 DEF Executed, Changing
    <3>. QED  BY <1>5, <3>1, Remembering
  <2>. QED  BY <2>1, <2>2, <2>3
<1>8. object'[u] \in Told(u, "avatar")'
  <2>1. CASE PutObject(r)
    <3>1. req'[r].step = "stored" /\ req'[r].kind = "avatar" /\ req'[r].user = u
          /\ req'[r].new = req[r].new
      BY <1>1, <1>2, <2>1, Going DEF PutObject
    <3>2. object'[u] = req[r].new
      BY <1>2, <2>1 DEF PutObject, Known, TypeOK
    <3>3. r \in Executed(u, "avatar")'
      BY <3>1 DEF Executed, Changing
    <3>. QED  BY <3>1, <3>2, <3>3 DEF Told
  <2>2. CASE PutFails(r)
    <3>1. object'[u] = object[u] \/ object'[u] = req[r].new
      BY <1>2, <2>2 DEF PutFails, Known, TypeOK
    <3>2. Told(u, "avatar") \subseteq Told(u, "avatar")' /\ object[u] \in Told(u, "avatar")
      BY <1>2, <1>7, <2>2 DEF PutFails, DeleteAvatar, Account, Explained, Column
    <3>3. req[r].new \in Told(u, "avatar")'
      BY <1>5, <2>2 DEF Told
    <3>. QED  BY <3>1, <3>2, <3>3
  <2>3. CASE DeleteAvatar(r)
    <3>1. object'[u] = Nobody
      BY <1>2, <2>3 DEF DeleteAvatar, Known, TypeOK
    <3>. QED  BY <1>5, <2>3, <3>1 DEF Told
  <2>. QED  BY <2>1, <2>2, <2>3
<1>9. Explained'
  <2>1. \A i \in Ids : object'[i] \in Told(i, "avatar")'
    BY <1>3, <1>7, <1>8 DEF Account, Explained, Column
  <2>2. \A i \in DOMAIN users : i \in Ids
    BY DEF Known, TypeOK
  <2>3. \A i \in DOMAIN users :
          /\ users[i].password \in Told(i, "password")'
          /\ users[i].name \in Told(i, "name")'
    BY <1>7, <2>2 DEF Account, Explained, Column
  <2>4. DeleteAvatar(r) => Nobody \in Told(u, "avatar")'
    BY <1>5 DEF Told
  <2>5. \A i \in DOMAIN users : users[i].image_path # "key" => Nobody \in Told(i, "avatar")'
    BY <1>7, <2>2, <2>4 DEF Account, Explained, Column
  <2>. QED  BY <1>1, <2>1, <2>3, <2>5 DEF Explained
<1>. QED
  BY <1>4, <1>6, <1>9 DEF Account

(* The UPDATE, whose error may be reported although it was executed. *)
LEMMA AccountWritten ==
  ASSUME Known, Account, NEW r \in Requests, Write(r) \/ WriteLost(r)
  PROVE  Account'
<1>1. /\ req[r].kind \in Column /\ req[r].step \in {"checked", "stored"}
      /\ req[r].step = "stored" <=> req[r].kind = "avatar"
      /\ users' = [users EXCEPT ![req[r].user] = Row(r)] /\ UNCHANGED object
  BY Writing DEF Write, WriteLost
<1>2. PICK u \in DOMAIN users, k \in Column :
         u = req[r].user /\ u \in Ids /\ req[r].new \in Values /\ k = req[r].kind
  BY <1>1, Changer
<1>3. PICK n : n = req[r].new
  OBVIOUS
<1>4. /\ DOMAIN users' = DOMAIN users
      /\ \A i \in DOMAIN users : i # u => users'[i] = users[i]
      /\ users'[u].password = IF k = "password" THEN n ELSE users[u].password
      /\ users'[u].name = IF k = "name" THEN n ELSE users[u].name
      /\ users'[u].image_path = IF k = "avatar" THEN "key" ELSE users[u].image_path
  BY <1>1, <1>2, <1>3, RowOfUser
<1>5. \A s \in Requests : s # r => req'[s] = req[s]
  BY Going, Ending DEF Write, WriteLost, Fails
<1>6. \A s \in Requests : s # r /\ req[s].kind \in Column /\ req[s].met = {} => Spared(s)
  BY <1>1, <1>2, <1>4, Alone, Changer DEF Spared
<1>7. ASSUME \A i \in Ids, c \in Column : Told(i, c) \subseteq Told(i, c)',
             n \in Told(u, k)'
      PROVE  Explained'
  <2>1. \A i \in DOMAIN users : i \in Ids
    BY DEF Known, TypeOK
  <2>2. \A i \in DOMAIN users : users'[i].password \in Told(i, "password")'
    BY <1>2, <1>4, <1>7, <2>1 DEF Account, Explained, Column
  <2>3. \A i \in DOMAIN users : users'[i].name \in Told(i, "name")'
    BY <1>2, <1>4, <1>7, <2>1 DEF Account, Explained, Column
  <2>4. \A i \in DOMAIN users :
          users'[i].image_path # "key" => Nobody \in Told(i, "avatar")'
    BY <1>2, <1>4, <1>7, <2>1 DEF Account, Explained, Column
  <2>5. \A i \in Ids : object'[i] \in Told(i, "avatar")'
    BY <1>1, <1>7 DEF Account, Explained, Column
  <2>. QED  BY <1>4, <2>2, <2>3, <2>4, <2>5 DEF Explained
<1>8. ASSUME NEW step \in {"written", "undo"}, Goes(r, step), UNCHANGED told,
             step = "undo" => k = "avatar"
      PROVE  Account'
  <2>1. /\ req'[r].step = step /\ req'[r].kind = k /\ req'[r].user = u
        /\ req'[r].new = n /\ req'[r].met = req[r].met
    BY <1>2, <1>3, <1>8, Going
  <2>2. req'[r].met = {} => Finds(r)'
    <3>1. req[r].met = {} /\ k = "avatar" => object[u] = n
      BY <1>1, <1>2, <1>3 DEF Account, Unmet, Finds
    <3>2. UNCHANGED object
      BY <1>1
    <3>. QED  BY <1>4, <1>8, <2>1, <3>1, <3>2 DEF Finds
  <2>3. Unmet'
    BY <1>5, <1>6, <2>2, UnmetStill DEF Account
  <2>4. Untold'
    BY <1>4, <1>8 DEF Account, Untold
  <2>5. \A i \in Ids, c \in Column : Told(i, c) \subseteq Told(i, c)'
    BY <1>2, <1>3, <1>5, <1>8, <2>1, OneRemembers
  <2>6. n \in Told(u, k)'
    BY <2>1, <1>8 DEF Told, Executed, Changing
  <2>. QED  BY <1>7, <2>3, <2>4, <2>5, <2>6 DEF Account
<1>9. ASSUME Ends(r), Doubts(r, {n})
      PROVE  Account'
  <2>1. req'[r].step = "idle"
    BY <1>9, Ending, IdleIsSound
  <2>2. /\ \A i \in Ids, c \in Column : told[i][c] \subseteq told'[i][c]
        /\ n \in told'[u][k] /\ \A i \in Ids : i # u => told'[i] = told[i]
    BY <1>1, <1>2, <1>3, <1>9, Doubting, InDoubt
  <2>3. Unmet'
    <3>1. Finds(r)'
      BY <2>1 DEF Finds
    <3>. QED  BY <1>5, <1>6, <3>1, UnmetStill DEF Account
  <2>4. Untold'
    BY <1>4, <2>2 DEF Account, Untold
  <2>5. \A i \in Ids, c \in Column : Told(i, c) \subseteq Told(i, c)'
    BY <1>2, <1>3, <1>5, <2>2, OneRemembers
  <2>6. n \in Told(u, k)'
    BY <2>2 DEF Told
  <2>. QED  BY <1>7, <2>3, <2>4, <2>5, <2>6 DEF Account
<1>10. CASE Write(r)
  BY <1>8, <1>10 DEF Write
<1>11. CASE WriteLost(r)
  BY <1>1, <1>2, <1>3, <1>8, <1>9, <1>11 DEF WriteLost, Fails
<1>. QED
  BY <1>10, <1>11

(* A request that ends or goes on without touching the data. *)
LEMMA AccountLeft ==
  ASSUME Known, Account, NEW r \in Requests,
         SaveFails(r) \/ SetCookie(r) \/ WriteFails(r) \/ Stops(r)
  PROVE  Account'
<1>1. UNCHANGED <<users, object>>
  BY DEF SaveFails, SetCookie, WriteFails, Stops
<1>2. \A s \in Requests : s # r => req'[s] = req[s]
  BY Going, Ending DEF SaveFails, SetCookie, WriteFails, Stops
<1>3. req'[r].step \in {"idle", "undo"}
  BY Going, Ending, IdleIsSound DEF SaveFails, SetCookie, WriteFails, Stops
<1>4. Unmet'
  <2>1. Finds(r)'
    BY <1>3 DEF Finds
  <2>2. \A s \in Requests : Spared(s)
    BY <1>1 DEF Spared
  <2>. QED  BY <1>2, <2>1, <2>2, UnmetStill DEF Account
<1>5. ASSUME UNCHANGED told,
             req[r].kind \in Column /\ req[r].step \notin {"checked", "put"} =>
               /\ req'[r].kind = req[r].kind /\ req'[r].user = req[r].user
               /\ req'[r].new = req[r].new
               /\ req'[r].step \notin {"checked", "put"}
      PROVE  Account'
  <2>1. \A i \in Ids, k \in Column : Told(i, k) \subseteq Told(i, k)'
    BY <1>2, <1>5, OneRemembers
  <2>2. Explained' /\ Untold'
    BY <1>1, <1>5, <2>1, ExplainedStill DEF Account, Untold
  <2>. QED  BY <1>4, <2>2 DEF Account
<1>6. CASE SaveFails(r) \/ SetCookie(r)
  <2>1. UNCHANGED told /\ req[r].step \in {"free", "token"}
    BY <1>6 DEF SaveFails, SetCookie, history
  <2>2. req[r].kind \notin Column
    BY <2>1 DEF Known, Staged, Column
  <2>. QED  BY <1>5, <2>1, <2>2
<1>7. CASE WriteFails(r)
  <2>1. UNCHANGED told
    BY <1>7 DEF WriteFails, history
  <2>2. CASE req[r].step = "checked"
    BY <1>5, <2>1, <2>2
  <2>3. CASE req[r].step = "stored" /\ Goes(r, "undo")
    <3>1. /\ req'[r].kind = req[r].kind /\ req'[r].user = req[r].user
          /\ req'[r].new = req[r].new /\ req'[r].step = "undo"
      BY <2>3, Going
    <3>. QED  BY <1>5, <2>1, <3>1
  <2>. QED  BY <1>7, <2>2, <2>3 DEF WriteFails
<1>8. CASE Stops(r)
  <2>1. CASE req[r].kind \notin Column
    <3>1. UNCHANGED told
      BY <1>8, <2>1 DEF Stops, Doubts
    <3>. QED  BY <1>5, <2>1, <3>1
  <2>2. CASE req[r].kind \in Column
    <3>1. PICK u \in DOMAIN users, V \in SUBSET (Values \cup {Nobody}) :
            /\ u = req[r].user /\ Doubts(r, V)
            /\ req[r].step \notin {"checked", "put"} => req[r].new \in V
      <4>1. req[r].new \in Values /\ req[r].user \in DOMAIN users
        BY <2>2, Changer
      <4>2. Doubts(r, IF req[r].step \in {"checked", "put"} THEN {} ELSE {req[r].new})
        BY <1>8 DEF Stops
      <4>. QED  BY <4>1, <4>2
    <3>2. /\ \A i \in Ids, k \in Column : told[i][k] \subseteq told'[i][k]
          /\ V \subseteq told'[req[r].user][req[r].kind]
          /\ \A i \in Ids : i # u => told'[i] = told[i]
      BY <2>2, <3>1, Doubting, InDoubt
    <3>3. \A i \in Ids, k \in Column : Told(i, k) \subseteq Told(i, k)'
      BY <1>2, <3>1, <3>2, OneRemembers
    <3>4. Explained' /\ Untold'
      BY <1>1, <3>2, <3>3, ExplainedStill, UntoldStill DEF Account
    <3>. QED  BY <1>4, <3>4 DEF Account
  <2>. QED  BY <2>1, <2>2
<1>. QED
  BY <1>6, <1>7, <1>8

LEMMA AccountAnswered ==
  ASSUME Known, Account, NEW r \in Requests, Answer(r)
  PROVE  Account'
<1>1. /\ req[r].step = "written" /\ Ends(r) /\ UNCHANGED <<users, object>>
  BY DEF Answer
<1>2. /\ req[r].kind \in Column
      /\ \A i \in Ids : i # req[r].user => told'[i] = told[i]
      /\ \A i \in Ids, c \in Column :
           told'[i][c] = IF i = req[r].user /\ c = req[r].kind
                         THEN IF req[r].met = {} THEN {req[r].new}
                              ELSE told[i][c] \cup {req[r].new}
                         ELSE told[i][c]
  BY Answering
<1>3. PICK u \in DOMAIN users, k \in Column :
         u = req[r].user /\ u \in Ids /\ k = req[r].kind
  BY <1>2, Changer
<1>4. req'[r].step = "idle" /\ \A s \in Requests : s # r => req'[s] = req[s]
  BY <1>1, Ending, IdleIsSound
<1>5. Unmet'
  <2>1. Finds(r)'
    BY <1>4 DEF Finds
  <2>2. \A s \in Requests : Spared(s)
    BY <1>1 DEF Spared
  <2>. QED  BY <1>4, <2>1, <2>2, UnmetStill DEF Account
<1>6. Untold'
  BY <1>1, <1>2, <1>3, UntoldStill DEF Account
<1>7. ASSUME req[r].met # {}
      PROVE  Explained'
  <2>1. \A i \in Ids, c \in Column : told[i][c] \subseteq told'[i][c]
    BY <1>2, <1>7
  <2>2. req[r].new \in told'[req[r].user][req[r].kind]
    BY <1>2, <1>3
  <2>3. \A i \in Ids, c \in Column : Told(i, c) \subseteq Told(i, c)'
    BY <1>4, <2>1, <2>2, OneRemembers
  <2>. QED  BY <1>1, <2>3, ExplainedStill DEF Account
<1>8. ASSUME req[r].met = {}
      PROVE  Explained'
  <2>1. req[r].new \in Told(u, k)'
    BY <1>2, <1>3, <1>8 DEF Told
  <2>2. /\ k = "password" => users[u].password = req[r].new
        /\ k = "name" => users[u].name = req[r].new
        /\ k = "avatar" => object[u] = req[r].new /\ users[u].image_path = "key"
    BY <1>1, <1>3, <1>8 DEF Account, Unmet, Finds
  <2>3. ASSUME NEW i \in Ids, NEW c \in Column, i # u \/ c # k
        PROVE  Told(i, c) \subseteq Told(i, c)'
    <3>1. told'[i][c] = told[i][c]
      BY <1>2, <1>3, <2>3
    <3>2. \A s \in Executed(i, c) : s \in Executed(i, c)' /\ req'[s].new = req[s].new
      BY <1>3, <1>4, <2>3 DEF Executed, Changing
    <3>. QED  BY <3>1, <3>2, Remembering
  <2>4. \A i \in DOMAIN users : i \in Ids
    BY DEF Known, TypeOK
  <2>5. \A i \in Ids : object[i] \in Told(i, "avatar")'
    BY <1>3, <2>1, <2>2, <2>3 DEF Account, Explained, Column
  <2>6. \A i \in DOMAIN users : users[i].password \in Told(i, "password")'
    BY <1>3, <2>1, <2>2, <2>3, <2>4 DEF Account, Explained, Column
  <2>7. \A i \in DOMAIN users : users[i].name \in Told(i, "name")'
    BY <1>3, <2>1, <2>2, <2>3, <2>4 DEF Account, Explained, Column
  <2>8. \A i \in DOMAIN users :
          users[i].image_path # "key" => Nobody \in Told(i, "avatar")'
    BY <1>3, <2>1, <2>2, <2>3, <2>4 DEF Account, Explained, Column
  <2>. QED  BY <1>1, <2>5, <2>6, <2>7, <2>8 DEF Explained
<1>. QED
  BY <1>5, <1>6, <1>7, <1>8 DEF Account

LEMMA AccountUnchanged ==
  ASSUME Account, UNCHANGED <<users, object, told, req>>
  PROVE  Account'
<1>1. \A i, k : Told(i, k)' = Told(i, k)
  BY DEF Told, Executed, Changing
<1>. QED
  BY <1>1 DEF Account, Untold, Explained, Unmet, Finds

LEMMA AccountKept == Known /\ Account /\ Next => Account'
<1>. SUFFICES ASSUME Known, Account, Next PROVE Account'
  OBVIOUS
<1>1. ASSUME NEW r \in Requests, NEW b \in Browsers, Enter(r, b)
      PROVE  Account'
  <2>. PICK p \in Values :
         \/ \E a \in Addresses : SignUp(r, b, a, p) \/ SignIn(r, b, a, p)
         \/ \E old \in Values : UpdatePassword(r, b, old, p)
         \/ UpdateProfile(r, b, p)
         \/ UploadAvatar(r, b, p)
    BY <1>1 DEF Enter
  <2>1. ASSUME NEW a \in Addresses, SignUp(r, b, a, p)
        PROVE  Account'
    <3>1. UNCHANGED <<users, object, told>>
      BY <2>1 DEF SignUp
    <3>. QED  BY <2>1, <3>1, SigningUp, AccountBegun
  <2>2. ASSUME NEW a \in Addresses, SignIn(r, b, a, p)
        PROVE  Account'
    <3>1. UNCHANGED <<users, object, told>>
      BY <2>2 DEF SignIn
    <3>. QED  BY <2>2, <3>1, SigningIn, AccountBegun
  <2>3. ASSUME NEW k \in Column, NEW step \in {"checked", "put"},
               NEW old \in Values \cup {Nobody}, Change(r, b, k, step, old, p)
        PROVE  Account'
    <3>1. UNCHANGED <<users, object, told>>
      BY <2>3 DEF Change, history
    <3>. QED  BY <2>3, <3>1, Changes, AccountBegun
  <2>4. CASE \E old \in Values : UpdatePassword(r, b, old, p)
    BY <2>3, <2>4 DEF UpdatePassword, Column
  <2>5. CASE UpdateProfile(r, b, p)
    BY <2>3, <2>5 DEF UpdateProfile, Column
  <2>6. CASE UploadAvatar(r, b, p)
    BY <2>3, <2>6 DEF UploadAvatar, Column
  <2>. QED  BY <2>1, <2>2, <2>4, <2>5, <2>6
<1>2. ASSUME NEW b \in Browsers, Logout(b)
      PROVE  Account'
  BY <1>2, AccountUnchanged DEF Logout, history
<1>. QED
  BY <1>1, <1>2, AccountSaved, AccountStored, AccountWritten, AccountLeft,
     AccountAnswered DEF Next

(* What an account holds is what its owner was told, or was left in doubt   *)
(* about, by UpdatePassword, UpdateProfile or UploadAvatar of user.go.      *)
THEOREM AsToldAlways == Spec => []AsTold
<1>1. Known /\ Account /\ [Next]_vars => Account'
  BY AccountKept, AccountUnchanged DEF vars
<1>2. Known /\ Account => AsTold
  <2>. SUFFICES ASSUME Known, Account, NEW i \in DOMAIN users, NEW k \in Column
                PROVE  Value(i, k) \in told[i][k] \cup {req[r].new : r \in Changing(i, k)}
    BY DEF AsTold
  <2>1. Told(i, k) \subseteq told[i][k] \cup {req[r].new : r \in Changing(i, k)}
    BY DEF Told, Executed
  <2>2. i \in Ids
    BY DEF Known, TypeOK
  <2>3. Value(i, k) \in Told(i, k)
    BY <2>2 DEF Account, Explained, Value, Column
  <2>. QED  BY <2>1, <2>3
<1>. QED
  BY <1>1, <1>2, InitAccount, KnownAlways, PTL DEF Spec

=============================================================================
