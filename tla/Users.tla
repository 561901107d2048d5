------------------------------- MODULE Users -------------------------------
(***************************************************************************)
(* The user service: accounts, sessions, and the three things of an        *)
(* account that its owner changes: password, names and avatar.  A change   *)
(* is a request of several steps, among which other requests come, and any *)
(* of which can fail, or succeed and be reported as failed.  A session is  *)
(* a signed token with the id of the account, which no table knows of.     *)
(***************************************************************************)
EXTENDS Naturals, FiniteSets

CONSTANTS
  Ids,        \* users.id, never used twice
  Addresses,
  Values,     \* stands for passwords, for names and for avatars
  Browsers,
  Requests,   \* slots of requests at work at the same time
  MaxRequests,\* bound: how many requests are begun
  Nobody      \* no account, and the avatar that is not there

ASSUME NobodyAssumption == Nobody \notin Ids \cup Addresses \cup Values \cup Browsers
ASSUME MaxRequestsAssumption == MaxRequests \in Nat

VARIABLES
  users,  \* the table: a function on the ids in use
  object, \* the avatars in the storage, whose key is made of the id
  cookie, \* session_token: the account, or Nobody
  req,    \* the requests at work
  told,   \* history: what each column may hold after the answers given
  gave,   \* history: the addresses and passwords a browser signed in with
  past,   \* history: the passwords an account has had
  begun   \* the number of requests so far

vars == <<users, object, cookie, req, told, gave, past, begun>>
history == <<told, gave, past>>

Column == {"password", "name", "avatar"}
User ==
  [address : Addresses, password : Values, name : Values \cup {Nobody},
   image_path : {"", "key"}]

Idle ==
  [kind |-> "none", step |-> "idle", browser |-> Nobody, user |-> Nobody,
   address |-> Nobody, old |-> Nobody, new |-> Nobody, met |-> {}]

(* The avatar of an account is the object that its image_path leads to. *)
Value(i, k) ==
  CASE k = "password" -> users[i].password
    [] k = "name" -> users[i].name
    [] k = "avatar" -> IF users[i].image_path = "key" THEN object[i] ELSE Nobody

Changing(i, k) == {r \in Requests : req[r].user = i /\ req[r].kind = k}

Init ==
  /\ users = <<>> /\ begun = 0
  /\ object = [i \in Ids |-> Nobody]
  /\ cookie = [b \in Browsers |-> Nobody]
  /\ req = [r \in Requests |-> Idle]
  /\ told = [i \in Ids |-> [k \in Column |-> {Nobody}]]
  /\ gave = [b \in Browsers |-> {}]
  /\ past = [i \in Ids |-> {}]

-----------------------------------------------------------------------------
(* A request begins, and meets those that are changing the same column.    *)
Begins(r, q) ==
  LET rivals == IF q.kind \in Column THEN Changing(q.user, q.kind) ELSE {}
  IN /\ req[r].step = "idle" /\ begun < MaxRequests
     /\ begun' = begun + 1
     /\ req' = [s \in Requests |->
                  IF s = r THEN [q EXCEPT !.met = rivals]
                  ELSE IF s \in rivals THEN [req[s] EXCEPT !.met = @ \cup {r}]
                  ELSE req[s]]

Goes(r, step) == req' = [req EXCEPT ![r].step = step]
Ends(r) == req' = [req EXCEPT ![r] = Idle]

(* What the browsers have been told adds V to what the column may hold. *)
Doubts(r, V) ==
  told' = IF req[r].kind \in Column
          THEN [told EXCEPT ![req[r].user][req[r].kind] = @ \cup V] ELSE told

FindByEmail(a) == {i \in DOMAIN users : users[i].address = a}

(* A sign-up for a taken address ends here. *)
SignUp(r, b, a, p) ==
  /\ FindByEmail(a) = {}
  /\ Begins(r, [Idle EXCEPT !.kind = "signup", !.step = "free", !.browser = b,
                            !.address = a, !.new = p])
  /\ gave' = [gave EXCEPT ![b] = @ \cup {<<a, p>>}]
  /\ UNCHANGED <<users, object, cookie, told, past>>

NewUser(a, p) == [address |-> a, password |-> p, name |-> Nobody, image_path |-> ""]

Inserts(r, i) ==
  /\ req[r].step = "free" /\ i \notin DOMAIN users
  /\ users' = [j \in DOMAIN users \cup {i} |->
                 IF j = i THEN NewUser(req[r].address, req[r].new) ELSE users[j]]
  /\ told' = [told EXCEPT ![i].password = {req[r].new}]
  /\ past' = [past EXCEPT ![i] = {req[r].new}]
  /\ UNCHANGED <<object, cookie, gave, begun>>

(* The column email is UNIQUE. *)
Unique(a) == \A i \in DOMAIN users : users[i].address # a

(* Mutant: on a conflict Save returns the id of the row that is there. *)
SaveOrFind(r, i) ==
  IF Unique(req[r].address)
  THEN Inserts(r, i) /\ req' = [req EXCEPT ![r].step = "token", ![r].user = i]
  ELSE /\ req[r].step = "free"
       /\ \E j \in DOMAIN users :
            /\ users[j].address = req[r].address
            /\ req' = [req EXCEPT ![r].step = "token", ![r].user = j]
       /\ UNCHANGED <<users, object, cookie, history, begun>>
(* Mutant: the column is not UNIQUE. *)
SaveTwice(r, i) ==
  Inserts(r, i) /\ req' = [req EXCEPT ![r].step = "token", ![r].user = i]

Save(r, i) ==
  /\ Unique(req[r].address)
  /\ Inserts(r, i)
  /\ req' = [req EXCEPT ![r].step = "token", ![r].user = i]

SaveLost(r, i) == Unique(req[r].address) /\ Inserts(r, i) /\ Ends(r)

SaveFails(r) ==
  /\ req[r].step = "free" /\ Ends(r)
  /\ UNCHANGED <<users, object, cookie, history, begun>>

(* Mutant: any password will do. *)
SignInAnyhow(r, b, a, p) ==
  \E i \in DOMAIN users :
    /\ users[i].address = a
    /\ Begins(r, [Idle EXCEPT !.kind = "signin", !.step = "token", !.browser = b, !.user = i])
    /\ gave' = [gave EXCEPT ![b] = @ \cup {<<a, p>>}]
    /\ UNCHANGED <<users, object, cookie, told, past>>

(* A sign-in with a wrong password ends here. *)
SignIn(r, b, a, p) ==
  \E i \in FindByEmail(a) :
    /\ users[i].password = p
    /\ Begins(r, [Idle EXCEPT !.kind = "signin", !.step = "token", !.browser = b, !.user = i])
    /\ gave' = [gave EXCEPT ![b] = @ \cup {<<a, p>>}]
    /\ UNCHANGED <<users, object, cookie, told, past>>

SetCookie(r) ==
  /\ req[r].step = "token"
  /\ cookie' = [cookie EXCEPT ![req[r].browser] = req[r].user]
  /\ Ends(r)
  /\ UNCHANGED <<users, object, history, begun>>

(* The user logs out, or the token expires. *)
Logout(b) ==
  /\ cookie[b] # Nobody
  /\ cookie' = [cookie EXCEPT ![b] = Nobody]
  /\ UNCHANGED <<users, object, req, history, begun>>

-----------------------------------------------------------------------------
Change(r, b, k, step, old, new) ==
  /\ cookie[b] # Nobody
  /\ Begins(r, [Idle EXCEPT !.kind = k, !.step = step, !.browser = b,
                            !.user = cookie[b], !.old = old, !.new = new])
  /\ UNCHANGED <<users, object, cookie, history>>

(* Mutant: the old password is not asked for. *)
UpdateUnasked(r, b, old, new) == Change(r, b, "password", "checked", old, new)

(* GetUserPasswordByID, and the comparison; a wrong password ends here. *)
UpdatePassword(r, b, old, new) ==
  /\ cookie[b] # Nobody /\ users[cookie[b]].password = old
  /\ Change(r, b, "password", "checked", old, new)

UpdateProfile(r, b, new) == Change(r, b, "name", "checked", Nobody, new)

(* The file is accepted; PutObject comes next. *)
UploadAvatar(r, b, new) == Change(r, b, "avatar", "put", Nobody, new)

PutObject(r) ==
  /\ req[r].step = "put" /\ Goes(r, "stored")
  /\ object' = [object EXCEPT ![req[r].user] = req[r].new]
  /\ UNCHANGED <<users, cookie, history, begun>>

(* The storage reports an error; the object may be there. *)
PutFails(r) ==
  /\ req[r].step = "put" /\ Ends(r) /\ Doubts(r, {req[r].new})
  /\ object' \in {object, [object EXCEPT ![req[r].user] = req[r].new]}
  /\ UNCHANGED <<users, cookie, gave, past, begun>>

(* The UPDATE of the account.  The path of an avatar is always the same.   *)
Writes(r) ==
  LET i == req[r].user
  IN \/ /\ req[r].kind = "password" /\ req[r].step = "checked"
        /\ users' = [users EXCEPT ![i].password = req[r].new]
        /\ past' = [past EXCEPT ![i] = @ \cup {req[r].new}]
     \/ /\ req[r].kind = "name" /\ req[r].step = "checked"
        /\ users' = [users EXCEPT ![i].name = req[r].new]
        /\ UNCHANGED past
     \/ /\ req[r].step = "stored"
        /\ users' = [users EXCEPT ![i].image_path = "key"]
        /\ UNCHANGED past

Write(r) ==
  /\ Writes(r) /\ Goes(r, "written")
  /\ UNCHANGED <<object, cookie, told, gave, begun>>

(* An error: an avatar is taken back, the others leave it at that. *)
Fails(r) ==
  IF req[r].step = "stored" THEN Goes(r, "undo") /\ UNCHANGED told
  ELSE Ends(r) /\ Doubts(r, {req[r].new})

(* The statement was executed, and an error reported. *)
WriteLost(r) ==
  /\ Writes(r) /\ Fails(r)
  /\ UNCHANGED <<object, cookie, gave, begun>>

(* Mutant: the error is not looked at. *)
WriteUnchecked(r) ==
  /\ req[r].step \in {"checked", "stored"} /\ Goes(r, "written")
  /\ UNCHANGED <<users, object, cookie, history, begun>>

WriteFails(r) ==
  /\ \/ req[r].step = "checked" /\ Ends(r)
     \/ req[r].step = "stored" /\ Goes(r, "undo")
  /\ UNCHANGED <<users, object, cookie, history, begun>>

(* The object is removed, the one an earlier upload had left there too. *)
DeleteAvatar(r) ==
  /\ req[r].step = "undo" /\ Ends(r) /\ Doubts(r, {Nobody})
  /\ object' = [object EXCEPT ![req[r].user] = Nobody]
  /\ UNCHANGED <<users, cookie, gave, past, begun>>

(* A positive answer: the column holds this, if no other change was on the *)
(* way at the same time.                                                   *)
Answer(r) ==
  /\ req[r].step = "written" /\ Ends(r)
  /\ told' = [told EXCEPT ![req[r].user][req[r].kind] =
                IF req[r].met = {} THEN {req[r].new} ELSE @ \cup {req[r].new}]
  /\ UNCHANGED <<users, object, cookie, gave, past, begun>>

(* The service stops, the clean-up fails, or the answer is lost. *)
Stops(r) ==
  /\ req[r].step \in {"token", "checked", "put", "stored", "undo", "written"}
  /\ Ends(r)
  /\ Doubts(r, IF req[r].step \in {"checked", "put"} THEN {} ELSE {req[r].new})
  /\ UNCHANGED <<users, object, cookie, gave, past, begun>>

Enter(r, b) ==
  \E p \in Values :
    \/ \E a \in Addresses : SignUp(r, b, a, p) \/ SignIn(r, b, a, p)
    \/ \E old \in Values : UpdatePassword(r, b, old, p)
    \/ UpdateProfile(r, b, p)
    \/ UploadAvatar(r, b, p)

Next ==
  \/ \E r \in Requests :
       \/ \E b \in Browsers : Enter(r, b)
       \/ \E i \in Ids : Save(r, i) \/ SaveLost(r, i)
       \/ SaveFails(r) \/ SetCookie(r)
       \/ PutObject(r) \/ PutFails(r)
       \/ Write(r) \/ WriteLost(r) \/ WriteFails(r)
       \/ DeleteAvatar(r) \/ Answer(r) \/ Stops(r)
  \/ \E b \in Browsers : Logout(b)

Spec == Init /\ [][Next]_vars

-----------------------------------------------------------------------------
Request ==
  [kind : Column \cup {"none", "signup", "signin"},
   step : {"idle", "free", "token", "checked", "put", "stored", "undo", "written"},
   browser : Browsers \cup {Nobody}, user : Ids \cup {Nobody},
   address : Addresses \cup {Nobody}, old : Values \cup {Nobody},
   new : Values \cup {Nobody}, met : SUBSET Requests]

(* Types; an address has one account; a request changes one that exists.    *)
TypeOK ==
  /\ DOMAIN users \subseteq Ids
  /\ \A i \in DOMAIN users : users[i] \in User
  /\ \A i, j \in DOMAIN users : users[i].address = users[j].address => i = j
  /\ object \in [Ids -> Values \cup {Nobody}]
  /\ cookie \in [Browsers -> DOMAIN users \cup {Nobody}]
  /\ req \in [Requests -> Request]
  /\ \A r \in Requests : req[r].kind \in Column => req[r].user \in DOMAIN users
  /\ told \in [Ids -> [Column -> SUBSET (Values \cup {Nobody})]]
  /\ gave \in [Browsers -> SUBSET (Addresses \X Values)]
  /\ past \in [Ids -> SUBSET Values]
  /\ begun \in 0 .. MaxRequests

(* A password, a name or an avatar is what the user was told it is: the     *)
(* value of the last change that was answered with success and had no other *)
(* beside it, or one that was asked for since and left in doubt by an       *)
(* error, by a missing answer, or by a change at the same time.  After an   *)
(* upload that failed, an account may be left without the avatar it had.    *)
AsTold ==
  \A i \in DOMAIN users, k \in Column :
    Value(i, k) \in told[i][k] \cup {req[r].new : r \in Changing(i, k)}

(* A browser has a session only of an account to whose address it once gave *)
(* a password that this account had: not after losing the race of two       *)
(* sign-ups for an address, and not after the answers came out of order.    *)
SessionProven ==
  \A b \in Browsers :
    cookie[b] # Nobody =>
      \E p \in past[cookie[b]] : <<users[cookie[b]].address, p>> \in gave[b]

(* Who changes a password names the one it replaces, unless another change  *)
(* overtook the comparison.                                                 *)
PasswordFromOld ==
  [][\A i \in DOMAIN users :
       users'[i].password # users[i].password =>
         \E r \in Changing(i, "password") :
           req[r].old = users[i].password \/ req[r].met # {}]_vars
=============================================================================
