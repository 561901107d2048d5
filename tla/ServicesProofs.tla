--------------------------- MODULE ServicesProofs ---------------------------
(***************************************************************************)
(* Proofs about the module Services, for every set of requests and every   *)
(* number of them under way: no service serves without its tables unless a *)
(* migration of this database was cut short, and none misses a request     *)
(* that comes back to it while it still works on it.                       *)
(***************************************************************************)
EXTENDS Services, SequenceTheorems, TLAPS

Stages ==
  {"new", "waiting", "checked", "running", "ran", "migrated", "grpc", "up", "draining", "down"}

Steps == {"none", "runs", "waits", "got", "lost"}

ProcTypes ==
  /\ proc \in [Services -> Stages]
  /\ schema \in BOOLEAN
  /\ version \in {"none", "dirty", "applied"}
  /\ failed \subseteq Services
  /\ mishap \in BOOLEAN

(* The advisory lock is held by one process at a time. *)
OneHolder == \A s, t \in LockHolders : s = t

(* What a process that holds the lock knows of the version and the tables. *)
Locked ==
  \A s \in Services :
    /\ proc[s] = "checked" => version = "none"
    /\ proc[s] = "running" => version = "dirty"
    /\ proc[s] = "ran" => version = "dirty" /\ schema

(* What the version says: the tables are there when it is applied, and a    *)
(* dirty one is the work of a migration that runs or did not end.           *)
Versioned ==
  /\ version = "applied" => schema
  /\ version = "dirty" => mishap \/ \E s \in Services : proc[s] \in {"running", "ran"}

(* Whoever is past its migration has tables, or has logged their absence. *)
Past(s) == proc[s] \in {"migrated", "grpc", "up", "draining"}
Logged == \A s \in Services : Past(s) /\ ~ schema => s \in failed /\ mishap

ProcInv == ProcTypes /\ OneHolder /\ Locked /\ Versioned /\ Logged

-----------------------------------------------------------------------------
ReqTypes ==
  /\ kind \in [Slots -> Kinds]
  /\ frame \in [Slots -> [Depths -> Steps]]
  /\ missed \subseteq Slots

(* A request by HTTP that its service works on keeps the process. *)
Alive(r) ==
  At(r, 1) /\ kind[r] \notin ByLmtp => proc[Path(r)[1]] \in {"up", "draining"}

(* At depth d, a request comes back to the service that it began at. *)
Back(r, d) == d < Len(Path(r)) /\ Path(r)[d+1] = Path(r)[1]

(* Who waits there, while the first handler is under way, waits for a       *)
(* handler that is there.                                                   *)
Returning(r) ==
  \A d \in Depths :
    Back(r, d) /\ frame[r][1] # "none" /\ frame[r][d] = "waits" => frame[r][d+1] # "none"

ReqInv == ReqTypes /\ (\A r \in Slots : Alive(r) /\ Returning(r)) /\ NotMissedByItself

-----------------------------------------------------------------------------
(* The paths. *)

(* A handler in front of a path of one, two or three. *)
LEMMA Front ==
  ASSUME NEW a \in Services, NEW b \in Services, NEW c \in Services, NEW d \in Services
  PROVE  /\ <<a>> \o <<b>> = <<a, b>>
         /\ <<a>> \o <<b, c>> = <<a, b, c>>
         /\ <<a>> \o <<b, c, d>> = <<a, b, c, d>>
<1>1. <<a>> \o <<b>> = <<a, b>>
  <2>1. <<a>> \in Seq(Services) /\ <<b>> \in Seq(Services) /\ <<a, b>> \in Seq(Services)
    OBVIOUS
  <2>2. Len(<<a>>) = 1 /\ Len(<<b>>) = 1 /\ Len(<<a, b>>) = 2
    OBVIOUS
  <2>3. /\ <<a>> \o <<b>> \in Seq(Services)
        /\ Len(<<a>> \o <<b>>) = 2
        /\ \A i \in 1 .. 2 : (<<a>> \o <<b>>)[i] = IF i <= 1 THEN <<a>>[i] ELSE <<b>>[i - 1]
    BY <2>1, <2>2, ConcatProperties
  <2>4. \A i \in 1 .. 2 : (<<a>> \o <<b>>)[i] = <<a, b>>[i]
    BY <2>3
  <2> QED
    BY <2>1, <2>2, <2>3, <2>4, SeqEqual
<1>2. <<a>> \o <<b, c>> = <<a, b, c>>
  <2>1. <<a>> \in Seq(Services) /\ <<b, c>> \in Seq(Services) /\ <<a, b, c>> \in Seq(Services)
    OBVIOUS
  <2>2. Len(<<a>>) = 1 /\ Len(<<b, c>>) = 2 /\ Len(<<a, b, c>>) = 3
    OBVIOUS
  <2>3. /\ <<a>> \o <<b, c>> \in Seq(Services)
        /\ Len(<<a>> \o <<b, c>>) = 3
        /\ \A i \in 1 .. 3 : (<<a>> \o <<b, c>>)[i] = IF i <= 1 THEN <<a>>[i] ELSE <<b, c>>[i - 1]
    BY <2>1, <2>2, ConcatProperties
  <2>4. \A i \in 1 .. 3 : (<<a>> \o <<b, c>>)[i] = <<a, b, c>>[i]
    BY <2>3
  <2> QED
    BY <2>1, <2>2, <2>3, <2>4, SeqEqual
<1>3. <<a>> \o <<b, c, d>> = <<a, b, c, d>>
  <2>1. <<a>> \in Seq(Services) /\ <<b, c, d>> \in Seq(Services) /\ <<a, b, c, d>> \in Seq(Services)
    OBVIOUS
  <2>2. Len(<<a>>) = 1 /\ Len(<<b, c, d>>) = 3 /\ Len(<<a, b, c, d>>) = 4
    OBVIOUS
  <2>3. /\ <<a>> \o <<b, c, d>> \in Seq(Services)
        /\ Len(<<a>> \o <<b, c, d>>) = 4
        /\ \A i \in 1 .. 4 : (<<a>> \o <<b, c, d>>)[i] = IF i <= 1 THEN <<a>>[i] ELSE <<b, c, d>>[i - 1]
    BY <2>1, <2>2, ConcatProperties
  <2>4. \A i \in 1 .. 4 : (<<a>> \o <<b, c, d>>)[i] = <<a, b, c, d>>[i]
    BY <2>3
  <2> QED
    BY <2>1, <2>2, <2>3, <2>4, SeqEqual
<1> QED
  BY <1>1, <1>2, <1>3

(* The paths of requests, as tuples. *)
LEMMA Paths ==
  /\ PathOf.profile = <<"user", "folder">>
  /\ PathOf.list = <<"email", "user", "folder">>
  /\ PathOf.read = <<"email", "user", "folder">>
  /\ PathOf.inFolder = <<"folder", "email", "user", "folder">>
  /\ PathOf.incoming = <<"email", "user">>
  /\ DOMAIN PathOf = {"profile", "list", "read", "inFolder", "incoming"}
<1>0. "user" \in Services /\ "email" \in Services /\ "folder" \in Services
  BY DEF Services
<1>1. GetMe = <<"user", "folder">>
  BY <1>0, Front DEF GetMe, GetUserFolders
<1>2. GetEmailByID = <<"email", "user", "folder">>
  BY <1>0, <1>1, Front DEF GetEmailByID
<1>3. GetEmailsByIDs = <<"email", "user", "folder">>
  BY <1>0, <1>1, Front DEF GetEmailsByIDs
<1>4. GetEmailsFromFolder = <<"folder", "email", "user", "folder">>
  BY <1>0, <1>3, Front DEF GetEmailsFromFolder
<1>5. ReceiveExternalEmail = <<"email", "user">>
  BY <1>0, Front DEF ReceiveExternalEmail, GetUsersByEmails
<1> QED
  BY <1>1, <1>2, <1>3, <1>4, <1>5 DEF PathOf

(* Every path has a first service; a mail from Postfix never comes back to  *)
(* the service it began at, and no request does so at once.                 *)
LEMMA PathFacts ==
  ASSUME NEW k \in Kinds
  PROVE  /\ Len(PathOf[k]) \in 1 .. 4
         /\ \A d \in 1 .. Len(PathOf[k]) : PathOf[k][d] \in Services
         /\ \A d \in Depths : d < Len(PathOf[k]) /\ PathOf[k][d+1] = PathOf[k][1]
                                => d # 1 /\ k \notin ByLmtp
<1>1. k \in {"profile", "list", "read", "inFolder", "incoming"}
  BY KindsAssumption, Paths
<1>2. CASE k = "profile"
  <2>1. PathOf[k] = <<"user", "folder">>
    BY <1>2, Paths
  <2> QED  BY <2>1, <1>2 DEF Services, ByLmtp, Depths
<1>3. CASE k \in {"list", "read"}
  <2>1. PathOf[k] = <<"email", "user", "folder">>
    BY <1>3, Paths
  <2> QED  BY <2>1, <1>3 DEF Services, ByLmtp, Depths
<1>4. CASE k = "inFolder"
  <2>1. PathOf[k] = <<"folder", "email", "user", "folder">>
    BY <1>4, Paths
  <2> QED  BY <2>1, <1>4 DEF Services, ByLmtp, Depths
<1>5. CASE k = "incoming"
  <2>1. PathOf[k] = <<"email", "user">>
    BY <1>5, Paths
  <2> QED  BY <2>1, <1>5 DEF Services, ByLmtp, Depths
<1> QED
  BY <1>1, <1>2, <1>3, <1>4, <1>5

-----------------------------------------------------------------------------
(* The processes. *)

(* The actions of the requests leave the processes alone. *)
Requests ==
  \E r \in Slots :
    \/ \E k \in Kinds : Accept(r, k)
    \/ \E d \in Depths :
         \/ Invoke(r, d) \/ Unavailable(r, d) \/ TransientFailure(r, d) \/ Broken(r, d)
         \/ WithTimeout(r, d) \/ Answers(r, d) \/ Fails(r, d) \/ Cancel(r, d)

LEMMA RequestsKeepProcesses ==
  ASSUME Requests \/ UNCHANGED vars
  PROVE  UNCHANGED procVars
BY DEF Requests, vars, Accept, Invoke, Unavailable, TransientFailure, Broken, WithTimeout,
       Answers, Fails, Cancel, Returns

(* No process that gets the lock finds it taken, and a stage that does not  *)
(* hold it gives it back.                                                   *)
LEMMA LockKept ==
  ASSUME ProcTypes, OneHolder, NEW s \in Services, NEW step \in Stages, Goes(s, step),
         step \in {"checked", "running", "ran"} => s \in LockHolders \/ LockHolders = {}
  PROVE  OneHolder'
<1>1. /\ proc'[s] = step
      /\ \A t \in Services : t # s => proc'[t] = proc[t]
  BY DEF Goes, ProcTypes
<1>2. \A t \in Services : t # s => (t \in LockHolders' <=> t \in LockHolders)
  BY <1>1 DEF LockHolders
<1>3. s \in LockHolders' => step \in {"checked", "running", "ran"}
  BY <1>1 DEF LockHolders
<1>4. LockHolders \subseteq Services /\ LockHolders' \subseteq Services
  BY DEF LockHolders
<1> QED
  BY <1>2, <1>3, <1>4 DEF OneHolder

LEMMA ProcInit == Init => ProcInv
BY DEF Init, ProcInv, ProcTypes, OneHolder, Locked, Versioned, Logged, Past, LockHolders,
       Services, Stages

LEMMA ProcNext == ProcInv /\ [Next]_vars => ProcInv'
<1> SUFFICES ASSUME ProcInv, [Next]_vars
             PROVE  ProcInv'
  OBVIOUS
<1> USE DEF ProcInv
<1>req. CASE Requests \/ UNCHANGED vars
  <2>1. UNCHANGED <<proc, schema, version, failed, mishap>>
    BY <1>req, RequestsKeepProcesses DEF procVars
  <2> QED
    BY <2>1 DEF ProcTypes, OneHolder, Locked, Versioned, Logged, Past, LockHolders
<1>1. ASSUME NEW s \in Services, Run(s)
      PROVE  ProcInv'
  <2>1. OneHolder'
    BY <1>1, LockKept DEF Run, Stages
  <2> QED
    BY <1>1, <2>1 DEF Run, Goes, ProcTypes, Locked, Versioned, Logged, Past, Stages
<1>2. ASSUME NEW s \in Services, RunMigrations(s)
      PROVE  ProcInv'
  <2>1. OneHolder'
    BY <1>2, LockKept DEF RunMigrations, Stages
  <2>2. version = "dirty" => mishap
    BY <1>2 DEF RunMigrations, Versioned, LockHolders
  <2>3. ProcTypes' /\ Locked'
    BY <1>2 DEF RunMigrations, Goes, ProcTypes, Locked, Stages
  <2>4. Versioned'
    BY <1>2, <2>2 DEF RunMigrations, Versioned, ProcTypes
  <2>5. Logged'
    BY <1>2, <2>2 DEF RunMigrations, Goes, Logged, Past, Versioned, ProcTypes
  <2> QED
    BY <2>1, <2>3, <2>4, <2>5
<1>3. ASSUME NEW s \in Services, SetDirty(s)
      PROVE  ProcInv'
  <2>0. s \in LockHolders
    BY <1>3 DEF SetDirty, LockHolders
  <2>1. OneHolder'
    BY <1>3, <2>0, LockKept DEF SetDirty, Stages
  <2>2. \A t \in Services : t # s => proc[t] \notin {"checked", "running", "ran"}
    BY <2>0 DEF OneHolder, LockHolders
  <2>3. ProcTypes' /\ Locked'
    BY <1>3, <2>2 DEF SetDirty, Goes, ProcTypes, Locked, Stages
  <2>4. Versioned'
    BY <1>3 DEF SetDirty, Goes, Versioned, ProcTypes
  <2>5. Logged'
    BY <1>3 DEF SetDirty, Goes, Logged, Past, ProcTypes
  <2> QED
    BY <2>1, <2>3, <2>4, <2>5
<1>4. ASSUME NEW s \in Services, CreateTables(s)
      PROVE  ProcInv'
  <2>0. s \in LockHolders
    BY <1>4 DEF CreateTables, LockHolders
  <2>1. OneHolder'
    BY <1>4, <2>0, LockKept DEF CreateTables, Stages
  <2>3. ProcTypes' /\ Locked'
    BY <1>4 DEF CreateTables, Goes, ProcTypes, Locked, Stages
  <2>4. Versioned'
    BY <1>4 DEF CreateTables, Goes, Versioned, ProcTypes
  <2>5. Logged'
    BY <1>4 DEF CreateTables, Logged
  <2> QED
    BY <2>1, <2>3, <2>4, <2>5
<1>5. ASSUME NEW s \in Services, SetApplied(s)
      PROVE  ProcInv'
  <2>0. s \in LockHolders /\ schema
    BY <1>5 DEF SetApplied, LockHolders, Locked
  <2>1. OneHolder'
    BY <1>5, LockKept DEF SetApplied, Stages
  <2>2. \A t \in Services : t # s => proc[t] \notin {"checked", "running", "ran"}
    BY <2>0 DEF OneHolder, LockHolders
  <2>3. ProcTypes' /\ Locked'
    BY <1>5, <2>2 DEF SetApplied, Goes, ProcTypes, Locked, Stages
  <2>4. Versioned'
    BY <1>5, <2>0 DEF SetApplied, Versioned
  <2>5. Logged'
    BY <1>5, <2>0 DEF SetApplied, Logged
  <2> QED
    BY <2>1, <2>3, <2>4, <2>5
<1>6. ASSUME NEW s \in Services, MigrationFails(s)
      PROVE  ProcInv'
  <2>1. OneHolder'
    BY <1>6, LockKept DEF MigrationFails, Stages
  <2>3. ProcTypes' /\ Locked'
    BY <1>6 DEF MigrationFails, Goes, ProcTypes, Locked, Stages
  <2>4. Versioned'
    BY <1>6 DEF MigrationFails, Versioned
  <2>5. Logged'
    BY <1>6 DEF MigrationFails, Goes, Logged, Past, ProcTypes
  <2> QED
    BY <2>1, <2>3, <2>4, <2>5
<1>7. ASSUME NEW s \in Services, Listen(s) \/ ListenAndServe(s) \/ Term(s)
      PROVE  ProcInv'
  <2> DEFINE next == IF proc[s] = "migrated" THEN "grpc"
                     ELSE IF proc[s] = "grpc" THEN "up" ELSE "draining"
  <2>1. /\ Goes(s, next) /\ proc[s] \in {"migrated", "grpc", "up"}
        /\ UNCHANGED <<schema, version, failed, mishap>>
    BY <1>7 DEF Listen, ListenAndServe, Term
  <2>2. next \in {"grpc", "up", "draining"}
    OBVIOUS
  <2> HIDE DEF next
  <2>3. OneHolder'
    BY <2>1, <2>2, LockKept DEF Stages
  <2> QED
    BY <2>1, <2>2, <2>3 DEF Goes, ProcTypes, Locked, Versioned, Logged, Past, Stages
<1>8. ASSUME NEW s \in Services, shutdownGracefully(s) \/ ShutdownDeadline(s)
      PROVE  ProcInv'
  <2>1. /\ Goes(s, "down") /\ proc[s] = "draining"
        /\ UNCHANGED <<schema, version, failed, mishap>>
    BY <1>8 DEF shutdownGracefully, ShutdownDeadline, Ends
  <2>2. OneHolder'
    BY <2>1, LockKept DEF Stages
  <2> QED
    BY <2>1, <2>2 DEF Goes, ProcTypes, Locked, Versioned, Logged, Past, Stages
<1>9. ASSUME NEW s \in Services, Crash(s)
      PROVE  ProcInv'
  <2>1. /\ Goes(s, "down")
        /\ UNCHANGED <<version, failed>>
        /\ schema' \in BOOLEAN /\ (schema => schema')
        /\ mishap' = (mishap \/ proc[s] \in {"running", "ran"})
    BY <1>9 DEF Crash, Ends, ProcTypes
  <2>2. OneHolder'
    BY <2>1, LockKept DEF Stages
  <2>3. ProcTypes' /\ Locked'
    BY <2>1 DEF Goes, ProcTypes, Locked, Stages
  <2>4. Versioned'
    BY <2>1 DEF Goes, Versioned, ProcTypes
  <2>5. Logged'
    BY <2>1 DEF Goes, Logged, Past, ProcTypes
  <2> QED
    BY <2>2, <2>3, <2>4, <2>5
<1> QED
  BY <1>req, <1>1, <1>2, <1>3, <1>4, <1>5, <1>6, <1>7, <1>8, <1>9 DEF Next, Requests

LEMMA ProcAlways == Spec => []ProcInv
BY ProcInit, ProcNext, PTL DEF Spec

(* A service that takes requests finds its tables, or the log of this start *)
(* says that a migration did not come to its end (RunMigrations and run of  *)
(* the three services), for every interleaving of starts, crashes and ends. *)
THEOREM ServesOnSchemaAlways == Spec => []ServesOnSchema
<1>1. ProcInv => ServesOnSchema
  BY DEF ProcInv, Logged, ServesOnSchema, GrpcOpen, Past
<1> QED
  BY <1>1, ProcAlways, PTL

-----------------------------------------------------------------------------
(* The requests. *)

LEMMA PathOfSlot ==
  ASSUME ReqTypes, NEW r \in Slots
  PROVE  /\ Len(Path(r)) \in 1 .. 4
         /\ \A d \in 1 .. Len(Path(r)) : Path(r)[d] \in Services
         /\ \A d \in Depths : Back(r, d) => d # 1 /\ kind[r] \notin ByLmtp
         /\ At(r, 1) <=> frame[r][1] # "none"
<1>1. kind[r] \in Kinds
  BY DEF ReqTypes
<1>2. /\ Len(Path(r)) \in 1 .. 4
      /\ \A d \in 1 .. Len(Path(r)) : Path(r)[d] \in Services
      /\ \A d \in Depths : d < Len(Path(r)) /\ Path(r)[d+1] = Path(r)[1]
                               => d # 1 /\ kind[r] \notin ByLmtp
  BY <1>1, PathFacts DEF Path
<1> QED
  BY <1>2 DEF At, Back

(* A call back that finds no handler finds that the first one is gone, too. *)
LEMMA Gone ==
  ASSUME ReqInv, NEW r \in Slots, NEW d \in Depths, Back(r, d),
         \/ ~ GrpcOpen(Path(r)[d+1])
         \/ frame[r][d] = "waits" /\ frame[r][d+1] = "none"
  PROVE  frame[r][1] = "none"
<1>1. Path(r)[d+1] = Path(r)[1] /\ kind[r] \notin ByLmtp /\ (At(r, 1) <=> frame[r][1] # "none")
  BY PathOfSlot DEF ReqInv, Back
<1>2. Alive(r) /\ Returning(r)
  BY DEF ReqInv
<1>3. CASE ~ GrpcOpen(Path(r)[d+1])
  BY <1>1, <1>2, <1>3 DEF Alive, GrpcOpen
<1>4. CASE frame[r][d] = "waits" /\ frame[r][d+1] = "none"
  BY <1>2, <1>4 DEF Returning
<1> QED
  BY <1>3, <1>4

(* What a step of one request has to keep. *)
LEMMA OneSlot ==
  ASSUME ReqInv, UNCHANGED <<proc, kind>>, NEW r \in Slots,
         NEW f \in [Depths -> Steps], Sets(r, f),
         missed' \subseteq missed \cup {r},
         f[1] # "none" => frame[r][1] # "none" /\ r \notin missed' \ missed,
         \A d \in Depths : Back(r, d) /\ f[1] # "none" /\ f[d] = "waits" => f[d+1] # "none"
  PROVE  ReqInv'
<1>1. /\ frame'[r] = f
      /\ \A q \in Slots : q # r => frame'[q] = frame[q]
      /\ frame' \in [Slots -> [Depths -> Steps]]
  BY DEF Sets, ReqInv, ReqTypes
<1>2. ReqTypes'
  BY <1>1 DEF ReqInv, ReqTypes
<1>3. \A q \in Slots : At(q, 1)' <=> 1 <= Len(Path(q)) /\ frame'[q][1] # "none"
  BY DEF At, Path
<1>4. \A q \in Slots : At(q, 1)' => At(q, 1)
  BY <1>1, <1>3 DEF At
<1>5. ASSUME NEW q \in Slots PROVE Alive(q)'
  <2>1. Alive(q)
    BY DEF ReqInv
  <2> QED
    BY <2>1, <1>4 DEF Alive, Path
<1>6. ASSUME NEW q \in Slots PROVE Returning(q)'
  <2>1. Returning(q)
    BY DEF ReqInv
  <2>2. \A d \in Depths : Back(q, d)' <=> Back(q, d)
    BY DEF Back, Path
  <2>3. CASE q = r
    BY <2>2, <2>3, <1>1 DEF Returning
  <2>4. CASE q # r
    BY <2>1, <2>2, <2>4, <1>1 DEF Returning
  <2> QED
    BY <2>3, <2>4
<1>7. NotMissedByItself'
  <2> SUFFICES ASSUME NEW q \in missed', At(q, 1)'
               PROVE  FALSE
    BY DEF NotMissedByItself
  <2>1. q \in Slots
    BY DEF ReqInv, ReqTypes
  <2>2. At(q, 1)
    BY <2>1, <1>4
  <2>3. q \notin missed
    BY <2>2 DEF ReqInv, NotMissedByItself
  <2>4. q = r
    BY <2>3
  <2> QED
    BY <2>1, <2>3, <2>4, <1>1, <1>3
<1> QED
  BY <1>2, <1>5, <1>6, <1>7 DEF ReqInv

(* A step of a process that does not end. *)
LEMMA ProcessGoesOn ==
  ASSUME ReqInv, UNCHANGED reqVars, proc \in [Services -> Stages],
         NEW s \in Services, NEW step \in Stages, Goes(s, step),
         proc[s] \in {"up", "draining"} => step \in {"up", "draining"}
  PROVE  ReqInv'
<1>1. \A t \in Services : proc[t] \in {"up", "draining"} => proc'[t] \in {"up", "draining"}
  BY DEF Goes
<1>2. ReqTypes' /\ NotMissedByItself'
  BY DEF ReqInv, ReqTypes, NotMissedByItself, reqVars, At, Path
<1>3. ASSUME NEW q \in Slots PROVE Alive(q)' /\ Returning(q)'
  <2>1. Alive(q) /\ Returning(q)
    BY DEF ReqInv
  <2>2. Path(q)[1] \in Services
    BY PathOfSlot DEF ReqInv
  <2> QED
    BY <2>1, <2>2, <1>1 DEF Alive, Returning, reqVars, At, Path, Back
<1> QED
  BY <1>2, <1>3 DEF ReqInv

(* The end of a process takes the first handler of a request with the       *)
(* handler that the request came back to.                                   *)
LEMMA ProcessEnds ==
  ASSUME ReqInv, proc \in [Services -> Stages], NEW s \in Services, Ends(s)
  PROVE  ReqInv'
<1>1. /\ kind' = kind /\ missed' = missed
      /\ \A t \in Services : t # s => proc'[t] = proc[t]
      /\ \A q \in Slots, d \in Depths :
           frame'[q][d] = IF Runs(q, d, s) THEN "none" ELSE frame[q][d]
  BY DEF Ends, Goes
<1>2. ReqTypes'
  BY DEF Ends, ReqInv, ReqTypes, Steps
<1>3. 1 \in Depths
  BY DEF Depths
<1>4. \A q \in Slots : At(q, 1)' => At(q, 1) /\ Path(q)[1] # s
  <2> SUFFICES ASSUME NEW q \in Slots, At(q, 1)'
               PROVE  At(q, 1) /\ Path(q)[1] # s
    OBVIOUS
  <2>1. frame'[q][1] = IF Runs(q, 1, s) THEN "none" ELSE frame[q][1]
    BY <1>1, <1>3
  <2>2. frame'[q][1] # "none" /\ 1 <= Len(Path(q))
    BY <1>1 DEF At, Path
  <2> QED
    BY <2>1, <2>2 DEF At, Runs
<1>5. ASSUME NEW q \in Slots PROVE Alive(q)'
  <2>1. Alive(q) /\ Path(q)[1] \in Services
    BY PathOfSlot DEF ReqInv
  <2>2. Path(q)' = Path(q)
    BY <1>1 DEF Path
  <2> QED
    BY <2>1, <2>2, <1>1, <1>4 DEF Alive
<1>6. ASSUME NEW q \in Slots PROVE Returning(q)'
  <2>1. Returning(q)
    BY DEF ReqInv
  <2>2. \A d \in Depths : Back(q, d)' <=> Back(q, d)
    BY <1>1 DEF Back, Path
  <2>3. SUFFICES ASSUME NEW d \in Depths, Back(q, d), frame'[q][1] # "none", frame'[q][d] = "waits"
                 PROVE  frame'[q][d+1] # "none"
    BY <2>2 DEF Returning
  <2>4. Len(Path(q)) \in 1 .. 4 /\ d < Len(Path(q)) /\ Path(q)[d+1] = Path(q)[1]
    BY <2>3, PathOfSlot DEF ReqInv, Back
  <2>5. d + 1 \in Depths
    BY <2>4 DEF Depths
  <2>6. At(q, 1)'
    BY <1>1, <2>3, <2>4 DEF At, Path
  <2>7. frame[q][1] # "none" /\ Path(q)[1] # s
    BY <2>6, <1>4 DEF At
  <2>8. frame[q][d] = "waits"
    BY <2>3, <1>1
  <2>9. frame[q][d+1] # "none"
    BY <2>1, <2>3, <2>7, <2>8 DEF Returning
  <2>10. ~ Runs(q, d+1, s)
    BY <2>4, <2>7 DEF Runs
  <2> QED
    BY <1>1, <2>5, <2>9, <2>10
<1>7. NotMissedByItself'
  BY <1>1, <1>4 DEF NotMissedByItself, ReqInv, ReqTypes
<1> QED
  BY <1>2, <1>5, <1>6, <1>7 DEF ReqInv

-----------------------------------------------------------------------------
LEMMA ReqInit == Init => ReqInv
<1> SUFFICES ASSUME Init
             PROVE  ReqInv
  OBVIOUS
<1>1. \A r \in Slots, d \in Depths : frame[r][d] = "none"
  BY DEF Init, NoFrames
<1>2. ReqTypes
  BY DEF Init, ReqTypes, NoFrames, Steps
<1>3. 1 \in Depths
  BY DEF Depths
<1> QED
  BY <1>1, <1>2, <1>3 DEF ReqInv, Alive, Returning, NotMissedByItself, At, Init

LEMMA ReqNext == ProcTypes /\ ReqInv /\ [Next]_vars => ReqInv'
<1> SUFFICES ASSUME ProcTypes, ReqInv, [Next]_vars
             PROVE  ReqInv'
  OBVIOUS
<1>0. proc \in [Services -> Stages]
  BY DEF ProcTypes
<1>1. CASE UNCHANGED vars
  BY <1>1 DEF vars, procVars, reqVars, ReqInv, ReqTypes, Alive, Returning, NotMissedByItself,
              At, Path, Back
<1>2. ASSUME NEW s \in Services,
             \/ Run(s) \/ RunMigrations(s) \/ SetDirty(s) \/ CreateTables(s) \/ SetApplied(s)
             \/ MigrationFails(s) \/ Listen(s) \/ ListenAndServe(s) \/ Term(s)
      PROVE  ReqInv'
  <2>1. PICK step \in Stages :
          /\ Goes(s, step) /\ UNCHANGED reqVars
          /\ proc[s] \in {"up", "draining"} => step = "draining"
    BY <1>2 DEF Run, RunMigrations, SetDirty, CreateTables, SetApplied, MigrationFails, Listen,
                ListenAndServe, Term, Stages
  <2> QED
    BY <2>1, <1>0, ProcessGoesOn
<1>3. ASSUME NEW s \in Services, shutdownGracefully(s) \/ ShutdownDeadline(s) \/ Crash(s)
      PROVE  ReqInv'
  BY <1>0, <1>3, ProcessEnds DEF shutdownGracefully, ShutdownDeadline, Crash
<1>4. ASSUME NEW r \in Slots, NEW k \in Kinds, Accept(r, k)
      PROVE  ReqInv'
  <2>1. /\ kind'[r] = k /\ \A q \in Slots : q # r => kind'[q] = kind[q]
        /\ frame'[r] = [NoFrames EXCEPT ![1] = "runs"]
        /\ \A q \in Slots : q # r => frame'[q] = frame[q]
        /\ missed' = missed \ {r} /\ proc' = proc
        /\ k \notin ByLmtp => HttpOpen(PathOf[k][1])
    BY <1>4 DEF Accept, Sets, ReqInv, ReqTypes, procVars
  <2>2. \A d \in Depths : frame'[r][d] = IF d = 1 THEN "runs" ELSE "none"
    BY <2>1 DEF NoFrames, Depths
  <2>3. ReqTypes'
    <3>1. [NoFrames EXCEPT ![1] = "runs"] \in [Depths -> Steps]
      BY DEF NoFrames, Depths, Steps
    <3> QED
      BY <3>1, <1>4 DEF Accept, Sets, ReqInv, ReqTypes
  <2>4. \A q \in Slots : q # r => (Alive(q)' /\ Returning(q)' /\ (At(q, 1)' <=> At(q, 1)))
    BY <2>1 DEF ReqInv, Alive, Returning, At, Path, Back
  <2>5. Alive(r)'
    BY <2>1 DEF Alive, Path, HttpOpen
  <2>6. Returning(r)'
    BY <2>2, PathFacts, <2>1 DEF Returning, Back, Path
  <2>7. NotMissedByItself'
    BY <2>1, <2>4 DEF NotMissedByItself, ReqInv, ReqTypes
  <2> QED
    BY <2>3, <2>4, <2>5, <2>6, <2>7 DEF ReqInv
<1>5. ASSUME NEW r \in Slots, NEW d \in Depths, Invoke(r, d)
      PROVE  ReqInv'
  <2> DEFINE f == [frame[r] EXCEPT ![d] = "waits", ![d+1] = "runs"]
  <2>1. /\ Sets(r, f) /\ missed' = missed /\ UNCHANGED <<proc, kind>>
        /\ d < Len(Path(r)) /\ frame[r][d] = "runs"
    BY <1>5 DEF Invoke, Calls, procVars
  <2>2. Len(Path(r)) \in 1 .. 4 /\ frame[r] \in [Depths -> Steps] /\ Returning(r)
    BY PathOfSlot DEF ReqInv, ReqTypes
  <2>0. \A n \in 1 .. 4 : d < n => d \in Nat /\ d + 1 \in Depths /\ 1 \in Depths
    BY DEF Depths
  <2>3. d \in Nat /\ d + 1 \in Depths /\ 1 \in Depths
    BY <2>0, <2>1, <2>2
  <2>4. /\ f \in [Depths -> Steps]
        /\ \A e \in Depths : f[e] = IF e = d + 1 THEN "runs" ELSE IF e = d THEN "waits" ELSE frame[r][e]
    BY <2>2, <2>3 DEF Steps
  <2> HIDE DEF f
  <2>5. f[1] # "none" => frame[r][1] # "none"
    BY <2>1, <2>3, <2>4 DEF Depths
  <2>6. \A e \in Depths : Back(r, e) /\ f[1] # "none" /\ f[e] = "waits" => f[e+1] # "none"
    <3> SUFFICES ASSUME NEW e \in Depths, Back(r, e), f[1] # "none", f[e] = "waits"
                 PROVE  f[e+1] # "none"
      OBVIOUS
    <3>1. e + 1 \in Depths
      BY <2>2 DEF Back, Depths
    <3>2. CASE e = d
      BY <3>2, <2>3, <2>4
    <3>3. CASE e # d
      <4>1. frame[r][e] = "waits"
        BY <3>3, <2>4
      <4>2. frame[r][e+1] # "none"
        BY <4>1, <2>2, <2>5 DEF Returning
      <4> QED
        BY <4>2, <3>1, <2>4
    <3> QED
      BY <3>2, <3>3
  <2> QED
    BY <2>1, <2>4, <2>5, <2>6, OneSlot
<1>6. ASSUME NEW r \in Slots, NEW d \in Depths,
             \/ Unavailable(r, d) \/ TransientFailure(r, d) \/ Broken(r, d) \/ WithTimeout(r, d)
      PROVE  ReqInv'
  <2> DEFINE f == [frame[r] EXCEPT ![d] = "lost"]
  <2>1. /\ Sets(r, f) /\ UNCHANGED <<proc, kind>>
        /\ missed' = missed \/ (Misses(r, d) /\ d < Len(Path(r))
                                 /\ (\/ ~ GrpcOpen(Path(r)[d+1])
                                     \/ frame[r][d] = "waits" /\ frame[r][d+1] = "none"))
        /\ frame[r][d] \in {"runs", "waits"}
    BY <1>6 DEF Unavailable, TransientFailure, Broken, WithTimeout, Calls, procVars
  <2>2. Len(Path(r)) \in 1 .. 4 /\ frame[r] \in [Depths -> Steps] /\ Returning(r)
    BY PathOfSlot DEF ReqInv, ReqTypes
  <2>3. 1 \in Depths
    BY DEF Depths
  <2>4. /\ f \in [Depths -> Steps]
        /\ \A e \in Depths : f[e] = IF e = d THEN "lost" ELSE frame[r][e]
    BY <2>2 DEF Steps
  <2> HIDE DEF f
  <2>5. missed' \subseteq missed \cup {r}
    BY <2>1 DEF Misses
  <2>6. f[1] # "none" => frame[r][1] # "none"
    BY <2>1, <2>3, <2>4
  <2>7. r \in missed' \ missed => frame[r][1] = "none"
    <3> SUFFICES ASSUME r \in missed' \ missed
                 PROVE  frame[r][1] = "none"
      OBVIOUS
    <3>1. Back(r, d)
      BY <2>1 DEF Misses, Back
    <3> QED
      BY <2>1, <3>1, Gone
  <2>8. \A e \in Depths : Back(r, e) /\ f[1] # "none" /\ f[e] = "waits" => f[e+1] # "none"
    <3> SUFFICES ASSUME NEW e \in Depths, Back(r, e), f[1] # "none", f[e] = "waits"
                 PROVE  f[e+1] # "none"
      OBVIOUS
    <3>1. e + 1 \in Depths
      BY <2>2 DEF Back, Depths
    <3>2. frame[r][e] = "waits"
      BY <2>4
    <3>3. frame[r][e+1] # "none"
      BY <3>2, <2>2, <2>6 DEF Returning
    <3> QED
      BY <3>1, <3>3, <2>4
  <2> QED
    BY <2>1, <2>4, <2>5, <2>6, <2>7, <2>8, OneSlot
<1>7. ASSUME NEW r \in Slots, NEW d \in Depths, Answers(r, d) \/ Fails(r, d) \/ Cancel(r, d)
      PROVE  ReqInv'
  <2>1. PICK result \in {"got", "lost"} : Returns(r, d, result)
    BY <1>7 DEF Answers, Fails, Cancel
  <2> DEFINE f == [e \in Depths |->
                     IF e = d THEN "none"
                     ELSE IF e = d - 1 /\ frame[r][e] = "waits" THEN result ELSE frame[r][e]]
  <2>2. Sets(r, f) /\ missed' = missed /\ UNCHANGED <<proc, kind>>
    BY <2>1 DEF Returns, procVars
  <2>3. Len(Path(r)) \in 1 .. 4 /\ frame[r] \in [Depths -> Steps] /\ Returning(r)
    BY PathOfSlot DEF ReqInv, ReqTypes
  <2>4. /\ f \in [Depths -> Steps]
        /\ \A e \in Depths : f[e] = IF e = d THEN "none"
                  ELSE IF e = d - 1 /\ frame[r][e] = "waits" THEN result ELSE frame[r][e]
    BY <2>3 DEF Steps
  <2> HIDE DEF f
  <2>5. f[1] # "none" => frame[r][1] # "none"
    BY <2>4 DEF Depths
  <2>6. \A e \in Depths : Back(r, e) /\ f[1] # "none" /\ f[e] = "waits" => f[e+1] # "none"
    <3> SUFFICES ASSUME NEW e \in Depths, Back(r, e), f[1] # "none", f[e] = "waits"
                 PROVE  f[e+1] # "none"
      OBVIOUS
    <3>1. e + 1 \in Depths /\ d \in Depths
      BY <2>3 DEF Back, Depths
    <3>2. e # d /\ e # d - 1 /\ frame[r][e] = "waits"
      BY <2>4
    <3>3. frame[r][e+1] # "none"
      BY <3>2, <2>3, <2>5 DEF Returning
    <3>4. e + 1 # d
      BY <3>1, <3>2 DEF Depths
    <3> QED
      BY <3>1, <3>3, <3>4, <2>4
  <2> QED
    BY <2>2, <2>4, <2>5, <2>6, OneSlot
<1> QED
  BY <1>1, <1>2, <1>3, <1>4, <1>5, <1>6, <1>7 DEF Next

(* A service never misses a request that comes back to it while it still    *)
(* works on it: gRPC is served before HTTP and until the drain is over, and *)
(* who is cut off loses both handlers at once (cmd/app of the services).    *)
THEOREM NotMissedByItselfAlways == Spec => []NotMissedByItself
<1>1. ProcInv => ProcTypes
  BY DEF ProcInv
<1>2. ReqInv => NotMissedByItself
  BY DEF ReqInv
<1> QED
  BY <1>1, <1>2, ProcAlways, ReqInit, ReqNext, PTL DEF Spec
=============================================================================
