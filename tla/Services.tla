------------------------------ MODULE Services ------------------------------
(***************************************************************************)
(* The three services as processes: how each one starts (migrations, then  *)
(* the LMTP and gRPC listeners, then HTTP), stops on SIGTERM, dies and is  *)
(* started again, and the requests that run through several of them.  A    *)
(* request is a chain of handlers, each waiting for the next one in a gRPC *)
(* call with a deadline of three seconds.  The chain may come back to the  *)
(* service it began at: the folder service asks the email service, which   *)
(* asks the user service, which asks the folder service.                   *)
(***************************************************************************)
EXTENDS Naturals, Sequences

CONSTANTS
  Kinds,    \* the requests in question, of the domain of PathOf
  Slots     \* requests that are under way at the same time

Services == {"user", "email", "folder"}

VARIABLES
  proc,    \* how far the process of each service is
  schema,  \* the tables of the migration exist
  version, \* schema_migrations: "none", "dirty" or "applied"
  failed,  \* the services whose RunMigrations returned an error
  mishap,  \* history: a migration did not come to its end
  kind,    \* for each slot, the request it carries
  frame,   \* for each slot, the handlers of its chain
  missed   \* history: the requests that came back to the service that they
           \* began at when it did not listen

procVars == <<proc, schema, version, failed, mishap>>
reqVars  == <<kind, frame, missed>>
vars     == <<procVars, reqVars>>

-----------------------------------------------------------------------------
(* Who is asked by whom.  GetMe asks for the folders, and the email service *)
(* asks GetMe for the sender of a mail.                                     *)
GetUserFolders       == <<"folder">>
GetMe                == <<"user">> \o GetUserFolders
GetUsersByEmails     == <<"user">>
GetEmailByID         == <<"email">> \o GetMe
GetEmailsByIDs       == <<"email">> \o GetMe
GetEmailsFromFolder  == <<"folder">> \o GetEmailsByIDs
ReceiveExternalEmail == <<"email">> \o GetUsersByEmails

PathOf ==
  [profile |-> GetMe, list |-> GetEmailByID, read |-> GetEmailByID,
   inFolder |-> GetEmailsFromFolder, incoming |-> ReceiveExternalEmail]

(* What comes from Postfix; the rest comes by HTTP. *)
ByLmtp == {"incoming"}

ASSUME KindsAssumption == Kinds \subseteq DOMAIN PathOf

Depths == 1 .. 4
Path(r) == PathOf[kind[r]]
At(r, d) == d <= Len(Path(r)) /\ frame[r][d] # "none"
Runs(r, d, s) == At(r, d) /\ Path(r)[d] = s

NoFrames == [d \in Depths |-> "none"]

(* Mutant: the gRPC server is stopped as soon as SIGTERM comes. *)
UntilTerm(s) == proc[s] \in {"grpc", "up"}

(* The listeners are opened in this order, and all end with the process. *)
GrpcOpen(s) == proc[s] \in {"grpc", "up", "draining"}
LmtpOpen    == GrpcOpen("email")
HttpOpen(s) == proc[s] = "up"

(* The advisory lock of the migrations belongs to a session. *)
LockHolders == {s \in Services : proc[s] \in {"checked", "running", "ran"}}

Init ==
  /\ proc = [s \in Services |-> "new"]
  /\ schema = FALSE /\ version = "none"
  /\ failed = {} /\ mishap = FALSE
  /\ kind \in [Slots -> Kinds]
  /\ frame = [r \in Slots |-> NoFrames]
  /\ missed = {}

-----------------------------------------------------------------------------
(* Start of a process. *)
Goes(s, step) == proc' = [proc EXCEPT ![s] = step]

(* The containers are created in order: the email service when the user     *)
(* service listens, the folder service after the email service.  Later      *)
(* starts follow no order.                                                  *)
DependsOn(s) ==
  /\ s = "email" /\ proc[s] = "new" => GrpcOpen("user")
  /\ s = "folder" /\ proc[s] = "new" => proc["email"] # "new"

Run(s) ==
  /\ proc[s] \in {"new", "down"} /\ DependsOn(s)
  /\ Goes(s, "waiting")
  /\ failed' = failed \ {s}
  /\ UNCHANGED <<schema, version, mishap, reqVars>>

(* Mutant: a dirty version counts as no change. *)
DirtyIgnored(s) ==
  /\ proc[s] = "waiting" /\ LockHolders = {}
  /\ Goes(s, IF version = "none" THEN "checked" ELSE "migrated")
  /\ UNCHANGED <<schema, version, failed, mishap, reqVars>>

(* The lock is granted, and the version is read: there may be no change, or *)
(* an earlier migration that did not come to its end.                       *)
RunMigrations(s) ==
  /\ proc[s] = "waiting" /\ LockHolders = {}
  /\ Goes(s, IF version = "none" THEN "checked" ELSE "migrated")
  /\ failed' = IF version = "dirty" THEN failed \cup {s} ELSE failed
  /\ UNCHANGED <<schema, version, mishap, reqVars>>

SetDirty(s) ==
  /\ proc[s] = "checked"
  /\ version' = "dirty"
  /\ Goes(s, "running")
  /\ UNCHANGED <<schema, failed, mishap, reqVars>>

CreateTables(s) ==
  /\ proc[s] = "running"
  /\ schema' = TRUE
  /\ Goes(s, "ran")
  /\ UNCHANGED <<version, failed, mishap, reqVars>>

SetApplied(s) ==
  /\ proc[s] = "ran"
  /\ version' = "applied"
  /\ Goes(s, "migrated")
  /\ UNCHANGED <<schema, failed, mishap, reqVars>>

(* The database does not answer, the lock is not granted in time, or a      *)
(* statement fails.  The error is logged, and the start goes on.            *)
MigrationFails(s) ==
  /\ proc[s] \in {"waiting", "checked", "running", "ran"}
  /\ failed' = failed \cup {s}
  /\ mishap' = TRUE
  /\ Goes(s, "migrated")
  /\ UNCHANGED <<schema, version, reqVars>>

(* The LMTP listener of the email service, then gRPC. *)
Listen(s) ==
  /\ proc[s] = "migrated"
  /\ Goes(s, "grpc")
  /\ UNCHANGED <<schema, version, failed, mishap, reqVars>>

ListenAndServe(s) ==
  /\ proc[s] = "grpc"
  /\ Goes(s, "up")
  /\ UNCHANGED <<schema, version, failed, mishap, reqVars>>

-----------------------------------------------------------------------------
(* End of a process: its handlers are gone, whoever waits for them.         *)
Ends(s) ==
  /\ Goes(s, "down")
  /\ frame' = [r \in Slots |-> [d \in Depths |->
                 IF Runs(r, d, s) THEN "none" ELSE frame[r][d]]]
  /\ UNCHANGED <<kind, missed>>

(* SIGTERM, which is handled from ListenAndServe on. *)
Term(s) ==
  /\ proc[s] = "up"
  /\ Goes(s, "draining")
  /\ UNCHANGED <<schema, version, failed, mishap, reqVars>>

OwnHttp(s) == {r \in Slots : Runs(r, 1, s) /\ kind[r] \notin ByLmtp}

(* Server.Shutdown has waited for the requests by HTTP; what runs by gRPC   *)
(* and by LMTP is cut off.                                                  *)
shutdownGracefully(s) ==
  /\ proc[s] = "draining" /\ OwnHttp(s) = {}
  /\ Ends(s)
  /\ UNCHANGED <<schema, version, failed, mishap>>

ShutdownDeadline(s) ==
  /\ proc[s] = "draining"
  /\ Ends(s)
  /\ UNCHANGED <<schema, version, failed, mishap>>

(* The process is killed, or gets SIGTERM before it handles it.  PostgreSQL *)
(* may finish the statement that it was at.                                 *)
Crash(s) ==
  /\ proc[s] \notin {"new", "down"}
  /\ Ends(s)
  /\ schema' \in IF proc[s] = "running" THEN {schema, TRUE} ELSE {schema}
  /\ mishap' = (mishap \/ proc[s] \in {"running", "ran"})
  /\ UNCHANGED <<version, failed>>

-----------------------------------------------------------------------------
(* Requests. *)
Sets(r, f) == frame' = [frame EXCEPT ![r] = f]

Accept(r, k) ==
  /\ frame[r] = NoFrames
  /\ IF k \in ByLmtp THEN LmtpOpen ELSE HttpOpen(PathOf[k][1])
  /\ kind' = [kind EXCEPT ![r] = k]
  /\ missed' = missed \ {r}
  /\ Sets(r, [NoFrames EXCEPT ![1] = "runs"])
  /\ UNCHANGED procVars

(* The caller has given up: the context of the handler is cancelled. *)
Cancelled(r, d) == d > 1 /\ At(r, d) /\ frame[r][d-1] # "waits"

(* A list of mails does without the name of a sender who is not found. *)
Tolerates(r, d) == kind[r] = "list" /\ d = 1

(* The calls of a handler follow each other; one of them is modelled, as is  *)
(* one mail of a list.                                                      *)
Calls(r, d) ==
  /\ d < Len(Path(r)) /\ frame[r][d] = "runs" /\ ~ Cancelled(r, d)

Misses(r, d) ==
  missed' = IF Path(r)[d+1] = Path(r)[1] THEN missed \cup {r} ELSE missed

Invoke(r, d) ==
  /\ Calls(r, d) /\ GrpcOpen(Path(r)[d+1])
  /\ Sets(r, [frame[r] EXCEPT ![d] = "waits", ![d+1] = "runs"])
  /\ UNCHANGED <<procVars, kind, missed>>

(* No one listens. *)
Unavailable(r, d) ==
  /\ Calls(r, d) /\ ~ GrpcOpen(Path(r)[d+1])
  /\ Sets(r, [frame[r] EXCEPT ![d] = "lost"])
  /\ Misses(r, d)
  /\ UNCHANGED <<procVars, kind>>

(* The channel still backs off after an earlier failure, for up to two      *)
(* minutes: the call fails at once, though the callee may listen again.     *)
TransientFailure(r, d) ==
  /\ Calls(r, d)
  /\ Sets(r, [frame[r] EXCEPT ![d] = "lost"])
  /\ UNCHANGED <<procVars, kind, missed>>

(* The process of the callee ended, and the connection with it. *)
Broken(r, d) ==
  /\ d < Len(Path(r)) /\ frame[r][d] = "waits" /\ frame[r][d+1] = "none"
  /\ Sets(r, [frame[r] EXCEPT ![d] = "lost"])
  /\ Misses(r, d)
  /\ UNCHANGED <<procVars, kind>>

(* Mutant: no deadline, only the callee ends the call. *)
NoDeadline(r, d) ==
  /\ frame[r][d] = "waits" /\ d < Len(Path(r)) /\ frame[r][d+1] = "lost"
  /\ Sets(r, [frame[r] EXCEPT ![d] = "lost"])
  /\ UNCHANGED <<procVars, kind, missed>>

(* Three seconds are over, or the client has gone away. *)
WithTimeout(r, d) ==
  /\ frame[r][d] = "waits"
  /\ Sets(r, [frame[r] EXCEPT ![d] = "lost"])
  /\ UNCHANGED <<procVars, kind, missed>>

(* The handler is done, and its caller learns it if it still waits. *)
Returns(r, d, result) ==
  /\ Sets(r, [e \in Depths |->
       IF e = d THEN "none"
       ELSE IF e = d - 1 /\ frame[r][e] = "waits" THEN result ELSE frame[r][e]])
  /\ UNCHANGED <<procVars, kind, missed>>

Answers(r, d) ==
  /\ At(r, d)
  /\ \/ frame[r][d] = "got"
     \/ frame[r][d] = "runs" /\ d = Len(Path(r))
     \/ frame[r][d] = "lost" /\ Tolerates(r, d)
  /\ Returns(r, d, "got")

(* A statement fails, or the call did. *)
Fails(r, d) ==
  /\ frame[r][d] \in {"runs", "got", "lost"}
  /\ Returns(r, d, "lost")

(* The statement or the call that the handler is at returns at once. *)
Cancel(r, d) ==
  /\ Cancelled(r, d)
  /\ Returns(r, d, "lost")

-----------------------------------------------------------------------------
Next ==
  \/ \E s \in Services :
       \/ Run(s)
       \/ RunMigrations(s)
       \/ SetDirty(s)
       \/ CreateTables(s)
       \/ SetApplied(s)
       \/ MigrationFails(s)
       \/ Listen(s)
       \/ ListenAndServe(s)
       \/ Term(s)
       \/ shutdownGracefully(s)
       \/ ShutdownDeadline(s)
       \/ Crash(s)
  \/ \E r \in Slots :
       \/ \E k \in Kinds : Accept(r, k)
       \/ \E d \in Depths :
            \/ Invoke(r, d)
            \/ Unavailable(r, d)
            \/ TransientFailure(r, d)
            \/ Broken(r, d)
            \/ WithTimeout(r, d)
            \/ Answers(r, d)
            \/ Fails(r, d)
            \/ Cancel(r, d)

Spec == Init /\ [][Next]_vars

(* Only the timers are relied on, and that a cancelled handler returns; a   *)
(* statement may take for ever, and a process that died may go unnoticed.   *)
Timers(r) == \E d \in Depths : WithTimeout(r, d) \/ Cancel(r, d)

Fairness ==
  /\ \A r \in Slots : WF_vars(Timers(r))
  /\ \A s \in Services : WF_vars(ShutdownDeadline(s))

FairSpec == Spec /\ Fairness

-----------------------------------------------------------------------------
(* A service that takes requests finds its tables, however the three starts *)
(* and the processes' ends interleave.  The exception is the one that the   *)
(* code only logs: after a migration that did not come to its end, a service*)
(* starts without them, as does every later one.                            *)
ServesOnSchema ==
  \A s \in Services : GrpcOpen(s) /\ ~ schema => s \in failed /\ mishap

(* A service that is starting or stopping listens to its own requests that  *)
(* come back to it: gRPC is served before HTTP, and until the last request  *)
(* by HTTP is answered or has timed out.                                    *)
NotMissedByItself ==
  \A r \in missed : ~ At(r, 1)

(* A call ends, and so does the handler it asked for, when the callee's     *)
(* process dies, when its statement hangs, and when the caller gives up;    *)
(* and SIGTERM ends a process even if one of its requests hangs.            *)
EverythingEnds ==
  /\ \A r \in Slots : frame[r][1] = "waits" ~> frame[r][1] # "waits"
  /\ \A r \in Slots, d \in Depths \ {1} : frame[r][d] # "none" ~> frame[r][d] = "none"
  /\ \A s \in Services : proc[s] = "draining" ~> proc[s] # "draining"

=============================================================================
