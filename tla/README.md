# TLA+ models of the Smail backend

Smail is a web mail service: three Go services (user, email, folder), one
PostgreSQL database, an object storage (MinIO) and Postfix. This directory holds
TLA+ specifications of its core logic, the TLC configurations that check them on
small instances, and theorems about them that TLAPS has checked for every value of
the constants. `PROJECT.json` maps every definition to the lines it models.

Run a model with `tlc -config MCMailbox_batch.cfg MCMailbox`, a proof with
`tlapm FilingProofs.tla`.

## The system

| Component | State it keeps | Operations | Talks to |
|---|---|---|---|
| email service, mailbox (`service/actions.go`, `repository/db/{trash,spam,flags,favorites,recipients}.go`) | `user_emails` (one row per user, mail and role, with five flags), `spam_senders` | read, unread, star, spam, trash, restore, delete, block and unblock senders, switch inbox | the database |
| email service, sending and receiving (`service/emails.go`) | `emails`, `email_recipients`, `user_emails`, `attachments`, objects | SendEmail, ForwardEmail, ReceiveExternalEmail | user service (gRPC), storage, Postfix (SMTP) |
| email service, drafts (`service/drafts.go`, `repository/db/draft.go`) | `emails` with `is_draft`, `email_recipients` | create, update, delete, send | user service |
| email service, attachments (`service/attachment.go`, `repository/storage/minio.go`) | `attachments`, objects | upload, download, delete | storage |
| email service, lists (`repository/db/{email,count}.go`) | none | pages and counts | user service |
| LMTP server (`delivery/lmtp/server.go`) | the session: sender and recipients | MAIL, RCPT, DATA, RSET | called by Postfix |
| folder service (`microservices/folder`) | `folders`, `folder_emails` | create, rename, delete, list; add mails and take them out | email service (gRPC) |
| user service (`microservices/user`) | `users`, avatar objects | sign up, sign in, profile, password, avatar | folder service (gRPC), storage |
| the three processes (`*/app/app.go`, `pkg/postgres`) | listeners, `schema_migrations` | migrations, start in an order, SIGTERM and its deadline | the database, each other |
| shared (`internal/pkg`, `pkg`) | none | tokens, CSRF, logging, gRPC clients (3 s timeout), SMTP builder | |

The services share one database, and a request is a goroutine that issues SQL
statements one after the other. Few operations use a transaction; the database runs
at READ COMMITTED. What makes the behaviour hard: statements of concurrent requests
interleave, decisions are taken on rows read some statements earlier, two systems
(database and storage, database and Postfix, two services) are written without
anything that ties them together, and a request can stop after any step (an error, a
timeout, a client that went away, a restart: all containers have
`restart: unless-stopped`).

What makes each part correct:
- mailbox: no mail is destroyed that the user did not bin; spam, trash and
  favorites do not overlap; the two rows of a mail to oneself agree; a blocked
  sender's mail is in the spam; requests that wait for each other end;
- folders: a mail is in the inbox or in a folder; only received mails are filed;
  the limit and the unique names of folders;
- drafts: sent at most once, frozen when sent, sent to the recipients it lists;
- attachments: a row has its object, an object has its row;
- sending and receiving: a positive answer means that all was done; nothing
  reaches Postfix that is not committed; a delivery that is repeated;
- lists: whoever walks through one sees every mail that was there, and none twice;
- users: one account per address, the password, the avatar;
- processes: none serves without its tables; a request that runs through several
  services ends, whatever becomes of them, also when it comes back to the service it
  began at.

## Modules

| Module | Models | Checked by | Proofs |
|---|---|---|---|
| `MailLife` | abstract: the life of a mail in a mailbox | `LifeSpec` in `MCMailbox` | refined in `FilingProofs` |
| `Mailbox` | `user_emails`, `spam_senders`, deliveries, all operations on them | `MCMailbox`, `MCSpamFilter` | `FilingProofs` |
| `SpamFilter` | `Mailbox` with a history of what may escape a block | `MCSpamFilter`, with the properties of `Mailbox` | `FilingProofs` |
| `FolderParams` | the constants of the folder service | | |
| `FolderTable` | the table `folders` | as a part of `Filing` | `FilingProofs` |
| `Filing` | `Mailbox` and `FolderTable` composed with `folder_emails` and the calls between the two services | `MCFiling` | `FilingProofs` |
| `DraftLife` | abstract: the life of a draft | `DraftLifeSpec` in `MCDrafts` | refined in `DraftsProofs` |
| `Drafts` | drafts and SendDraft | `MCDrafts` | `DraftsProofs` |
| `Storage` | the object storage and the keys of the files of a mail | | |
| `Attachments` | the attachments of a draft and the storage | `MCAttachments` (2 runs) | `AttachmentsProofs` |
| `Downloads` | `Attachments` with the downloads, which read the row and then the object | `MCAttachments` | `AttachmentsProofs` |
| `Message` | a mail as the sequence of its parts: `build` of `pkg/smtp` and the reader of the LMTP server | as a part of `Sending` and `Receiving` | in `SendingProofs`, `ReceivingProofs` |
| `Sending` | SendEmail and ForwardEmail with files, commit and hand-over to Postfix | `MCSending` | `SendingProofs` |
| `Receiving` | the LMTP session, ReceiveExternalEmail, and Postfix that tries again | `MCReceiving` | `ReceivingProofs` |
| `Paging` | all lists of mails, with what moves mails between them, and a client that walks through one | `MCPaging` (2 runs) | `PagingProofs` |
| `Users` | accounts, sessions, passwords, names and avatars | `MCUsers` | `UsersProofs` |
| `Services` | the processes with their start, end and migrations, and the chains of calls between them | `MCServices` | `ServicesProofs` |

`Storage` and `Message` are shared by `Sending` and `Receiving`. These two, `Attachments` and
`Drafts` keep of `user_emails` only who gets a mail; what then becomes of its rows is
`Mailbox`, whose `delivery` stands for their transactions.

### How state and actions correspond to the code

*Steps.* One action is one SQL statement, one call of the storage or one call of
another service, with the local computation that follows it. A transaction whose
writes nobody can see or wait for before its commit is one step (`InsertDraft`);
otherwise its first statement takes locks and its commit makes the writes visible.

*PostgreSQL at READ COMMITTED.* A statement sees the rows committed when it starts.
An UPDATE or DELETE that meets a row written by an open transaction waits, and then
evaluates its WHERE clause again on the new row: in the models such a statement is
not enabled while one of its rows is locked, and takes effect at one moment. A batch
statement that has some of its rows and waits for others is not modelled: two batches
that meet in opposite orders are a deadlock which PostgreSQL breaks by an error, and
an error of a statement is in the models. A unique index makes an INSERT wait for
the transaction that holds the same key (`HeldPairs`).

*Mailbox.* `rows` are the keys (user, mail, role) of `user_emails`; `flag[c]` is the
set of rows where the column c is true; `blocked` is `spam_senders`;
`delivery[e]` is the transaction that inserts the rows of mail e (`sendEmailTx`,
`SendDraft`, `ReceiveExternalEmail`); `trash[t]` holds the local variables
`toTrash` and `toRemove` of a Trash or Delete request; `tx[b]` is the transaction of
a block or unblock, with the pairs and the rows it has written. `disposed` is a
history variable: the mails seen in the spam or the trash. A mail has at most one row
per user and role, since `email_recipients` makes the recipients distinct
(`ON CONFLICT DO UPDATE` fails when a list repeats an address) and `Drafts` shows
that a draft is sent once. The handler `BlockSenders` exists
(`delivery/http/actions.go:64`) but no route leads to it, while unblocking is
routed: the deployed service is the instance `Blockers = {}`; the runs with blockers
check the code as it is written.

*Filing.* `filing[s]` is a request of the folder service that goes through its list
of mails: CheckEmailAccess, GetUserEmailID, the statement on `folder_emails`,
SwitchIsInbox. `SwitchLost` is a call that was executed but whose answer was lost
or came after three seconds. A call that gives up before it is executed and is
executed later all the same is not modelled. `astray` is a history variable that
notes the rows whose inbox flag and folder lost touch.

*Drafts.* `sending[s]` keeps what SendDraft read (text, recipients) before
`MarkDraftAsSentTx` locks the row. `text` stands for header and body, `Partial`
for a text one of whose two parts is empty. `stale` is a history variable: the
SendDraft requests whose draft was edited by a commit after they had read it; the mail
that such a request sends is `overtaken`. SendDraft never hands anything to Postfix:
an address outside gets nothing.

*Attachments.* One mail; an upload stands for its bytes and for the id of its row.
The history variables name the exceptions of the two invariants: `shared` names,
`doubtful` commits, `leaked` objects. `Downloads` adds requests that read a row and then
open the object of its key (`down`); `since` is the history of the uploads that claimed
the name in between. An object that is being read does not change, so that the other
requests go on only while no body is open.

*Message.* A mail is a sequence of parts, each with its place in the tree, its type,
its content and its file name. `build` is the branches of the SMTP builder (plain text,
HTML, files), `extractContent` the walk of the reader: which texts are taken for the
body, what is an attachment, what a part that cannot be decoded does. Contents are
values; base64, quoted-printable and the line breaks undo each other and are left out.

*Sending.* A letter is what a user wants to send. `req[s]` is a request with the id
of its mail and the files that are left; an open transaction is invisible, so that the
mail appears in `mail` with `Commit`, after which the mail is in `handed` if Postfix
accepted it. The user sends a letter again as long as no positive answer came, even
while a request he gave up goes on (`gone`). `unsure` is the history: mails that were
committed, or may still be, although the answer said otherwise or did not come; the
properties are silent about sending those twice, since neither the user nor the program
can know.

*Receiving.* A connection has the fields `from` and `to` of its Session, which outlive a
mail, and `data[c]`, the message it carries and how far DATA is. The LMTP library calls
Reset after every mail (external; seen from how the server implements Session).
DATA works in a context of its own, so that it goes on after the connection
broke (`lost`), while Postfix sends the message again on another one. An error of
the service is a plain Go error, which the library answers as permanent: Postfix returns
the mail (`bounced`). An address of this host that no user has is accepted and gets
nothing. `unanswered`, `doubtful` and `leaked` are history variables for the
exceptions: tries without an answer, commits taken for failed, clean-ups that were not
complete.

*Paging.* `rows` are the mails of one user with his role in them, received, sent or
draft; `flags` are their columns and whether they are out of the inbox, kept in the folder,
or removed; `came` and `filed` are the orders of `user_emails.created_at` and of
`folder_emails.created_at`. `walk` is a client that reads one list page after page and the total,
each by a statement of its own, a page of a folder by two, while mails are drafted, sent,
received, starred, binned, filed and removed. A mail has a place in
two orders: `emails.created_at`, which the lists of sent mails, drafts and all mails
follow, and `user_emails.created_at`, which the others do; they differ for a mail
that was written as a draft long before it was sent, so that a row may arrive behind
older ones; a folder is listed by a third, the time of filing. A page is a set of rows: those
whose place, the number of rows of the list ahead of them, lies between the offset and the
offset plus the limit. The two rows of a mail to oneself have one time, and no ORDER BY
decides between them; the model takes the received one first. `gone` and `fresh` are histories of
the rows that left the list or came into it while the walk was under way.

*Users.* `req[r]` is a request with the account and the value it is about and the
step it is at; `met` is the set of other requests for the same column of the same account
that ran beside it at some time. `told[i][k]` is what the owner has reason to expect
in column k of account i: an answered change that met nobody makes it one value; a
change with an error, without an answer, or beside another adds a value. `gave` and
`past` are the passwords typed in a browser and those an account had. A token is the
id of its account and is known to no table, so that a change of password ends no
session. `WriteLost` and `SaveLost` are statements that were executed while an error was
seen; one that is executed after its error was answered is not modelled.

*Services.* `proc[s]` is how far the process of s is: the wait for the lock of the
migrations, the steps of golang-migrate (version dirty, tables, version applied), the
listeners in the order of `app.go`, HTTP, SIGTERM; LMTP and gRPC of the email service,
opened one after the other with nothing between them, are one step. `frame[r]` is a request as a chain of
handlers, one for each service it has come to: `runs`, `waits` for the next one, or has
`got` or `lost` its answer. The deadline of a call is an action that is always possible;
TransientFailure is a channel that still backs off. `missed` is a history: requests that came back to their first
service (folder, email, user, folder) when it did not listen.

## Runs

| Run | Bounds | What it shows |
|---|---|---|
| `Mailbox_batch` | 1 user, 2 mails (one to himself, one external), 2 trash requests, no block | as deployed, no interleaving of the four statements of two Trash requests with the other operations, and no failure between them, destroys a mail that was never binned (`LifeSpec`), and the two rows of the mail to oneself always agree (`SelfMailInStep`) |
| `Mailbox_block` | 1 user, 1 mail to himself, a trash, a block and an unblock request; with fairness | the same with the transactions and locks of block and unblock; a blocked sender's mail is in the spam, but for the named exceptions (`BlockedIsSpam`); spam is never starred nor in the trash (`SpamExclusive`); requests that wait for each other end (`RequestsEnd`); types |
| `Filing` | 1 user, 1 mail to himself, limit of 1 folder, 3 ids and names, 2 creations, 2 filing requests with lists of up to 2, 1 trash | only received, existing rows of the owner are filed (`FiledIsReceived`); inbox or folder, but for the named exceptions (`InboxOrFolder`); two creations at a time pass the limit by one folder and no more (`FolderOverrun`) |
| `Drafts` | 3 ids, 1 user, 2 creations, 1 edit, 2 sends, limit 1 | sent once and frozen (`DraftLifeSpec`), complete and to those it lists (`SentAsRead`); the limit is overshot by at most one draft per other creation (`DraftOverrun`) |
| `Attachments_files` | 3 files, 2 names, 2 uploads, 2 deletions, 1 download | a row has its file and an object its row, but for the named exceptions; who downloads gets the file of the row, or, once that is deleted, one uploaded under its name since (`DownloadIsOwn`) |
| `Attachments_reuse` | 2 files, 1 name | violated: a failing upload removes the object of another attachment |
| `Sending` | 5 letters (to a user and outside, to a user with three files, outside only, with an empty file, to nobody), 3 ids, 2 requests | a stored mail has its files; a positive answer means that all was done (`OkIsDone`); Postfix gets nothing that was not committed, and what it gets reads back as the whole letter (`HandedIsStored`); repeating a letter after an error does not deliver it twice, but for the named exceptions (`SentOnce`) |
| `Receiving` | 4 messages (two files of one name and an address of nobody; a text before a multipart with another one, and a garbled file; a multipart without a boundary and an empty file; a mail that is a file), 3 ids, 2 connections | sender and recipients are those of the message, not of the one before (`EnvelopeKept`); accepted is stored, returned is not, stored once, with its files and without orphans, but for the named exceptions |
| `Paging_walk` | 2 mails, pages of 1, 3 moves | in every list but that of all mails a walk misses no row, but for rows behind one that left the list meanwhile (`NothingMissed`); in every list it shows no row twice, unless it or one ahead of it came in meanwhile (`NothingTwice`); the first page of all mails has the newest (`FirstPageIsNewest`) |
| `Paging_all` | 3 mails, pages of 2, no moves | violated: a walk through all mails misses some |
| `Users` | 2 accounts, 2 addresses, 2 values, 2 browsers, 4 requests, 2 at a time | a column holds what was told or left in doubt (`AsTold`); a session was earned with a password of the account (`SessionProven`); only the compared password is replaced (`PasswordFromOld`) |
| `Services` | 3 services that end and start again without limit, 1 request: a list, a list of a folder (4 handlers) or a mail from Postfix; with fairness | a service serves with its tables but after a failed migration (`ServesOnSchema`); a chain that comes back finds its first service listening (`NotMissedByItself`); calls, handlers and stopping processes end (`EverythingEnds`) |

Why the bounds are enough: the rows of different users meet only in
deliveries, so that one user with two mails, or two users with one, show the races
on a row and on a batch; two requests of a kind make every pair of steps of the same
handler meet, and a third would have to matter only together with both. The theorems
cover all sizes for every module. The ids of
folders, drafts, mails and files are never reused, as in the database, so that their
number bounds a run; MaxBatch bounds the list of a filing request at two mails, which
includes a mail listed twice. In `Sending` and `Receiving` three ids let a
letter be tried twice while another one is on its way; in `Users` four requests are
two sign-ups, a sign-in and a change, or an upload that meets another after two
earlier steps. In `Paging_walk` a page boundary lies between any two mails, and MaxMoves
bounds how often mails move during and before the walk: three are enough to file two
mails and take one out, or to bin, bring back and bin again. `FoldersFirst` (in `MCFiling`) lets folders be
created only before the first mail is delivered, and a third one only without mails: a
creation meets filing requests in nothing but the set of folders. In `Services` the
requests of different slots meet in nothing but the processes, and the paths left out are
parts of the ones that are in.

`CHECK_DEADLOCK FALSE` stands where a run really comes to its end: a removed draft in
`Attachments`, the ids in `Sending` and `Receiving`, and the requests in `Users`. The other
runs have no state without a successor.

Fairness of `Mailbox` and `SpamFilter`: strong fairness of the steps of a request
that has begun. The handler is a goroutine that goes on, and PostgreSQL serves the
waiters of a row in the order they came, so that a statement whose rows become free
again and again is served at last. Nothing is assumed of users or deliveries.
Fairness of `Services`: weak fairness of the timers only (`Timers`: the deadline of a
call of three seconds, and the return of a handler whose context is cancelled, since
database/sql and gRPC watch it; `ShutdownDeadline`: the context of `Server.Shutdown`).
That a statement, a callee or a process ever goes on is not assumed.

### Where the code does not do what it says

- `KeptConsistent` (run `Attachments_reuse`): "The upload and the DB insert are kept
  consistent: if the DB insert fails the object is removed from storage"
  (`email/service/attachment.go:84`). With a file name that the mail has already,
  removing the object is what breaks the other attachment.
- `AllMailsPaged` (run `Paging_all`): GetAllEmails says "Применяем пагинацию" (we apply
  the pagination, `email/repository/db/email.go:242`), but the two lists it
  merges were read with the same limit and offset. The offset is applied twice, and from
  the second page on mails are never shown, while the total counts them.

Met while modelling, without a run of their own: "maximum number of folders reached (max
10 custom folders)" (`folder/service/folders.go:18`) is not kept by concurrent
creations, and `OverrunBounded` proves by how much at most; `ErrSavedAsDraft`
(`email/service/errors.go:28`) is never returned; who loses the race of two sign-ups
gets an internal error, not the documented 409.

## Proofs

All theorems hold for every set of users, mails, request slots and so on, from the
named assumptions of the modules only: the NULL sender is no user; SenderOf is a
function; no slot both blocks and unblocks; the limits are numbers and the
creating requests finite in number; `Nobody` is none of the accounts, addresses, ids and
values; a letter has finitely many files, and a part without a name is none of them; the
parts of a mail come after the multipart they are in (`IsMail`); mails of `Paging` are
finitely many numbers and a page has at least one row; a request of `Services` is one of the known chains of calls.

Every invariant, action property and refinement of the runs is a theorem, all but the
two liveness properties. Where a step is too wide for one invariant, the invariant is
named here with the reason for it.

The mailbox (`FilingProofs`):

- `TypeCorrect`: `TypeOK`, with `Bounded` (what a request in progress
  knows of its user and batch).
- `SpamExclusiveAlways`: inductive with the types alone: each
  statement writes the two flags together or excludes spam in its own WHERE clause.
- `SelfMailInStepAlways`: needs `Blockers = {}`, as deployed; strengthened by what
  keeps spam away from a user's own mails.
- `MailboxImplementsLife`: the refinement. The inductive invariant
  `LifeInv` adds to the types that rows come from a sent delivery (`Arrived`),
  that spam and trash are in the history (`Marked`, `Disposed`), that whatever a
  request has chosen to remove was in the history (`Chosen`: this is what the
  stale ids of `DeleteUserEmailsBatch` need), and that a block locks rows of its own
  user (`LockedOwn`). Every action is then a step of `MailLife` or a stutter.
- `FilterIsMailbox` and `BlockedIsSpamAlways`: the history of `SpamFilter` restricts
  nothing, and what is not in it is in the spam. A block and a delivery can miss each other
  in two ways, and there is an invariant for each: a delivery that decided "no spam"
  did so before the block was visible (`DecidedBefore`), and rows that a block did not see
  came from a delivery that it crossed (`CrossingExempt`, `MissedByBlock`). That a
  transaction of a block has all rows of a mail or none (`LockedWhole`) keeps its UPDATE
  from splitting one.

Folders (`FilingProofs`):

- `FilingImplementsParts`: the composition of the two services is a behaviour of
  `Mailbox` and one of `FolderTable`, so that what is proved of each holds of both together.
- `FilingTypes`, `FiledIsReceivedAlways`: a request knows a folder of its own user and a
  row that was delivered (`Knows`); ids are never used again, so that a folder that is
  still there is the one that was checked.
- `InboxOrFolderAlways`: not inductive, as between the statement on `folder_emails` and
  SwitchIsInbox the flag and the folder disagree, and several requests can be at that
  point for one row. `Balanced` counts them: a row is in the inbox, or not, as the folder has it
  exactly when the number of switches still to come is even. `OneFolder` and `astray`
  carry the rest.
- `OverrunBounded`: folders and pending creations are counted together (`CountInv`); n
  creations at a time pass the limit by n - 1 folders at most.

Drafts (`DraftsProofs`):

- `DraftTypes`, `SentAsReadAlways`, `DraftsImplementLife` and
  `DraftOverrunBounded`: the row lock makes an open SendDraft the only writer
  of its draft, which gives both that a mail is sent once and that what is sent is what
  was read unless `stale`; the limit is a count of drafts and of creations that have
  passed it, as for folders.

Attachments (`AttachmentsProofs`):

- `AttachmentTypes`, `RowHasItsFileAlways` and `NoOrphanAlways`: the
  inductive invariant says which uploads can claim a name (`OneClaim`), that the object
  of a name claimed once is the one of its claim (`OwnFile`, `StoredFile`), that a
  request at work has no row yet or has lost it (`NoRowYet`, `RowsGone`), and which
  claims stand behind an object (`ObjectBehind`).
- `DownloadIsOwnAlways`: between the row and the object of a download, any number of uploads and
  deletions may run. `ClaimedSince` says that only the file of the row and the uploads in
  `since` can be the object by then.

Sending (`SendingProofs`):

- `Types`, `FilesAreThere`, `AnswerIsTrue` and `OnceSent`: the inductive
  invariant says what each request works on and how far it is (`WorkingAt`, `OwnMail`,
  `UploadedAt`), and why each mail is there (`Settled`): it was answered, the user still
  waits for its request, or Postfix refused it. As the user waits for one request for a
  letter at a time (`OneWaited`), and for none after an answer (`NoneAfterOk`), two mails
  of one letter need a refusal.
- `HandedIsStoredAlways`: what Postfix has was committed before (`HandedOut`), and what
  `build` made of the letter is read back with its text and all its files, however many
  there are (`Layout`, `LetterArrives`).

Receiving (`ReceivingProofs`):

- `Types`, `DeliveredIsStoredAlways`, `BouncedIsGoneAlways`, `StoredOnceAlways`,
  `FilesAreThere` and `NoOrphanAlways`, from one invariant: the envelope of a session is
  that of its message as far as it has come (`Enveloped`), at most one connection that
  Postfix still listens to carries a message (`OneTold`), and each mail has a reason
  (`Explained`): Postfix knows of it, is about to hear of it, got no answer once, or took
  a doubtful one for failed.
- `EnvelopeKeptAlways`: adds what a mail is made of (`Made`), and that the body is a text of the
  message if it has one, the plain one of an alternative, for multiparts of any depth:
  an argument about the least part of the message that the walk of the reader would treat
  otherwise (`BodyIsText`).

Lists (`PagingProofs`):

- `NothingMissedAlways`, `NothingTwiceAlways`: offsets are numbers and rows move, so that the invariant
  is about places: the place of a row in a list grows only when one comes into it ahead of
  the row, and shrinks only when one leaves (filing a mail, which gives it a new time,
  puts it on top of a list it was not in). A row not seen is at a place
  beyond what was read, or one ahead of it left (`MissedInv`); a row seen is at a place
  that was read, or one came in (`SeenInv`). The total ends the walk no earlier than the rows do.
  In the list of all mails only sent rows follow that rule; the received ones are
  those of the first two pages (`SeenAllInv`).
- `FirstPageIsNewestAlways`: the newest of all are among the newest of each of the
  two lists, by their places.

Users (`UsersProofs`):

- `Known` are the types, what a request knows at each of its steps
  (`Staged`), and that two requests for one column have met (`Met`). On it rest three
  arguments. `SessionProvenAlways`: `Tokens` carries the proof of a password from
  the sign-up or sign-in over the token to the cookie, and an address never moves to
  another account. `PasswordFromOldAlways`: `Compared`, that the comparison of a
  request that met nobody still holds when it writes. `AsToldAlways`: `Explained`
  counts only requests that may have executed their statement, and an object even
  when no row leads to it; `Unmet`, that a request which met nobody finds
  what it wrote, is what lets a positive answer forget the earlier doubts.

Processes (`ServicesProofs`):

- `ServesOnSchemaAlways`: one process holds the advisory lock (`OneHolder`) and knows
  version and tables (`Locked`); a dirty version is the work of a migration
  that runs or was cut short (`Versioned`); whoever goes on without tables has logged
  it (`Logged`).
- `NotMissedByItselfAlways`: the process whose HTTP handler is at work is up or draining
  (`Alive`), and in both gRPC listens; a handler that waits for the one that came back
  to the first service has it there (`Returning`). Postfix does not come by HTTP, and
  its chains do not come back.

Only model-checked: `RequestsEnd` and `EverythingEnds`, since liveness under fairness is
out of the prover's reach. Induction over data is too, and what the proofs of `Message` and
`Paging` say of mails and lists of every length they reach without it: by a least
counterexample among the numbers, for which the library states the principle as a
fact about sets, or by the size of a finite set.

## Not modelled

- Reads of one statement that change nothing: the list of folders and of attachments,
  profiles and look-ups by id, the numbers of unread mails.
- CSRF, the signatures of tokens, CORS, logging, metrics, recovery from panics: they keep
  no state, and let a request through or not.
- Repository methods that nothing calls (`InsertSpamSender`, `GetSenderIDsByEmailIDs`,
  `DeleteSpamSendersBatchTx`, `UnmarkSpamForSendersTx`, `repository/db/spam.go:11-105`).
- What the answer of a service says of a failure: a call is answered or lost.
- The encodings of the SMTP builder and the headers of a message.
- Configuration, ports that are taken, the parameters of the connections to PostgreSQL
  and MinIO; routing, decoding, status codes and formatting; generated code.

## Plan

1. done: `MailLife`, `Mailbox`, `SpamFilter`, `FolderTable`, `Filing`, `DraftLife`,
   `Drafts`, `Attachments`, `Downloads`, `Message`, `Sending`, `Receiving`, `Paging`,
   `Users`, `Services`.
2. done: a theorem for every invariant, action property and refinement that a run checks.
3. `Outbox`, abstract: a mail with a positive answer is stored and handed over, one
   that Postfix gave up is bounced; `Sending` and `Receiving` shown to implement it, first
   by a run each, then by a proof on the invariants they have.
