# A formal model of the receipt OCR services

TLA+ specifications of the three NestJS services under `apps/` (auth, receipt,
company) and of the library they share (`libs/common`): what they keep, how their
handlers interleave and fail, what is true of every behaviour, and proofs of it.

## 1. The system

| Component | State it keeps | Operations | Talks to | What makes it correct |
|---|---|---|---|---|
| Receipt service (`apps/receipt/src`) | receipt documents (MongoDB), images (S3), the scratch file `receipt-uploads/receipt` | `POST upload`, `PUT`, `DELETE`, `GET detail`, lists, Excel export | MongoDB, S3, local disk; auth (guard, `get_user_by_user_code`) | a document leads to an image; nothing is lost, resurrected or mixed up without a cause one can name |
| Auth service (`apps/auth/src`) | accounts (MongoDB), signed tokens (at the clients) | register master or member, login, authenticate, delete members, lists | MongoDB; company (`get_company`) | one account per email, a token stands for its account, members stay in their company |
| Company service (`apps/company/src`) | companies, read only | `get_company` | MongoDB | answers with the companies asked for |
| JWT guard (`libs/common/src/auth`) | none | `canActivate` before each guarded handler | auth, by RabbitMQ request/reply | no handler runs without a user; callers are answered |
| Repositories, S3 client (`libs/common/src`) | none | `create`, `findOne`, ..., `uploadFile` | MongoDB, S3 | a rejected call is reported to the caller |

Interaction. A client calls a service over HTTP. A guarded handler first has the
guard send the token to the auth service, which looks the account up by the email
in it. Handlers of one process interleave at every `await`. MongoDB, S3 and the disk
share no transaction. There is no unique index on emails, no version on documents,
no retry, no timeout and no restart policy (`docker-compose.prod.yml`).

What is hard to test: two registrations between lookup and insert; a deletion
racing an update whose upload takes long; the process going down between S3 and
MongoDB; a call that failed after it had its effect; a token outliving its account;
the scratch file shared by all uploads; a body that carries an `_id`; a reply lost with a crash,
or never able to come, while nobody has a timeout; an error of one service taken for an answer by another;
pages of a list that shifts while it is read. The whole
list, with lines, is under `hazards` in `PROJECT.json`.

## 2. Modules

    ReceiptArchive          what the receipt service promises about images (abstract)
    ReceiptService          the receipt service: handlers, stores, failures, crashes
      ReceiptInvariant        its inductive invariant
      ReceiptServiceProofs    theorems and proofs, among them that it implements ReceiptArchive
      MCReceiptService        symmetry for TLC
    AccountDirectory        what a lookup of accounts may rely on (abstract)
    Accounts                the auth service: registration, login, guard, deletion
      AccountsInvariant       its inductive invariant
      AccountsProofs          theorems and proofs, among them that it implements AccountDirectory
      MCAccounts              symmetry for TLC
    RemoteCall              what one service may rely on when it calls another (abstract)
    RequestReply            request and reply over RabbitMQ; implements RemoteCall
    Services                the three services serving reading requests over RequestReply
      ServicesInvariant       its inductive invariant, in two layers
      ServicesProofs          messages and handlers: theorems and proofs, among them that the calls implement RemoteCall
      GroupingProofs          what the grouping of the admin report computes
      ReportProofs            what the admin report says
      MCServices              the two instances for TLC
    PageWalk                clients paging through a list that changes
      PageWalkProofs          theorems and proofs
      MCPageWalk              symmetry for TLC
    NumberLemmas            induction on numbers, for the proofs

`ReceiptService`, `Accounts` and `PageWalk` hold what changes the data; `Services` is the
composition of the three services on the requests that read it, over the messages of
`RequestReply` (`Bus == INSTANCE RequestReply`).

### ReceiptService

Each HTTP request is an actor with a program counter `pc` that names the `await` at
which its handler is suspended; the work between two awaits is one action.

| phase | suspended in | actions out of it |
|---|---|---|
| `put` | `amazonService.uploadFile` | `PutImage`, `PutNamedImage` and their failures |
| `save` | `receiptRepository.createReceipt` | `SaveReceipt`, `SaveReceiptNaN`, `SaveReceiptDuplicate`, `SaveReceiptFails` |
| `truncate`, `write`, `read` | `fs.promises.writeFile` (open, then write), `readFile` | `TruncateScratch`, `WriteScratch`, `ReadScratch`, `ScratchFails` |
| `lookup` | `getReceiptDetailById` inside `updateReceipt` | `ReadDetail`, `ReadDetailMissing`, `ReadDetailFails` |
| `modify` | `receiptRepository.updateReceipt` | `WriteUpdate`, `WriteUpdateFails` |
| `remove` | `deleteMany` | `RemoveOne` (document by document), `RemoveDone`, `RemoveFails` |
| `query` | nothing: the period query is not awaited | `PeriodQueryDone`, `PeriodQueryRejected` (ends the process) |

What the data is abstracted to:

- A request is served once, so the ObjectId, the generated S3 key and the image it
  makes are named after it. The key is time plus a 17 character random code and is
  taken to be unique; the client's file names (`FileName`) are arbitrary and may clash
  with each other and with generated keys.
- A document is its `imgPath`; `imgPath` is identified with the object key it leads to
  (`Location` of an upload, the URL built in an update).
- Of the form only `numberOfPeople` (present or not), the `_id` in the body and, for
  updates, the file count. Ids in requests are ids that have been issued.
- An upload always has a name: multer leaves out files without one, and then the
  destructuring in the parameter list throws (`RejectUpload`).
- A failing call (S3, MongoDB, disk) may or may not have had its effect before it
  failed. It does not take effect later than that: a write that lands after its error
  was reported is not modelled.
- `deleteMany` comes to every document that was there when it began. One that is stored
  while it runs, or was redone by an upload with the same `_id`, may lie behind its
  cursor: `due` is what a deletion is still sure to come to, and it ends when that is empty.
- `failed` and `deleted` are history variables that only the properties read.

### ReceiptArchive

Receipts, the keys clients offered for each, the keys under which an image lies, and
the key each receipt shows. A receipt shows a key only if it was offered for that
receipt and holds an image. `ReceiptService` implements it under the mapping at the end of
that module (`Archive`): `offered` is computed from the requests, `stored` is the set
of S3 keys in use and `shown` is the collection. The mapping is checked by TLC and
proved.

### Accounts

Requests again are actors: `guard` (waiting for the auth service), `check` (the email
lookup), `insert` (hash, then store), `remove`, `act` (any other guarded handler). An account
is named after the request that registered it. `tokens` are the accounts that a token
was signed for; a token works as long as some account has its email. `Login` does
not look at the password and neither does `auth.service.ts`; passwords and the decryption of
the login form are left out. `findOne` returns any account with the email, since
two can exist. As in the receipt service, `deleteMany` is sure to come only to the accounts that
were stored before it began (`before`; `Targets(r) \cap before[r] = {}` in `RemoveDone`). A
deletion that fails answers 200 like one that is complete, because the controller returns the
exception (`users.controller.ts:99-102`), so nothing is stated of what a 200 has removed.
`blind` and `removedBy` are history; for registrations `before` is too.

### AccountDirectory

The accounts a lookup may find, and the email and company each was registered with: both
are given once, and an account that was removed does not come back. It promises nothing
about who shares an email. It ties the two models of accounts together. `Accounts`
implements it with all that happens there (races, failing inserts that took effect,
removals document by document, crashes) under the mapping at its end (`Directory`).
`Services` registers and removes accounts at any time without saying how. That its two
actions are steps of the directory is plain to see and not checked; what is proved is the
other direction (`DirectoryAdmitted`): no step of the directory is missing there, so what is
shown of requests holds whatever the handlers of the auth service do meanwhile.

### RequestReply and RemoteCall

The services talk by `client.send(pattern, data)` (`jwt-auth.guard.ts:46`,
`receipt.service.ts:60`, `users.service.ts:42`, `101`, `150`). `place` says where the message
of a call is: in the durable queue, at the service called, on its way back, or over;
`caller` what the caller knows. Messages are acknowledged when they are handed over (no
`noAck` on the queues, `auth main.ts:28` has it commented out), so `Crash(p)` loses what p
was working on and the replies on their way to p; what is queued for p stays and is
served after `Restart(p)`, to nobody if the caller is gone. `prefetchCount` has no effect
without acknowledgements: a service works on any number of messages. `BrokerRestart`
loses all that is in flight, because the reply addresses die with the connections. No
action ends a wait: there is no timeout. Whether the client library re-sends what the broker
had not confirmed when it went down is left out.

`Deaf` are calls of a client that cannot read its reply address. A Nest client consumes
`amq.rabbitmq.reply-to` under the options it was configured with. RabbitMQ refuses a consumer
there that wants to acknowledge (406, `noAck: false`), the client's `connect()` does not end, and
its calls are never sent: `Send` of a deaf call leaves the caller waiting with no message
anywhere. (Should the library let the refusal end the process, that is a `Crash` of the caller,
which the model has at any time.)

`RemoteCall` is what remains for a caller: a call is computed at most once, answered at
most once with what was computed, or lost without a word. `Calls` at the end of `RequestReply`
is the mapping.

### Services

`RefusesAcks` says whether the broker refuses, as RabbitMQ does; then the calls `WithAcks`
are deaf. These are the `get_user_by_user_code` calls of the admin report, whose client sets
`noAck: false` (`receipt.module.ts:50`); the client of the guard (`libs/common`) and that of the
auth service (`users.module.ts:23-33`) leave the option out. (The receipt module configures a
second client in the same way, of the company service; no code uses it.) `services_pair` and
`report_stuck` take the broker to refuse. `services` takes it not to, which is also the code with
that line removed: otherwise the join of the report would never be reached. The proofs hold for both.

A request is an actor with a `stage` (its guard, its query, its join) served once by the
service its `kind` belongs to, and three calls it may make:

| kind | route | guard | query | call and join |
|---|---|---|---|---|
| `report` | `GET receipt/admin/list/yearAndMonth` | `authenticate` over the queue | a page of the company's receipts | `get_user_by_user_code`; names, grouped by member (`Group`) |
| `rows`, `export` | `GET receipt/list/yearAndMonth`, `POST receipt/download/excel` | the same | the member's own receipts | none |
| `list`, `adminList` | `GET users/list`, `users/admin/list` | passport, in the auth service | a page of the company's members, or all | `get_company`; company names |
| `detail` | `GET users/:email` | the same | one member | `get_company` |

Every query and every handler of a message may fail, and ends as the code ends it:
`status` is what the client is told, `refused` by the guard, `badRequest` and `notFound` by the
controllers' `catch`, `serverError` where nobody catches, `empty` where `getMemberDetail`
swallows the error, `lost` with the process. `body` is the content of the answer, as far as
the properties tell contents apart: groups of receipts, names or blanks. Accounts are
registered and removed at any time (`Accounts` has the details of how). A token holds an
email; the guard, and `findByEmail` of the detail, find any account that has it now
(`Holders`), so that an old token may run a handler as somebody who registered the email
later: `user` is the account found (`request.user`), `Token(r)` the one the token was signed
for. A removed account does not come back, because its `memberCode` and `_id` are generated;
its email may. `future` are the accounts not registered yet. `rows` are any receipts of the
company, a page of them or, for the export, any number: what the query finds, and how it is cut
into pages, is the matter of `PageWalk`.
`present` is history: the accounts stored at some time while the request was served.

### PageWalk

A document is the number of its insertion, which is also its place in an unsorted
query; `month` stands for everything the query filters on (year, month, company, member,
search text), since only whether a document is found matters. `Insert`, `Remove`,
`Redate` and `RedateToNow` (an update without `receiptDate`, for which `moment(undefined)` is
now) change the collection between the requests of a walk. `Begin` and `ReadPage` are the
client: it starts at page 0 or 1, asks with one limit, and stops at a page that is not
full. Member lists are cut in the same way (`user.repository.ts:67-73`); nobody
redates a member. `stayed`, `departed` and `movedIn` are history.

The definitions whose names end in `Mistaken` are variants with one plausible
programming mistake each (an upload not awaited, a filter left out, an upsert in place
of an update ...). No action uses them: they show, put in place of the definition that
follows them, that each property is able to fail.

## 3. Properties and runs

| Run | Instance | States | Checks |
|---|---|---|---|
| `receipts_safety` | 4 requests, 1 file name, symmetry | 1 062 137 | type invariant and seven safety invariants |
| `receipts_liveness` | 3 requests, 1 file name | 212 005 | `IndInv`, `ArchiveSpec`, `EveryRequestAnswered` |
| `accounts_safety` | 4 requests, 1 email, 2 companies, symmetry | 2 771 944 | type invariant, three safety invariants, `IndInv` |
| `accounts_liveness` | 3 requests, 2 emails, 1 company | 686 311 | `IdentityNeedsReason`, `EveryRequestAnswered`, `DirectorySpec` |
| `services` | 1 request of 8 kinds and users, 3 accounts, of which one registers later with the email of another, 2 companies, 3 receipts, a broker that does not refuse | 244 676 | `IndInv`, four safety invariants, `EveryRequestEnds`, `CallsSpec` |
| `services_pair` | 2 requests, each of ann (receipts, members) or of bob (receipts, report), 2 receipts, a broker that refuses, symmetry | 928 938 | `StuckNeedsCause`, `AdmittedWasStored` |
| `page_walk` | 1 walk, 3 documents, 2 months, limit up to 2, symmetry | 1 009 690 | `IndInv`, `MissedNeedsDeparture`, `RepeatedNeedsMove` |
| `company_failure` | as `services` | | violated, see section 5 |
| `report_stuck` | as `services`, reports only, with a broker that refuses | | violated, see section 5 |
| `upload_without_people` | 2 requests | | violated, see section 5 |
| `upload_reads_other` | 2 requests | | violated, see section 5 |
| `email_twice` | 3 requests, 2 emails | | violated, see section 5 |

Receipts: `NoDanglingImage` (a stored URL always leads to an image),
`ForeignImageNeedsKeyClash` (a receipt shows another's image only when two requests
brought the same key and one of them is an update), `RemovedStaysRemoved` (a late update
does not resurrect a receipt), `StaleImageNeedsOverlap` (the read-then-write-back of an
update loses only another request's image), `OrphanExplained` (why an image may have no
document), `CompleteUploadStored` (what the swallowed errors cannot hide) and
`RemovalComplete` (a deletion answered 200 leaves nothing but what an upload with the same `_id`
stored since; a failed one is answered with an error here).

Accounts: `DuplicateNeedsRace` (what the check before the insert is worth without an
index), `IdentityNeedsReason` (when the guard mistakes a client for another),
`CompanyConfinement` (a token's effects stay in its company) and `DirectorySpec` (the refinement: an account keeps its email and company, and a
removed one is never found again).

Services: `StuckNeedsCause` (a handler waits for ever only after the service called, or the
broker, went down meanwhile, or as a report whose client is refused its reply address; every
guard and list is answered as long as nothing goes down), `AdmittedWasStored` (no failure
opens the guard: a handler runs only as an account that has the email of the token and was
stored while the request was served), `ReportFaithful` (one group per member, in the order of
first appearance, each with exactly that member's rows in order and the approval of the first),
`BlankNameNeedsRemoval` (a member without a name in the report has been removed, and nobody
removed before is named), `BlankCompanyHasNoDocument` (a failing company service is not shown as
companies without a name in a list of members; the detail of a member does show `''` then,
`users.service.ts:118-123`, as `JoinDetail` models it), `EveryRequestEnds`, and `CallsSpec`
(the calls keep to `RemoteCall`).

Paging: `MissedNeedsDeparture` (a document found throughout a walk is on one of its
pages, unless one before it was removed or redated) and `RepeatedNeedsMove` (no document
is on two pages, except after page 0 or an update that moved one before it into the
list). Uploads during a walk do no harm, and deletions repeat nothing.

Bounds. For the first two services the only bound is the number of requests, emails, companies and file names;
no counter is capped. Each safety property relates at most a victim, the
request that disturbs it, and one that sets the scene; four requests leave room for one
more. One file name is enough for clashes (all of them), and with one email all
registrations contend, while `accounts_liveness` adds a second to tell wrong accounts from
right ones (with one company; `accounts_safety` has two). Liveness and refinement are checked on three requests without symmetry. The
safety results hold for any number: see section 4.

The requests of `Services` share nothing but the messages and the accounts, and read
both; one request with every kind, user and fault therefore shows what a request can
meet, and `services_pair` adds a second one of another member with another email, so that a
request let in as the other shows. Its pages of one row keep it small; three receipts of two
members in any order are what the grouping needs, and are in `services`. There eve registers with the email of ann, in
another company, so a token of ann may find either. A company without a document and a request
without a token are in `services` too. `PageLimit` bounds a page, and in `PageWalk` `MaxDoc` bounds the documents ever inserted and
`MaxLimit` the limit asked for: three documents with limits 1 and 2 are the smallest
walks in which one document is read, one is removed or moved, and one shifts across the
edge of a page. Updates go on without bound.

Deadlock. The receipt service can always crash or be started again, so
deadlock is checked there. In `Accounts` all requests may have been served, after which
nothing happens: its runs say `CHECK_DEADLOCK FALSE`. So do those of `Services`, whose
requests are served once and may wait for ever. In `PageWalk` time goes on, and deadlock is
checked.

Fairness. `WF(Progress(r))` for each request: the event loop resumes every handler whose
call has settled, and drivers settle every call. Failures, crashes, restarts and arrivals
are not fair. `EveryRequestAnswered` needs no restart, since a crash ends the wait of
every client. In `Accounts` the fairness includes
the answer of the guard, which the code does not guarantee when the auth service goes
down alone; there guard and service are in one process and fall together. `Services` has
them apart: `WF(Progress(r))` for handlers whose query or reply has come, `WF(Deliver(c))`
for the broker handing a queued message to a service that runs, `WF(Handle(c))` for the
handler of a message. Nothing restarts a process, so `EveryRequestEnds` is stated under the
premise that auth and company stay up from some time on; it says that a request then
ends or is stuck on a call whose message was lost before, or never sent for a deaf client
(`StuckNeedsCause` says when), which is the best a caller without a timeout can have.

## 4. Proofs

The proof modules are checked by TLAPS for all values of the constants, under the named
assumptions of the modules: `NullAssumption` and `KeyAssumption` (the null values are no
requests, keys, emails or companies), `JobAssumption`, `DataAssumption` and
`NobodyAssumption` (types of the data of `Services`), `BoundAssumption` (the bounds of
`PageWalk` are numbers).

`ReceiptServiceProofs`. None of the safety properties is inductive. `IndInv` adds:
what a handler is doing at each phase (`PhaseOf`); that ids in requests were issued
(`IdsIssued`); that an object lies under the key its uploader brought (`BlobsOwned`); that the
key a handler is about to write, or a document shows, was brought for that document and holds
an image (`PathsUsable`, `DocumentsUsable`), which is where `NoDanglingImage` and the
refinement come from; that a document nobody disturbs keeps its first key
(`UndisturbedKeepsKey`, for `OrphanExplained`); that a complete upload past its
insert is stored (`InsertHappened`); that what a deletion names and is not still due has been
removed (`DeletionsAdvance`, for `RemovalComplete`). The steps are first sorted into a few kinds by
what they do to the stores; each conjunct is then shown to survive each kind. Proved:
`TypeCorrect`, `Invariance`, `ImagesPresent`, `ImagesOwn`, `NoResurrection`,
`DeletionsComplete`, `StaleImages`, `UploadsStored`, `Orphans`, and `Refinement`
(`Spec => ArchiveSpec`).

`AccountsProofs`. `IndInv` adds that stored accounts come from registrations that are over
(`AccountsStored`), that a member's company, and that of an account somebody removed, is
the company of the account the guard found (`CompaniesInherited`), and that a successful
lookup had seen no account with the email (`LookupSawNone`). From the last follows
`DuplicateNeedsRace`, from that `IdentityNeedsReason`, and from it with
`CompaniesInherited` `CompanyConfinement`. Proved: `TypeCorrect`, `Invariance`,
`Duplicates`, `Identity`, `Confinement`, and `Refinement`
(`Spec => DirectorySpec`): a step of `Accounts` that changes the stored accounts is an
insert or the removal of one document. An insert is a registration of the directory because
`PhaseOf` knows that a registration carries an email, `AccountsStored` that a request at its
insert has stored nothing yet, and `CompaniesInherited` that its company is given.

`ServicesProofs`. First the mechanism: `BusInv` (what was not sent is nowhere, replies
exist for waiting callers only, an answered call is over, a stranded one was disturbed or deaf)
is kept by every step of `RequestReply`, every step of the services is one of those or
touches no message (`Moves`), and each is a step of `RemoteCall` under the mapping. From
these comes `CallsRefined` (`Spec => CallsSpec`). Then the requests: `AdmittedWasStored` is not inductive, since it does not say
what a reply on its way claims. `RequestInv(r)` adds that a handler waits for the call
its stage names and for no other, that every account stored now is in `present`
(`StoredArePresent`), and that a reply on its way was true when it was computed. A step touches one request
(`OthersKept`, `OneCall`), a request nobody touches keeps its invariant (`Frame`), and each
kind of step keeps that of its own: `HandlersInvariance`, `AdmittedStored`, `BlankCompanies`,
and, from `BusInv` with what a waiting handler is doing, `Stuck`. Last the accounts:
`DirectoryAdmitted`, which says that no step of the directory is missing in `Services`.

`GroupingProofs`. `Group` is written as a recursive function over the rows (`Grouping`), since a
theorem about the fold of the community modules would need an induction theorem that takes an
operator. `NumberLemmas` derives what induction the proofs need, as facts about a set of
numbers, from the well-foundedness of `<` (`LeastNumber`, `UpTo`). With it the
function is shown to be well defined (`GroupingDefined`), and by induction over the rows
that the groups of a prefix are those of its rows: a row opens a group at the end
(`OpenGroup`) or joins the one of its member (`JoinGroup`). `GroupFaithful` holds for
every sequence of rows, not only those that the query can return.

`ReportProofs`. `ReportFaithful` follows from `GroupFaithful` for what `JoinReport` answers, and
has to be kept afterwards. `BlankNameNeedsRemoval` needs more, because the names are looked
up in another service while accounts come and go: the owners of the rows read were
registered before (`OwnersKnown`), so an account that a lookup misses cannot appear later; and the
users on their way back contain every owner still stored (`UsersAnswerTrue`). An owner who
registered after the query would be blank without having been removed; the first
conjunct is what rules it out. Proved: `Invariance` (`IndInv`, both layers),
`ReportsFaithful`, `BlankNames`.

`PageWalkProofs`. The positions of documents in a view are pairwise different and without
gaps (`BeforeStrict`, `RanksWithoutGap`), so a page that is not full is the last (`PageFull`).
`IndInv` says where documents lie relative to the next page: those not yet read that stayed are
ahead of it (`UnreadAhead`), those read are behind it (`ReadBehind`), each unless
something before them departed or moved in. A removal moves positions down, an insertion is at the
end, and a redating moves only those after it. Proved: `Invariance`, `Missed`, `Repeated`; and
of the paging itself `PagesPartition`: of a list that does not change, the pages from 1 on
show every document exactly once and in order, for any limit, and page 0 is page 1.

Only model-checked: `EveryRequestAnswered` (of receipts and of accounts) and
`EveryRequestEnds`, since liveness under fairness, and the `ENABLED` it rests on, are beyond the
prover; and the five violations of section 5. Every safety property, `IndInv` and
refinement that a run checks is also proved; `TypeOK` of `Services` and `PageWalk` is the first
conjunct of their `IndInv`.

## 5. Where code and documentation disagree

- `report_stuck`: "the final result" of the admin report is never made on RabbitMQ. Its client
  asks for acknowledgements (`noAck: false`, `receipt.module.ts:50`), the broker refuses it the
  reply address, and the call for the users hangs with every service up.
- `upload_without_people`: the DTO declares `numberOfPeople` optional, but an upload
  without it is answered 201 and never stored (`Number(undefined)` is `NaN`).
- `upload_reads_other`: the comment says the file read back is the uploaded one; all
  uploads share one path.
- `company_failure`: "Handle error and return a default value or empty observable" says the
  comment at the failing company call; the default is `null`, the join dereferences it, and the
  list ends with a 500.
- `email_twice`: "Email already exists" is not enforced between the lookup and the
  insert.

Not a disagreement with a document, but worth knowing: `users.controller.ts:88` and `101` return the
`HttpException` that the catch block makes, so a failed detail or deletion is answered 200 with the
exception as its content.

## 6. Not modelled

- `getCompanyByCompanyCode`: nothing in the repository calls it.
- The total count of the member list: it is computed and not answered
  (`users.service.ts:176`).
- Conversions of numbers and dates beyond what they decide (an absent `numberOfPeople` is
  `NaN`, an absent date is now), and the labels of the Excel export: they keep no state, and
  no property would tell more values apart.
- The decryption of the login form and the password: a library call, and nothing looks at
  the result.
- Validation in the auth service. `auth main.ts:38-45` installs cookie parser and validation pipe
  after `listen`, when the routes have been set up, so they apply to no route at all. The model
  has no validation there. What a validated body could not be (no email, no company code) is in it as
  far as it matters: without an email the schema refuses the document (`StoreAccountFails`), and a
  company code left out is one value of `Company` like any other.
- A broker that cannot be reached at the first connection: for the caller the same as an
  error of the handler. The options `prefetchCount` and `persistent` of the clients
  (`receipt.module.ts:49-51`) change nothing that the model tells apart; `noAck` is modelled.
- What the client library does with messages the broker had not confirmed.
- A write that lands after its error was reported, and documents of MongoDB that become
  visible in another order than they were inserted.
- Repeated uploads of a client that lost an answer: the code promises nothing about them.
- Docker, Jenkins and package files, framework wiring, the commented-out OCR call, the
  generated spec files of the test suites.

What could follow: the guards of `Services` in `ReceiptService` and `Accounts` too, so that
uploads and registrations wait on the messages; several walks at once with updates in
flight; the queries of the admin report taken from the pages of `PageWalk`, with `PagesPartition` and `GroupFaithful` joined.
