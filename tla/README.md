# A verification development for Estate Executor OS

TLA+ models of the backend (`src/backend/app`, FastAPI, SQLAlchemy, Celery, PostgreSQL, Redis), the TLC runs that
check them and the TLAPS proofs about them. Paths below are relative to `src/backend/app` unless they say otherwise.

    tlc -config TaskLifecycle.cfg MCTaskLifecycle      # a run: the .cfg and MC module PROJECT.json pairs
    tlapm AroundMatterProofs.tla                       # the proofs: each *Proofs.tla

## 1. Inventory

How everything runs. An API request is one coroutine with one database session. `core/dependencies.py:get_db` commits
it after the handler returns and rolls it back when the handler raises; nothing sets an isolation level, so PostgreSQL
runs READ COMMITTED, and no handler reads `FOR UPDATE`. So every check a handler makes is made on rows that another
request may change before the handler writes. SQLAlchemy writes, at a flush, the columns that were changed. Celery
workers take jobs from Redis with late acknowledgement, each job with a session of its own. Events go to the `events`
table in the transaction of the change they describe, and to Redis for browsers.

| component | module | state | what is hard | what makes it correct |
|---|---|---|---|---|
| **Task lifecycle** (`services/task_service.py`, `milestone_service.py`) | TaskLifecycle, TaskTransactions | `tasks`, `task_dependencies`, `task_documents`, milestone `communications` | overlapping requests, cascades that meet on one row, a failed insert that is swallowed | no circle and no lock-up of dependencies, completions justified, terminal statuses final, every transition logged, cascade sound and complete |
| **Deadlines** (`services/deadline_service.py`, `workers/deadline_tasks.py`) | DeadlineMonitor | `deadlines`, reminder events, the broker's queue | overlapping runs, redelivery, deadlocks, users racing the run, midnight | one reminder per day, none lost, no overdue deadline overlooked |
| **E-signatures** (`services/docusign_service.py`) | Signatures | `signature_requests`, envelopes at DocuSign | notices late and repeated, remote calls inside a transaction, partial failure | an outcome shown is one DocuSign reached, a signed copy exists exactly when it is claimed |
| **Documents** (`services/document_service.py`, `api/v1/upload.py`) | Signatures, Intake | `documents`, `document_versions`, `document_requests` | concurrent versions, single-use links | versions numbered without gaps, the current file is the last upload, a link serves one upload |
| **Reading of documents** (`workers/ai_tasks.py`, `services/ai_classification_service.py`, `ai_extraction_service.py`) | Intake | type and extracted data | a job that overtakes its commit, a broker that refuses it, a slow model, retries | every document is read, or somebody gave up on it, or its upload swallowed the refusal |
| **Request transactions, event log** (`core/dependencies.py`, `core/events.py`) | TaskTransactions | open transactions, `events` | a crash between two statements | row and event together or not at all |
| **Matters and task generation** (`services/matter_service.py`, `task_generation_service.py`, `template_registry.py`) | Matters | `matters`, `tasks`, `task_dependencies`, standalone `deadlines` | a count read before a close, tasks made critical after it, keys read before an insert, month arithmetic | a critical task open in a closed matter came after the count, a task per template, dependencies across batches |
| **People** (`services/firm_service.py`, `stakeholder_service.py`, `core/security.py`) | People | `users`, `firm_memberships`, `stakeholders` | the last owner counted without a lock, invitations to an address | one row each, somebody in charge |
| **Property of the estate** (`services/asset_service.py`, `entity_service.py`, `distribution_service.py`) | EstateProperty | `assets`, `entity_assets`, `distributions` | stale status checks | inventory and distributions agree, statuses only advance |
| **Communications, disputes, portal** (`services/communication_service.py`, `portal_service.py`) | EstateProperty | `communications` | an array of acknowledgements read and rewritten, two paths to it | no acknowledgement lost, a resolved dispute stays so |
| **Time tracking** (`services/time_tracking_service.py`) | TimeTracking | `time_entries` | a summary of three queries | its lines add up to its total, an export that is not cut does too |
| **E-mail notifications** (`workers/notification_tasks.py`, `services/email_service.py`) | Notifications | the broker's queue, `email_logs` | retries from the start, lost workers | whoever a notice is for gets it, and twice only after a failure |
| **Billing** (`services/billing_service.py`) | Billing, PlanLimits | `subscriptions`, Stripe's subscriptions, counts of matters and members | events reordered, repeated, late; plans changed at Stripe; limits counted before the insert, or not at all | the row follows Stripe's events, what is above a limit came in where nothing asks |
| **Privacy** (`services/privacy_service.py`, `workers/privacy_tasks.py`) | Privacy | `privacy_requests`, personal data | a job lost, retried or delivered twice; a seat handed out meanwhile | a completed deletion was whole, nothing is deleted unapproved |
| **Clio, QuickBooks, OAuth** (`services/clio_sync_service.py`, `quickbooks_sync_service.py`) | Integrations | `integration_connections`, the provider's rows | a row written from an old copy, errors swallowed after tokens were set, a map changed in place | what the map lists is not created again, status and tokens agree |
| **Webhooks** (`services/webhook_service.py`) | Webhooks | `webhooks` | a counter written from an old copy | the failures counted are those that happened |
| **API keys** (`services/api_key_service.py`, `api_key_rate_limiter.py`, `core/api_key_auth.py`) | ApiKeys | `api_keys`, windows in Redis | requests in flight while a key is replaced, clocks that reach Redis out of order | a dead key opens nothing, the window's limit holds |
| **AI features** (`services/ai_*_service.py`, `ai_rate_limiter.py`) | Assistant | Redis windows, `ai_usage_logs`, trusts | two windows, clocks out of order, a transaction open while the model answers | limits kept in both windows, analyses make one entity per trust |
| **Single sign-on** (`services/sso_service.py`, `api/v1/sso`) | SignIn | `sso_configs`, the connection at Auth0 | a remote call inside a transaction | an enforced sign-in can be used |
| **Realtime, caches, request limits, validation, reports, search, branding, storage** | none | caches and sockets | staleness bounded by a TTL | no protocol of their own |
| **Frontends, infrastructure, scripts** (`src/frontend`, `src/mobile`, ...) | none | none that the server trusts | | |

How they meet: finishing a task reads its document links and inserts a communication for a milestone; closing a matter
reads the tasks; the deadline run skips matters that are not active; a signed envelope adds a version to a document;
registering a document enqueues a classification that writes back to it; recording a distribution sends a notice;
whatever happens queues e-mail; creating a matter or a member asks the plan; every handler appends to the event log.
`PROJECT.json` lists, under `hazards`, each place where these are hard to test, with the line where it bites, the
property that would notice it, and what of it the property leaves out.

## 2. The modules

Two conventions run through all of them. A request that decides on what it has read is as many steps as it has reads
and writes with other requests between them; one that does not is one step. And each endpoint is an operator of its
own (`PostAsset`, `PatchMatter`, ...) that asks for the role and calls the service's operator.

Some properties hold only while no two requests overlap in a particular way, because the code takes no lock. The
variable that remembers such an overlap (`disturbed`, `excused`, `shared`, `overlapped`, `raced`, `crowded`, `exempt`)
is part of the specification, not of the program; it is set by the very steps that overlap, for the very rows they
overlap on, and the property excepts those rows and no more. So each of these properties says what the code keeps by
itself, and delimits the races it does not keep out; it does not catch those. They are in `hazards` at their lines,
with no property or with a note that says what is excepted. `late`, `lapses`, `unasked` and `unchecked` do the same
for what no race is needed for: a critical task added to a closed matter, an error swallowed over tokens, a job the
broker refused, a member no limit was asked about.

### TaskLifecycle: the task state machine, a request at a time

`status`, `deps`, `phase`, `needsDoc`, `linked`, `completedAt` are the columns and link tables of a matter's tasks;
`announced` says for which milestone phases a milestone communication exists; `trail[t]` is the last `events` row
about the task `t` (the properties compare it before and after a step, so earlier rows are not needed). Actions are
whole requests: `CreateTask`, `UpdateTask` (PATCH of status and phase, absent or null fields included), `CompleteTask`
and `WaiveTask` with their cascade, `LinkDocument`, and `AnnounceMilestone` (a communication somebody posts).
`CompleteTask` includes milestone detection as the code has it: achieving a milestone that is not yet announced
inserts a row that the database refuses, and the request is undone. A request the code refuses is a step that is not
enabled.

### TaskTransactions: the same handlers, statement by statement

Several clients run `patch`, `complete` and `waive` at once. `pending[c]` and `entries[c]` are the writes of an open
transaction; a statement sees the committed rows and its own writes (`View`), a first write locks the row (`RowFree`),
`Commit` publishes, `Crash` and a failed milestone roll back. The steps are the statements of `complete_task`,
`waive_task`, `update_task` and `_unblock_dependents` in their order. The module instantiates TaskLifecycle (`TL`):
with one client, or several whose requests are about unrelated tasks, it is a refinement of it, with the identity on
the committed variables as the mapping; when related requests overlap, the other properties say what of it survives.

### DeadlineMonitor: the hourly run, users and the calendar

`queue` counts the messages waiting, by failures so far; a worker's `session` is its run: `StartRun` computes today,
`SelectOverdue` and `SelectReminders` read, `MarkMissed` and `SendReminder` update one row at a time in the order the
query returned, `CommitRun` publishes rows and reminder events, `Ack` acknowledges. `Crash` kills a worker anywhere,
after its commit too; the message is delivered again. `BreakDeadlock` is PostgreSQL aborting one of two runs and
Celery's retry. A user's PATCH is `LoadDeadline` (which columns will differ), `FlushUpdate`, `CommitUpdate`.

### Signatures: envelopes, notices and document versions

`envelope` and `notices` are DocuSign's; `request` the rows; `current`, `file`, `versions` one document with its
versions. A call reads a row, talks to DocuSign with its transaction open, and writes at the end only what differs
from what it read. Notices arrive in any order, any number of times. The version number is read, incremented and
protected by the unique constraint (`NumberTaken`).

### Intake: documents in, and read

`doc` is the row a document has (absent, of no type yet, of a type; whether its data were extracted), `link` an upload
link with what came through it, `open` the inserts that have not committed, `jobs` the queue and the workers. A job is
put on the queue by the request whose transaction has yet to commit, so `Start` may find no row: that is an error like
any other, and retried. `RegisterDocument` fails when the broker refuses the job; `CompleteTokenUpload` swallows the
refusal and goes on without it (`Swallow`, which `unasked` remembers). `Classify` and `Extract` write over whatever
the row has become while the model was asked. An upload checks its link when it begins and marks it used when it
commits.

### Matters: closing, and generating tasks

`matter` with its jurisdiction and flags, `tasks`, `links`, `deadlines`. `GetTemplates` is the registry's choice
(conditions, and the last template of a key wins), `CreateTasks` the insert with dependencies resolved within the
batch first and then among the tasks known before it, `AddMonths` the month arithmetic. Regenerating
(`BeginRegenerate`, `Regenerate`) and closing (`BeginClose`, `Close`) read first and write later; PATCH, plain
generation, tasks created by hand (`CreateTask`, of the key `Custom`), finished or given another priority (`SetTask`)
come between and after, also in a closed matter. `late` names the tasks that came to be critical and open after the
count a close went by, whichever of these made them so. `excused` notes a plain second generation or two overlapping
ones ("copies"), and a close by PATCH, which counts nothing ("patched").

### EstateProperty: assets, entities, distributions, communications

Requests that decide on an asset's status or on a communication begin (`BeginUpdate`, `BeginDistribution`,
`BeginAcknowledge`, ...) and finish; the rest are one step. A firm member without a stakeholder row acts as `Staff`,
whose id is NULL: a notice or a message of theirs fails on the column that may not be. The portal's endpoints go to
the same rows with the account's id where the matter's use the stakeholder's (`Mark`). Distributions are rows under
ids (`Record` takes a free one), which go with their beneficiary; messages stay, numbered as they came.

### People, TimeTracking, Notifications

*People*: accounts made at the first sign-in, firm members, stakeholders with their invitations; `MixedCase` users
have an address the invitation's lower-cased one does not equal. `CheckRemoveMember` and `CheckRemoveStakeholder`
count, `Remove...` deletes. *TimeTracking*: entries and the three queries of a summary, each a step; the export is one
page (`MaxExport`) of the entries, and any of them may be the ones it leaves out. *Notifications*: a notice is
dispatched, looks up its recipients, queues a mail for each (`Queue`), and starts again from the beginning when it
raises (`Raise`); a mail is delivered (`Deliver`) and logged (`LogSent`), either of which may fail; `LoseWorker` is a
worker killed between two steps. Notification tasks that nothing in the code calls are entry points by their Celery
name.

### Billing, PlanLimits, Privacy

*Billing*: `stripe` and `inbox` are Stripe's. A subscription has a price, which the portal changes, and metadata,
which names the tier at checkout and may be edited or miss; `RemoteChange` is what else becomes of it: refused and
paid charges, a trial that ends, a first payment that fails, an end set, taken back or reached. `SubscriptionCreated`
... `InvoicePaymentFailed` are the five handlers, an event may be handled in any order and again; `disturbed` counts
late events and subscriptions that were live at once. The tier a firm has is the metadata's, whatever it pays for, and
a grace period outlives its subscription until the next is paid. *PlanLimits*: the row as a check of a limit sees it,
changed by anything at any time, and the counts of open matters and of members. A request that creates one passes
`CheckLimit` and inserts later; `UpdateMatter` opens a closed matter again and `AutoProvisionSsoUser` adds a member
without asking, which `unchecked` counts. `excused` holds the kinds whose requests overlapped or whose limit moved.
*Privacy*: `request` the rows, `named` whoever still carries personal data; review and dispatch are two steps, the job
reads the seats it will anonymize and writes later, and is lost, retried or repeated. Meanwhile seats get accounts: an
invitation of an address with an account links at once (`BeginInvite`), `create_matter` seats its creator
(`BeginCreateMatter`), an invitation is accepted (`BeginAccept`).

### Integrations, Webhooks, ApiKeys

*Integrations*: a call in flight holds the row it read (`read`) and its copy of the entity map (`known`); `Write` puts
back the columns that differ, as the ORM does, and `fresh` says whether nobody wrote meanwhile. The map of a section
that exists is changed in place and therefore never saved again (`Sync`): what came after the first map is created at
the provider again at each synchronisation. `CompleteOauth` ends connected, in error, or with an exception the
callback swallows and commits over; a token exchange or a refresh may bring no token. `lapses` remembers the last two.
*Webhooks*: a delivery carries the failure counter it read. *ApiKeys*: raw keys are numbers, a request that
authenticated is let in by Redis or refused, in whatever order with what becomes of the key. It reads its own clock
first and reaches Redis up to `Lag` instants later (`Clock`), so that the script may run with an older clock than
before.

### Assistant, SignIn

*Assistant*: `Check` is the one script Redis runs over both windows, again with a clock that may lag; `EnterEntity`
and `DropEntity` are the users' own entities of a trust's name, counted apart from those an analysis makes; `Answer`,
`Unavailable`, `Unusable` and `NoToolUse` are how a call ends, of which the last rolls everything back, the usage row
included. *SignIn*: making and deleting the connection at Auth0 inside the transaction that may yet fail, PATCH,
enable, disable, and first logins through the connection or not.

### AroundMatter and AroundFirm: the two compositions

The components around one matter (EstateProperty, Intake, Matters, TimeTracking, Notifications) and around one firm
(Billing, PlanLimits, People, Privacy, Integrations, ApiKeys, Webhooks, Assistant, SignIn) are put together: one is
extended (Matters, Integrations), the others are instances, and `ComponentsAssumption` is what they assume of their
constants. Those of one composition decide on no row another of them writes and wait for no lock of another, so seen
through the variables of one component a behaviour of the whole is a behaviour of that component with stuttering:
`focus` picks in the initial state which component runs, and TLC explores each in turn instead of their product. Where
components do meet on a row, they are one module: the tasks a close counts are in Matters, the notice of a
distribution is in EstateProperty, the links of an upload in Intake, the seats of a deletion in Privacy. And where one
only suffers what another does, it takes that as any change: the row a webhook writes in PlanLimits, an entity of a
trust's name in Assistant. `MCEstate` and `MCFirm` only define the templates, roles and addresses the runs use, and
what is symmetric.

## 3. The runs

| run | question | instance | states |
|---|---|---|---|
| `TaskLifecycle` | are the task rules sound? | 3 tasks (one that may name itself as a dependency), one milestone phase, one document | all requests in all orders |
| `TaskTransactions_serial` | do the handlers, with crashes, implement the rules? | 1 client, 3 tasks, two of them dependencies of the third | refinement of `TL!Spec` |
| `TaskTransactions_overlap` | what survives overlap? | 2 clients, 4 tasks: two that both depend on the other two, the smallest graph on which two cascades meet on two rows | invariants, and liveness under `Fairness` |
| `DeadlineMonitor_monitor` | reminders and overdue marks with redelivery and user patches | 1 worker, 1 user, 1 deadline, 3 days, 1 crash | invariants and `OverdueIsNoticed` |
| `DeadlineMonitor_deadlock` | do reminders survive deadlocks between runs? | 2 workers, 2 deadlines, 2 days, 1 retry, 1 crash | `ReminderGoesOut` |
| `Signatures` | outcomes and versions under crossing calls | 2 envelopes on one document, 2 calls in flight, up to 3 versions | invariants |
| `Estate` | does what surrounds a matter hold together? | see the bounds below | 655 277 |
| `Firm` | does what surrounds a firm hold together? | see the bounds below | 971 979 |

What the properties of `Estate` and `Firm` say, each but for the overlaps its module names: the books agree with the
inventory (`BooksAgree`) and nothing recorded is taken back (`NothingTakenBack`); every document is read, given up, or
came through a link whose upload swallowed a refused job, and a link serves one upload (`IntakeComplete`); generation
repeats nothing and due dates keep their order (`GenerationSound`), dependencies cross batches (`DependenciesLinked`),
a critical task open in a closed matter came to be so after the count (`ClosedMeansDone`); a summary adds up, and so
does an export that is not cut (`SummaryAddsUp`); everybody is told, and twice only after a failure
(`EveryoneToldOnce`); the row is what Stripe's events, in order and repeated, make of it, and a grace period runs
while failures are counted (`PlanInStep`); limits of plans, webhooks, windows and trusts are kept where they are asked
(`ChecksHold`); deletions are whole (`DeletionIsWhole`); what the map lists is not pushed again (`PushedOnce`), a
connection's status and tokens agree or a named lapse says why not (`ConnectionHonest`); the firm and the matter keep
somebody in charge, each with one row, dead keys are refused, an enforced sign-in works (`AccessKept`).

Four runs end in a counterexample; each is a finding:

- `TaskLifecycle_last_task`: the last task of a milestone phase with notification cannot be completed at all by a
  user: `fire_milestone_notification` uses the user's id where a stakeholder's is required, the exception is
  swallowed, and the commit fails.
- `TaskLifecycle_patch_complete`: PATCH with status `complete` skips the preconditions that the design document puts
  on the transition: the run completes a task that requires a document and has none.
- `TaskTransactions_lost_unblock`: two tasks finished at the same time each see the other open, and their common
  dependent is never unblocked.
- `DeadlineMonitor_overlap`: two runs that overlap send two reminders for a deadline on one day.

Seven more disagreements between the code and what it says of itself were met while modelling; the modules have them
as the code has them, and `PROJECT.json` quotes the lines: an acknowledgement through the matter does not count in the
portal, whose list holds account ids; a dispute under review can be reopened though the endpoint's text does not list
it; PATCH enables single sign-on without the verified connection that enabling asks for; the first OAuth connect of a
firm fails on settings that are still None; an export is approved and never processed; somebody invited to a firm
before their first sign-in cannot sign in, as their placeholder has their address; the handler of a changed
subscription speaks of detecting the tier from the price and takes it from the metadata only, so a plan changed in
Stripe's portal changes what is paid and nothing else.

Not stated as properties, because nothing promises the contrary, but contained in the models: a PATCH or a
cancellation that ends a task runs no cascade; the deadline run may mark a deadline missed over a completion or an
extension committed after its select; a late `delivered` notice takes a completed request back to `delivered`; a
repeated `completed` notice may register a second signed version; the signed version never becomes
`documents.storage_key`, so downloads return the last upload; a classification overwrites the type a user confirmed
meanwhile; only the first entity map of a resource is ever saved; critical tasks may be added to a closed matter; a
closed matter is opened again, and a member added by single sign-on, without a look at the plan; two requests that
read a task's status before either writes overwrite one another, and no property here excludes that (`EventsAreLegal`
survives it).

**Bounds.** Three tasks hold every shape the rules distinguish (no dependency, one, several, itself); the proofs
remove that bound. Two clients suffice for lost updates; `NoDeadlock` holds of two only: three cascades can form a
circle, which PostgreSQL breaks by aborting one. Three days have a day before, on and after the due date, with one to
extend to. One message in the queue beside the one running gives a backlog; one crash gives redelivery at each point
of a run. Three versions let an upload and a signed copy, or two signed copies, meet on the same number. In `Estate`
and `Firm` every component has two requests in flight, which is what a check read by one and invalidated by the other
takes, and two of whatever they may mistake for each other: two documents on one link, two templates of one key with a
third that depends on them, two users (one with capital letters in the address), two Stripe subscriptions with four
events, of which one is handled late or one overlaps, two matters within a firm's limit, an entity entered by hand
beside those of analyses, three raw keys of which two are dead. An export asks for one line of up to two entries. A
clock lags by one instant. One retry separates the first attempt from the last; where `MaxRetries` is 0 (Privacy) the
proof has every number. Windows are two and three instants long and time runs past them. Symmetry permutes envelopes
and calls in `Signatures` and requests in flight in `Firm`, which no definition tells apart, in runs without liveness.
`CHECK_DEADLOCK FALSE` stands where a bound or a finished matter leaves nothing to do.

**Fairness.** `TaskTransactions`: strong fairness of each handler, since the event loop resumes a handler when its
statement is answered and PostgreSQL grants a row lock to waiters in turn; nothing is assumed of clients.
`DeadlineMonitor`: Beat and the workers keep running (weak), row locks are granted in turn (strong, for the steps that
wait for one), requests end, and PostgreSQL breaks deadlocks; nothing is assumed of users or of midnight, so a day may
last as long as it takes, and `ReminderGoesOut` says a reminder goes out if the day lasts. The other modules state
safety only, without fairness: what they promise to happen they promise by never dropping the job that does it
(`IntakeComplete`, `EveryoneToldOnce`).

## 4. What is proved

`TaskLifecycleProofs.tla` proves about `TaskLifecycle!Spec`, for every set of tasks, phases, documents and templates
(assumptions: `PhaseAssumption`, there are phases and milestone phases are among them; `TemplateAssumption`, the rows
to insert are well typed, nothing said about what they depend on):

- `TypeCorrect`, by itself inductive, on which all the rest rests;
- `TerminalStaysTerminal`: a case split on the actions, with the transition table (`StatusStep`);
- `CompletionStaysJustified`: inductive together with the type invariant, because terminal statuses are final,
  dependencies never change and links are never removed;
- `DependenciesStayWellFounded`: not inductive alone. The strengthening `GraphInv` adds `DependenciesCreated`, nothing
  depends on a task that does not exist yet, which holds because `CreateTask` looks the dependencies up before its own
  row exists; then, in any set of tasks, the newest can be left out unless it is the only one;
- `SomeTaskCanProceed`: from it, applied to the set of open tasks;
- `TrailIsExact`, `CascadeIsSound`, `CascadeIsComplete`: action properties, from the type invariant and the
  definitions of the cascade.

`SignaturesProofs.tla` proves all five invariants of `Signatures!Spec`, for every set of envelopes and of calls, every
configuration of notices and every bound on the versions (assumptions: `MaxVersionAssumption`; `KeyAssumption`, a
signed copy's storage key is not an upload's):

- `TypeCorrect` and `VersionsStayNumbered` together, as `VersionInv`: a version number stays within its type only
  because numbers follow each other; the strengthening `BasesKnown` says that a `current_version` once read is not
  ahead of the document, so that a number which is not taken is the next one (`NextNumber`);
- `OutcomesAreGenuine`: calls carry what they were told for a while before they write, so `OutcomeInv` adds that every
  notice and every answer that names an end is true, and stays true because an end at DocuSign is for good;
- `SignedCopiesAreOnFile`: needs `RequestsKnown`: the row a call is about to insert is still blank and no other call
  inserts it, rows once there stay, and a call that registers a copy was told `completed`;
- `FileStaysLastUpload`: from `VersionInv` and what a step may do to a document (`DocumentStep`).

`TaskTransactionsProofs.tla` proves about `TaskTransactions!Spec`, for every set of clients and tasks (no assumption
beyond TaskLifecycle's), that `TypeCorrect`, that the last event of a task names its status (`TrailMatchesRows`), and
that every event committed is a transition the table allows (`TrailIsLegal`). Neither is inductive: `Consistent` says
that an open transaction that will write a status carries the event that reports it, whose transition is legal;
`TargetsLegal` that what a handler is about to write is legal from the status it loaded. The status it loaded need not
be the one it overwrites: that is the lost update the trail alone does not show. Two more theorems say how requests
may overlap; their hypotheses are about the requests that are open, not about the number of clients:

- `UnrelatedRequestsImplementTaskLifecycle`, assuming `[]RequestsApart`: the refinement, by initial state and by step,
  for any number of open requests none of which writes a row whose status another goes by. A request writes the row of
  its task and of the dependents (`Writes`), and goes by these, by all that they depend on, and by the tasks of its
  phase when a milestone may follow (`Reads`). `SessionInv` holds whatever overlaps and says how far a session is:
  before the flush of its own row it has written nothing, after it only dependents, all unblocked; rows written are
  locked; no two tasks depend on each other. `Serial` adds what a request may rely on: what it loaded is still
  committed, and each dependent its task makes ready is unblocked, being examined or on its list, none other. The
  commit of a request that is apart leaves this as it is (`SerialUnmoved`, `ApartUnmoved`). Then `Commit` is the step
  of TaskLifecycle and every other step, rollback and crash included, a stutter. Two requests that end two
  dependencies of one task are not apart, and `TaskTransactions_lost_unblock` shows what they do.
  `SerialHandlersImplementTaskLifecycle` is the corollary for one client, the instance that the run `serial` checks;
- `TwoRequestsNeverDeadlock`, assuming `[]AtMostTwoOpen`: one of two open transactions began after the last commit
  (`OneIsFresh`), a dependent is only unblocked once what it waits for has ended (`VouchesHold`), so no two cascades
  unblock the same one (`NoneVouchedTwice`) and none waits for a row of another that waits for it. For three the
  theorem would be false.

`DeadlineMonitorProofs.tla` assumes `InputAssumption` (a finite set of deadlines, typed inputs, no patch that carries
the monitor's own `reminded` column) and proves `TypeCorrect` and `OnlyOverlapRepeats`, for any number of workers,
deadlines, users, days, retries and crashes: as long as no two runs are both between selecting reminders and
committing them (`[]RunsApart`), no deadline is reminded of twice on a day and the row records the last reminder.
Overlap with anything else, users, deliveries, the other phases of other runs, does no harm. `RemindsOncePerDay` and
`RowsRecordReminders` are the corollaries for one worker (`OneWorker`). `ReminderInv` adds what a run has in its
hands: reminders not committed belong to the run's own day (`PendingReminders`), a deadline still on its list has not
been reminded that day (`TodoReminders`), and nothing was sent of a deadline that is not there
(`NothingSentOfAbsent`). That the assumption is needed is what `DeadlineMonitor_overlap` shows.

The other four prove the properties of `Estate` and `Firm` of `EstateSpec` and `FirmSpec`, from `ComponentsAssumption`
alone: bounds, hours and minutes are natural numbers, NULL is no row's id, the names of rows differ, templates are
typed, the founder is an owner and the starter plan lets one user in. Each component's invariant is shown of its own
`Init` and `Next`; a step of the composition is a step of one component and leaves the variables of the others alone
(`EstateRunsComponents`, `FirmRunsComponents`), so all invariants hold together. In each, what a request in flight has
read is the part that makes it inductive, and the variable that remembers overlaps says when it stops being true.

`AroundMatterProofs.tla`, for any assets, people, documents, links, types, templates, messages, retries and requests
in flight:

- `EstateTyped`, the types of the five components;
- `InventoryAgrees` (`BooksAgree`) and `RecordsStand` (`NothingTakenBack`) by `BookInv`: the row a request read is as
  it read it unless another request that had read it wrote (`ReadsStand`), a request names rows and statuses of its
  kind (`RequestsFit`), what is distributed stands as distributed (`Distributed`) and what is held exists
  (`HeldExist`). The action property follows from what every step does to rows (`Advance`), and for the counts of the
  summary and the portal from lemmas on how they grow with the rows they count;
- `DocumentsAreRead` (`IntakeComplete`) by `IntakeInv`: a document that is unread or about to be inserted has a job,
  or was given up, or comes through a link with the refusal of its job swallowed (`Watching`), an insert that is open
  has no row yet and is the only one of its document (`InsertsAreNew`), a job waiting for the model has a row
  (`JobsReading`), an upload link that no two requests shared has its one document once it is used and none before
  (`LinksSpent`);
- `ClosedIsDone`, `GenerationIsSound`, `LaterTasksLinked` by `MatterInv`: what a regeneration knows are all the tasks
  there are and it is the only one, unless excused (`KnowsAll`); while a close that has counted is under way, or after
  it unless by PATCH, every critical task that is open is among those that came late (`CountHolds`); a matter not
  created yet has no tasks (`Fresh`). The month arithmetic is separate: lemmas on `AddMonths` for every date and every
  number of months, which TLC checks for a few;
- `RecipientsAreTold` (`EveryoneToldOnce`) by `NoticeInv`: whoever was taken off a message's list has an e-mail
  delivered, queued or tried to the end (`ToldServed`), of a message nothing was repeated of nobody on its list has an
  e-mail and nobody has two (`SentOnce`), and a row of the log is of an e-mail that was delivered (`LogTrue`);
- `SummaryIsExact` (`SummaryAddsUp`) by `TimeInv`: entries are told apart by their ids (`Numbered`), and what a
  summary has read so far is what the entries give, unless an entry was logged, changed or deleted since it began
  (`ReadSoFar`). The rest is about sums. A sum is a fold over a finite set in an order `CHOOSE` picks, so lemmas show
  that it exists and that any member may be taken first (`FoldsAgree`, `SumTake`), that it splits over two parts,
  hence over the keys of a grouping (`SumSplit`, `SumByKey`), and that minutes carried into hours change nothing
  (`SumLinear`). None uses an induction theorem: the subsets of a finite set are well-founded, so among those for
  which a statement failed there would be a minimal one (`Minimal`), which is not empty and not one member more than a
  smaller one.

`SubscriptionProofs.tla` proves `PlanFollowsStripe` (`PlanInStep`), for any plans, subscriptions and number of events.
`PlanInv` is about any order of them: the types, an uncommitted row is the only one (`HeldAlone`), the grace period
goes with the failures counted. That the row agrees with Stripe needs what the state no longer has, which events were
handled before. `StepInv` therefore says, of behaviours without disturbance, that SOME story explains the state: the
events Stripe emitted and the view of the row that each of them leaves when they are handled in that order (`Story`).
All that are not handled yet are in the inbox and nothing there is older than the newest one handled (`Outstanding`),
the row is the view that one left (`RowIs`), so that a repeat leaves what was there (`AfterTwice`), and Stripe's
newest subscription is mirrored by the view after all of them (`Mirrors`). A step either keeps the story or extends it
by what it emits (`StoryGrows`), and for each kind of change at Stripe its events turn a view that mirrors the
subscription as it was into one that mirrors it as it is (`RemoteSteps`, `SubscribeSteps`). With none outstanding the
two views are one.

`AccessProofs.tla`, for any accounts, seats, keys and requests in flight, proves

- `AccessIsKept` (`AccessKept`) by three invariants: seats have ids and addresses of their own, and a removal under
  way that is not excused is alone and leaves somebody in charge (`TeamInv`: `SeatsApart`, `OwnerStays`,
  `AdminStays`); raw keys are handed out once, an active row has none that was retired and a call that was let in had
  a live one (`ApiInv`: `HashesOwned`, `ActiveAlive`, `CallsAlive`); the connection at Auth0 belongs to a creation on
  its way or to the row (`LoginInv`: `OneConnection`, `RowTrue`);
- `DeletionsAreWhole` (`DeletionIsWhole`) by `PrivacyInv`: a job exists only for an approved request (`JobsApproved`),
  a running one knows every seat its user has and seats of nobody else, unless they got one since it read
  (`JobsKnowSeats`), and a review under way that is not excused is the only one of its request (`ReviewsAlone`).

`AroundFirmProofs.tla` extends these two and proves, for any items, hooks, trusts, limits and windows,

- `FirmTyped`, the types of the nine components;
- `ChecksAreKept` (`ChecksHold`) from `LimitInv`, `HookInv`, `AiInv` and `ApiInv`: of a kind whose requests never
  overlapped and whose limit never moved one request is on its way, and what it was told still holds, over what came
  in unasked (`RoomInPlan`, with `UncheckedCounted` and `OneHolds`); a webhook's creation on its way was told that
  there is room and nobody took it since (`RoomKept`), a delivery never overtaken knows the counter of the row
  (`CountKnown`); whoever is about to make a trust's entity is alone and no analysis has made one (`TrustsCounted`).
  Of windows (`WindowsTell`, `WindowsAgree`): whatever still counts by the newest clock is in the sorted set,
  whichever clocks cleaned it, so a script that runs with a clock up to `Lag` old counts all it has to, and no stretch
  of the window's length, less `Lag`, comes to hold more than the limit (`KeptWithin`);
- `ConnectionIsHonest` and `ListedIsPushedOnce` by `SyncInv`: the copy a fresh call holds is the row (`CopiesAgree`),
  a map lists only what was pushed (`MapsTrue`), states are numbered as they are made and each is spent at most once
  (`StatesCounted`, `StatesSpent`), a connected row has tokens and a disconnected one none or the last lapse says why
  not (`TokensTold`), and who synchronises had read tokens (`TokensRead`).

**Only model-checked.** Liveness under fairness (`OverdueIsNoticed`, `ReminderGoesOut`, `EveryRequestEnds`) and
`ENABLED` (`PreconditionsSuffice`) are outside what the prover handles. Every other property of a passing run is a
theorem.

## 5. What is not modelled, and why

Whole parts:

- **the realtime gateway, caches and request limits**: notifications to browsers and copies bounded by a TTL; nothing
  durable depends on them, and what they lose is reread;
- **request validation and middleware**: checks of one request over its token, headers and body, with no state that
  evolves; the modules take the requests that pass;
- **reports, search, branding and storage**: queries, rendering and object storage without a protocol of their own;
- **frontends, infrastructure, scripts**: the server checks every request again, so a browser is an arbitrary client.

Within the modelled components:

- tasks: assignment, titles and dates, columns that no rule reads, and the settings of milestones; the priority, by
  which closing counts, is in Matters;
- deadlines: the calendar, which only reads;
- documents: bulk download, whose state is Celery's, and presigned URLs, which are the store's;
- signatures: who signs and in which order, which DocuSign decides;
- property: links between documents and assets, amounts and titles; communications: `visible_to`, a filter on reading;
- firms: `update_firm`, whose columns decide nothing;
- integrations: pulling matters and contacts from Clio and the mapping of their fields, a loop of upserts by the
  provider's data with no check of its own;
- the AI features: what the language model answers is an input, and the rows of feedback are read by nothing;
- events: their publication on Redis, and row-level security, a filter below every query;
- the row of a subscription: the counters of use that `sync_usage_counts` refreshes, which no decision reads, and
  billing periods;
- code that nothing calls: `dispatch_event` of the webhooks, `get_api_key_usage`, the processing of an export, which
  no endpoint dispatches.

What a model of an overlap leaves to chance is what PostgreSQL's READ COMMITTED leaves to chance: a statement sees the
committed rows of its moment. Within one statement a module is atomic. Two assumptions are about what is outside: the
clocks of processes are one clock, read at most `Lag` before Redis runs a script; and the objects of Stripe's library
give an event's fields as attributes, as the handlers read them.
