# Formal models of the conference site

TLA+ models of the abstract-submission and conference-program system in this
repository: a FastAPI backend (`app/`), a Next.js frontend (`frontend/`),
PostgreSQL, an S3-compatible object store (Cloudflare R2) and the Postmark
e-mail API. Every definition is translated from the source; `PROJECT.json`
names, for each one, the lines it stands for.

- [Inventory](#inventory): the parts, their state, how they interact, what is hard
- [Hazards](#hazards): where it can go wrong, and what would notice
- [Modules](#modules): which module models which part, and how
- [Runs](#runs): what TLC checks, on which bounds, and what that shows
- [Proofs](#proofs): what TLAPS proves, from which assumptions, by which argument
- [Disagreements](#where-the-code-and-its-documentation-disagree) between code and documentation
- [Not modelled](#not-modelled) and [plan](#plan)

## Inventory

The backend is a set of stateless request handlers. Each request has a database
session of its own (`app/database.py`), PostgreSQL isolates transactions at READ
COMMITTED, `expire_on_commit=False` keeps loaded objects as they were, and no
handler locks a row before it writes one. A handler that raises is rolled back.
The only other active process is the e-mail worker, one task in every backend
process. Components therefore interact through tables, never by messages, except
for the two external services.

| Component | State | Operations that change it | What is hard about it |
|---|---|---|---|
| Status machine (`abstract_state_machine.py`, `models/submission.py`) | none: the table `TRANSITIONS` and the pure function `validate` | - | every other handler must respect it, and several bypass it |
| Submissions (`services/submission.py`) | `submissions` | create, delete, submit, confirm, withdraw, submit files, override, reassign, request a replacement | overrides skip the table of transitions and leave slot, decision and reviews alone |
| Reviews (`services/review.py`) | `reviews` | assign, unassign, submit | the first assignment moves the status; conflicts of interest are tested once |
| Decisions (`services/decision.py`) | `decisions` | record (an upsert), override | survive overrides of the status; may change under a slot |
| Notifications (`services/notifications.py`) | `decisions.notification_sent_at`, `email_jobs` | bulk notification | commits once per submission, from a list loaded before the first commit |
| Sessions and slots (`services/session_service.py`) | `sessions`, `session_slots` | create, update, delete; add, move, remove slots | status and slot change together; slots are renumbered by relative updates |
| Parallel blocks (`services/session_group_service.py`) | `session_groups` | create, update, add column, delete | shared start time, clamped end times, dissolution of single columns |
| Templates (`services/program_template.py`) | `program_templates` | save, import, apply, delete | applying inserts sessions without the room check |
| Program check (`check_program`) | none: a pure algorithm | - | gaps, overlaps and capacity over intervals |
| Files (`services/files.py`) | `attachments`, objects in the store | presign, confirm, delete | two stores and no transaction over both |
| E-mail worker (`workers/email_worker.py`) | `email_jobs` | fetch a batch, post, commit | several workers, crashes, lost answers, retries |
| Accounts (`services/auth.py`, `dependencies/auth.py`) | `users` | register, verify, recover, change, delete | deleting an account with pending work |
| Settings and types (`routers/admin.py`, `services/type_config.py`) | `conference_settings` | patch, reset of all data | a type is removed while it comes into use; every save sends every field, read in the zone of the browser |
| E-mail texts (`routers/admin.py`), broadcast (`services/broadcast.py`) | `email_templates`, `email_jobs` | save a text; preview and send | the audience is chosen again when the mail is sent |
| Session of the browser (`frontend/lib/api.ts`, `lib/auth.tsx`) | tokens in memory, `localStorage` and a cookie, the user shown | sign in, sign out, refresh, reload, in several tabs | refreshes and sign-outs overlap; the storage is shared, the memory is not |
| Permissions (`frontend/lib/permissions.ts`, layouts, `app/permissions.py`) | none | - | browser and server decide separately |
| Pages (`frontend/app/`, `components/`) | copies of server rows, forms, requests on their way | the buttons of each page | acts on rows that are out of date; answers come in any order |

What makes each of them correct, as far as it is stated below. A submission is in
the program exactly while its status says so; whoever answers was notified of a
decision; only accepted submissions enter a session; nobody reviews their own
work; slots keep the order the chair gave them; no room is booked twice and a block
keeps its columns together; the check of the program reports what is wrong with it;
a document has its row and its object; a message goes out once, or the books say
why not. Whoever signed out stays signed out; a page offers what the server will
grant, shows what the server has once everything is answered, and destroys only what
it named. And none of it breaks when requests overlap, beyond causes that are named.

## Hazards

`PROJECT.json` lists under `hazards` where in the code each of these can go wrong,
each with the properties that would notice. Most are of one of these shapes:

- *Read, then write, nothing locked.* READ COMMITTED and no version columns: the room
  check, the count of slots, the guard against removing a type, the last document, the last
  administrator, the dissolution of a block, the list of a bulk notification.
- *Two stores, no transaction over both.* Rows and objects; the commit and the post of an
  e-mail; a refresh token in `localStorage`, in a cookie and in the memory of a tab.
- *Answers out of order.* Every page patches or replaces its copy by the answer that
  came last, which need not be the newest.
- *Rules written twice.* The table of transitions in the server and in the buttons; the
  permissions in the browser, in its layouts and in the server; the schema of a form and the nulls
  of the API.
- *A failure in the middle of several steps*: bulk notification, uploads of several
  files, a reset, an e-mail batch.
- *Boundaries*: end times at midnight, renumbering of slots, intervals that touch, contain each
  other or last no time.

## Modules

| Part of the system | Specification | Contract it implements | Proofs | Composed for TLC in |
|---|---|---|---|---|
| Status machine | `AbstractStateMachine` | | | |
| Life of an abstract, over all handlers | `AbstractLifecycle` | `SubmissionContract` | `AbstractLifecycleProofs` | `MCLifecycle` |
| Slots of one session | `SessionSlots` | `Agenda` | `SessionSlotsProofs` | `MCProgram` |
| Overlapping requests | `ConcurrentRequests` | | `ConcurrentRequestsProofs` | `MCRequests` |
| E-mail worker | `EmailWorker` | `DeliveryContract` | `DocumentAndMailProofs` | `MCEmailWorker` |
| Rooms, times, parallel blocks | `ProgramSchedule` | | `ProgramScheduleProofs` | `MCProgram` |
| Check of the program | `ProgramCheck` | hour by hour, in the module | `ProgramScheduleProofs` | `MCProgram` |
| Documents in two stores | `FileStorage` | | `DocumentAndMailProofs` | `MCDocuments` |
| Session of the browser | `BrowserSession` | | `BrowserProofs` | `MCBrowser` |
| Routes and permissions, links in e-mails | `Navigation`, `EmailLinks` | | `BrowserProofs` | `MCBrowser` |
| Pages of an author | `AuthorPages`, `UploadWizard`, `AbstractForm` | | `DocumentAndMailProofs` | `MCDocuments` |
| Pages the program is made on | `SessionEditor`, `SessionsPage`, `TemplatesPage` | | `ProgramPageProofs` | `MCCommittee` |
| Other pages of the committee | `ReviewPages`, `AbstractDesk`, `CommitteeMail`, `EmailTemplatesPage` | | `CommitteeProofs` | `MCCommittee` |
| Pages of administrators | `SettingsForm`, `SettingsDeadlines`, `AccountsTable` | | `CommitteeProofs` | `MCCommittee` |
| Statements of the documentation | `LifecycleClaims`, `RequestClaims` | | | |

### AbstractStateMachine

`TRANSITIONS`, and `Validate` with the roles and deadlines of each edge, in the
order in which `validate()` looks at them. The clock is not modelled: `late` is
the set of deadlines that have passed, an input of each call. The module has no
variables; `AbstractLifecycle` and `ConcurrentRequests` extend it.

### AbstractLifecycle

One action is one handler that commits, with every write of it: `AssignReviewer`
inserts the review and moves the status, `RecordDecision` upserts the decision
and moves the status, `Withdraw` deletes the slot. A refusal is an action that
is not enabled, since a handler that raises leaves no trace. Handlers run one at
a time; that abstraction is lifted in `ConcurrentRequests`.

| Variable | Code |
|---|---|
| `status`, `author` | `submissions.status`, `.presenting_author_id`; `"absent"` for no row |
| `documents` | how many `abstract_document` attachments there are |
| `review` | `reviews`, per submission and person |
| `decision`, `notified` | `decisions.outcome`, whether `notification_sent_at` is set |
| `slot`, `sessionType` | `session_slots.submission_id`, `sessions.session_type` |
| `overrides` | which override actions the audit log holds for a submission |
| `log`, `mail` | the rows the last request inserted in `audit_logs` and `email_jobs` |

`BulkNotify(done, role)` stands for a run that got through `done`, any part of
`ToNotify`: each turn of the loop commits by itself, so a run that dies leaves
the rest. `DeleteSessions` stands for `delete_session` (one) and `delete_group`
(several). `ResetAllData` and `DeleteUser` are the administrator's. Which session types hold
slots is a constant: a save of the settings may also take `has_slots` from a type in
use (`admin.py:175` compares keys only), after which sessions of that type keep slots a time
block cannot have. `SlotSessionHoldsSlots` says nothing of that.

`SubmissionContract` is what the status column of one submission promises to
somebody who sees only the status, whether it is placed, and the audit log:
every step is an edge of `TRANSITIONS` that frees or takes a slot where it should,
or a return to "decided" with the slot released before anybody was told, or is
accounted for by an audit row that names both ends, or creates or deletes the row.

### SessionSlots

The rows of one session and their `slot_order`. `AddSlot`, `RemoveSlot` and
`MoveSlot` renumber exactly as the three range updates of
`session_service.py` do; `WithdrawSlot` is the deletion in
`transition_submission`, which renumbers nothing; `UpdateMaxSlots` sets
`max_slots`, which nothing compares with the slots there are. Requests may name
any order. `Agenda` is the abstraction: the slots as a list, in which a request
inserts, removes or moves one element and the others keep their order. The requests of
this module do not overlap. Overlapping ones do break the numbering: two additions at the
same place do not see each other's row and share an order, and a slot removed twice closes
its gap twice. `SessionEditor` has the second and not the first.

### ConcurrentRequests

What `AbstractLifecycle` leaves out. A request arrives, loads rows and statuses
with one step per query, and commits with one step. The commit of a handler
locks the rows it writes until its end and nothing it wrote is visible before, so
a single step is what other transactions see of it. What it writes is computed
from what was loaded, as in the code: `seenStatus` and `seenRows` are the objects
in the identity map of the request, which neither a later query nor the commits
inside `bulk_notify_decisions` refresh. The constraints of the database take part:
the partial unique index on `session_slots.submission_id`, and the foreign key
with its cascade. `dirty` is a history variable: some commit so far was computed
from a value that had changed since it was loaded.

Modelled are the handlers around the slots of a session: assigning, removing a
slot, deleting the session, withdrawing, confirming, submitting files, asking for a
replacement, bulk notification. `Refuse` is every way a request ends without a commit,
and is always possible: a guard, a constraint, a deadlock detected by the database, a crash.

### EmailWorker

Every worker fetches a batch (`FOR UPDATE SKIP LOCKED`, oldest first), posts each
job, and commits the results of the batch at once. `SendFailed(w, j, accepted)`
covers refusals and posts whose answer was lost or came too late, in which case
the provider has the message. `AbortBatch` is a crash, a shutdown or a lost
connection at any point. `copies` counts acceptances by the provider and `doubts`
those the worker could not record; neither exists in the code.
`DeliveryContract` is the life of one job as its sender sees it.

### ProgramSchedule

Where the sessions are: `placed` holds day, start, end, room and group of each
row of `sessions`, `head` day and start of each row of `session_groups`. A request
is *received* (the handler loads what it works on; of a block to be moved or cleared only the head,
since `_load_group` fetches the columns by a query of its own, `LoadColumns`, and
another request may commit between the two), *looks* (`CheckOverlap` is
`_check_overlap`; `CountRemaining` deletes the session and reads the other columns)
and *commits*; nothing is locked in between, except by the uncommitted deletion.
`Written` is the unit of work of the ORM: only columns that differ from what was loaded are
written, so two handlers merge column by column. `Stale` is an `UPDATE` that
finds no row, or the foreign key of a new column. `AddMinutes` clamps at 23:59
in both directions, as `_add_minutes` does. History variables name the causes a
property has to except: `unchecked` (placed by a template, by a commit whose
check was outdated, or stretched by a move), `clamped`, `crossed` (which two kinds of
request overlapped on a block) and `leftover` (a reset deletes sessions and
not groups). A move that another move commits into between its two queries holds the old
head and the new columns, and may leave the head where it is and the columns elsewhere: `Doing` gives
such a move a kind of its own, which `BlocksHold` excepts, while two moves that crossed after both
had loaded everything are no exception.

### ProgramCheck

`check_program` for one day: the sort, the running end of the gaps, the nested
loop over overlaps with its early exit; stated against coverage hour by hour,
checked for every program of up to three sessions and proved for any number.

### FileStorage

`attachments` (rows) and `objects` (the bucket). Each handler is cut where
it can be interrupted: the statements that read, the call to the bucket, the
commit. An upload is the URL, the browser's PUT and `confirm_upload`; deletions
of an attachment, of a submission and of everything each have the order of the
code, which differs: object then row, rows then objects, rows then whatever the
bucket lists. `excused` collects the keys whose stores a named step left apart.

### BrowserSession

One browser with several tabs. `stored` and `cookie` are shared, `access`, `user`
and `loading` belong to a tab. A call is a chain of requests of `api.ts`: a
request that is answered 401 refreshes and is repeated once, `login` is followed by
`/auth/me`, and so on; every answer is an action of its own and may come after
anything else has happened, including the reload of its tab. A token is
abstracted to the account it was issued for. `Cookies` says whether the browser keeps the cookie
of the API's site, which third-party blocking prevents.

### Navigation and EmailLinks

`Navigation` translates `permissions.ts`, the redirects of the layouts, the links
of navigation bar, sidebar and overview, and the guards of the routers each page calls, for all
combinations of role, reviewer and Admin Viewer flags and verification. `EmailLinks` is the verification page,
the reset form and the two forms that ask for an e-mail: what the page says against
the row of the user. Only the links of the navigation bar, the sidebar, the overview and the list of
sessions are followed, for the user the browser shows; a role that was changed since the user was asked
for is not. When `/auth/me` fails after a refresh, `me()` reads the user off the access
token, which says nothing of the verification and counts as unverified (`FromToken`). So the page may
say that an address is confirmed while the banner asks to confirm it; `BannerGoes` excepts that case.

### The pages

All page modules have one shape. Variables of the server (rows and how often they
changed), variables of the page (named after its React state), and the requests
on their way. A click begins a request if its button is there and
enabled *by the page's copy*; the server serves it some time later, by the rules of
its handler, on the rows there are; the answer is shown some time after that, in any
order. Requests fail before or after their effect. Where the answer of a handler is made of
objects it had loaded before its commit (`expire_on_commit=False` and no `populate_existing`), the
request carries those objects from its `Load` to its answer.

Other people change rows meanwhile in `AuthorPages` (the committee), `SessionsPage` (abstracts
are notified or confirmed), `ReviewPages`, `SettingsForm`, `SettingsDeadlines`, `AccountsTable` (another administrator) and `CommitteeMail`
(the recipients). `SessionEditor`, `AbstractDesk`, `TemplatesPage` and `EmailTemplatesPage` follow the overlapping requests
of one page and nobody else.

| Module | Page | What it follows |
|---|---|---|
| `AuthorPages` | dashboard and page of an abstract, `action-buttons.tsx`, `attachments-card.tsx` | offers against `validate()`, overlapping clicks and uploads |
| `UploadWizard` | upload of the final files | the loop over a list that changes while it runs |
| `AbstractForm` | new, edit, and the administrator's edit | nulls of the API in the schema of the form, one draft per form |
| `SessionEditor` | one session | the line-up replaced by every answer, the list of submissions to add |
| `SessionsPage` | sessions and blocks, `delete-session-dialog.tsx` | publication, the impact of a deletion against its effect |
| `SettingsForm` | settings | forms saved whole, the guard against removing a type in use |
| `SettingsDeadlines` | settings, a deadline | shown as UTC, read as local time, sent with every save by administrators in different zones |
| `AccountsTable` | accounts | single-field changes from two administrators, the last administrator |
| `ReviewPages` | matrix of reviewers, reviewers of one abstract | cells toggled at once, deletion of submitted feedback |
| `AbstractDesk` | the committee's page of an abstract | decision, overrides, presenter and session card at once |
| `CommitteeMail` | broadcast | the previewed audience against the one written to |
| `TemplatesPage` | program templates | dialogs closed and opened again while a request runs |
| `EmailTemplatesPage` | texts of the mails | one flag for several cards |

Where the answers come from, and what the properties except because of it:

- `AuthorPages`: a request is *loaded* and checked (`Load`), committed (`Commit`) and heard (`Hear`). A
  confirmation and a withdrawal sent at once are both checked on the notified row and both accepted;
  the later commit stands, and `raced` marks the abstract: the page shows whichever answer came last.
  `decided` says which abstracts have a row in `decisions`; such an abstract cannot be deleted, and a draft
  is one of them after a status override, although the buttons offer to delete it.
- `SessionEditor`: a slot has a row with an order, and is loaded (`Load`), written (`Commit`, a range
  update and its commit in one step) and read again for the answer (`ReadBack`). `update_session` answers with the session as it was
  loaded, so the answer to a publish is older than any change that was committed meanwhile. A moved slot is answered at the order its own
  request gave it, even if another request has renumbered it since (`mixed`). `LineupShown` excepts both. The panel of a slot sends an
  order; an empty one, which the code turns into a number of its own, is not modelled.
- `AbstractDesk`: `LoadRow`, `LoadVerdict` for the operations that read the decision, `CommitErrand`, and after a decision the separate
  request for the row (`AskForRow`, `ReadRow`). A column equal to what was loaded is not written. The answer is the row as loaded with the
  request's own change: if another request changed the row in between, the answer brings the old value back onto the page (`mixed`).
  `DeskSettles` excepts that, answers in another order than the changes, and changes the page is not told of.
- `SettingsForm`: `OpenUnread` is the page whose settings did not arrive: it shows the form with empty lists, and Save is enabled.
  A save from it is refused as a removal although nothing was removed; `RenamesAccepted` excepts it. A list equal to the stored one is written
  again here and not by the ORM, which no property can tell apart.
- `AccountsTable`: `LoadAccount`, `Perform` (only the field that differs is written) and `Refresh`, after which the answer is the row as of then.
- `AbstractForm`: after a draft was created the page changes, and for the moment until it has, its button is enabled
  again; that moment is not modelled.

## Runs

Each of `MCProgram`, `MCBrowser`, `MCDocuments` and `MCCommittee` puts several
independent specifications in one run: which of them moves is chosen in the initial
state and kept, the others stay as they began. Symmetry sets are used only with safety
properties.

| Run | Question | Bounds | States |
|---|---|---|---|
| `lifecycle_one` | Do status, slot, decision, reviews and e-mail stay consistent under every handler and every override? | 1 submission, 2 people of whom 1 reviews, 1 session, 3 session types (one without slots), 2 outcomes, 2 documents; overrides to every status and outcome | 112k |
| `lifecycle_two` | And when handlers touch several submissions at once, or stop half-way? | 2 submissions, 2 sessions, no overrides | 151k |
| `program` | Does the renumbering of slots keep the list; are rooms booked once and blocks kept together; is the check of a day right? | 4 slots, requested orders -1..6, `max_slots` 0, 2, 4; 3 sessions, 1 block, 1 room, minutes 0..2, 3 requests of which 2 at once; days of 3 sessions within 4 hours | 0.5M |
| `requests` | What can overlapping requests break, and what not? | 2 requests at a time, 2 submissions, 4 rows, a session with 1 slot | 1.1M |
| `email` | Is every job delivered, once, and eventually settled? | 3 jobs, 2 workers, batches of 1, 2 attempts, 1 rollback | 178k |
| `browser` | Does a sign-out last, does a tab act as what it shows; can everybody go where links lead; do the pages behind e-mail links tell the truth? | 2 tabs, 2 accounts, 3 calls, 1 fault; all kinds of user on all pages; 2 tries on the pages of the links | 1.56M |
| `documents` | Do the author's pages offer what is granted and end up with what was filed; do the two stores agree? | 2 abstracts, 2 documents, 2 clicks; 2 files, 4 uploads; 3 edits; 3 uploads to 1 abstract in the stores | 1.02M |
| `committee` | Do the committee's pages show what there is and destroy only what they named? | 3 operations per page, 2 editors; 2 saves from 2 zones of a deadline | 2.15M |
| `claim_*` | Does a statement of the documentation hold? | as the run of the same module | |

The properties, by run:

- `lifecycle_one`: `ScheduledIffSlotted` (a submission is in a slot exactly while
  its status says so), `DecisionFirst` (a slot, or a status past the committee,
  has a decision, whichever it is by now), `SlotSessionHoldsSlots`,
  `ReviewedAfterSubmission`, `MailJustified` (what the e-mails say), `MismatchHasCause`
  (how a submission gets into a session of another type than its decision),
  `SelfReviewOnlyByReassignment`, `ContractKept` (the refinement), and `TypeOK`. That an old
  notification stamp does not vouch for a decision recorded since is not among them, and is not so.
- `lifecycle_two`: `ScheduledIffSlotted` where one handler works on two submissions, and
  `AnsweredAfterNotification` where a bulk notification stops after the first of them.
- `program`: `DistinctOrders`, `GapHasCause`, `ListKept` (the refinement) for the slots;
  `NoDoubleBooking` and `BlocksHold` for rooms and blocks; `DayChecked`.
- `requests`: `UniquePlacement`, `ConsistentUnlessStale`, `LegalUnlessStale`:
  everything the sequential model promises and overlapping requests break has one
  cause, a commit computed from an outdated read. Comparing at the commit what was
  loaded (a version column, or `SELECT ... FOR UPDATE`) would therefore be a complete remedy.
- `email`: `DuplicatesExplained`, `PendingIsRetried`, `DeliveryKept` (the
  refinement), and `Settled`, the only liveness property.
- `browser`: `SignOutLasts`, `ShownTruly`, `Permitted`, `LinksTold`.
- `documents`: `OfferedIsGranted`, `FilingSettles`, `UploadsAreRecorded`, `FormAnswers`
  (every press is answered by one draft or by a message), `StoresAgree`, `SubmittedHasDocument`.
- `committee`: `PagesSettle` (once nothing is on its way a page shows what there is),
  `NothingLostUnnamed`, `AdministrationKept`, `DoneAsConfirmed`.

Properties of pages have exceptions, and each names the one thing in the code that
defeats it: most often an answer older than what the page already showed. Each
is there because TLC, or a proof that failed, showed the case.

Why the bounds are enough to be interesting. In `lifecycle_one` one submission
meets every action, including retyping the session it is in, to a time block or to another
type with slots; what two submissions
add is that one request works on both, which is `lifecycle_two`: deleting a
session with two slots in different states, a bulk notification that covers one
of two. Two people suffice for a presenter who is and who is not a reviewer. In
the line-up, orders below, inside and above the range of existing slots are all
requested. In `requests`, two requests overlap while others came before and come
after, so each pair of handlers meets in every order of their statements from
every state the tables can reach; one slot makes the limit bite with two
submissions. In `email`, three jobs make the younger wait, two attempts
make a job fail, and one rollback duplicates one. In `browser`, three calls are a sign-in, a sign-out and a refresh
in two tabs, in any order of their answers. On the pages, three operations are two that overlap
and a third that meets what they left. In the schedule, the initial states are an empty program and one
with a block of all sessions, so that three requests reach a move back, a deletion
of two columns, or an edit between two moves; three minutes have a boundary
at midnight. Larger numbers of everything are covered for safety by the proofs, where there are any.
The bounds that cut behaviours are guards: `MaxDocuments`, `MaxOrder`, `MaxAborts`,
`Row`, `MaxCalls`, `MaxFaults`, `MaxTries`, `MaxClicks`, `MaxUploads`, `MaxEdits`, `MaxSteps`,
`MaxActs`, `MaxTyping`, `MaxSaves`, `MaxChanges`, `MaxToggles`, `MaxDeskOps`, `MaxMails`,
`MaxOrders`, `MaxPuts`, `MaxSends`, `MaxRequests`, `MaxAtOnce`, and `MaxLabel`, the length of a label.

The three runs with pages and `program` say `CHECK_DEADLOCK FALSE`: a browser may be left
alone, and the bounds run out.

Fairness. `Settled` assumes weak fairness of fetching, attempting and committing
for each worker. `run_worker` is an infinite loop that survives every exception
of a batch and sleeps a bounded time, each post has a timeout of 15 seconds, and
a transaction either commits or ends, so a worker that can move does. Nothing is
assumed of the provider, which may refuse a message for ever, nor that requests
arrive. A process that is stopped for good is not covered; a restart is an
`AbortBatch`. With unboundedly many rollbacks a job could be retried for ever,
since `retry_count` is rolled back too: this is why `MaxAborts` matters to this property, and
the reason to call the bound an assumption there: crashes end eventually.

## Proofs

TLAPS proves, for every value of the constants that satisfies the assumptions:

| Module | Theorems | Argument |
|---|---|---|
| `AbstractLifecycleProofs` | `TypeCorrect`, `TablesConsistent` and the invariants of `lifecycle_one` | `TablesInv` is inductive |
| | `MismatchIsCaused`, `SelfReviewIsReassigned`, `LifecycleKeepsContract` (refinement) | each action from `TablesInv` |
| `SessionSlotsProofs` | `TypeCorrect`, `OrdersStayDistinct`, `GapsAreExplained`, `ListIsKept` (refinement) | `DistinctOrders` is inductive; a case split on where two slots lie in the range that is updated |
| `ConcurrentRequestsProofs` | `TypeCorrect`, `PlacementIsUnique`, `RequestsConsistent`, `DisagreementIsStale`, `LegalOrStale` | `RequestsInv` is inductive |
| `ProgramScheduleProofs` | `ScheduleTyped`, `RoomsAreBookedOnce`, `BlocksStayTogether` | `ScheduleInv` is inductive, and with it `BlocksInv` |
| | `DayIsChecked` | induction over the sessions of the day in order |
| | `ProgramFollowsParts`, `ProgramKeepsAll` | the run's specification implies each part's |
| `BrowserProofs` | `TypeCorrect`, `SignOutIsLasting`, `SessionIsShownTruly` | `SessionInv` is inductive |
| | `WhereUsersMayGo`, `LinksTellTheTruth` | `NavInv` and a walk through the tables of routes; `LinkInv` |
| | `BrowserFollowsParts`, `BrowserKeepsAll` | the run's specification implies each part's |
| `DocumentAndMailProofs` | `FilingIsShown`, `UploadsAreTold`, `FormsAnswer` | `AuthorInv`, `UploadInv`, `FormInv` are inductive |
| | `StoresAreInStep`, `DocumentRemains` | `FilesInv` is inductive |
| | `DocumentsFollowParts`, `DocumentsKeepAll` | the run's specification implies each part's |
| | `TypeCorrect`, `QueueConsistent`, `DuplicatesAreExplained`, `PendingAreRetried`, `DeliveryIsKept` (refinement) of `EmailWorker` | `WorkerInv` is inductive |
| `ProgramPageProofs` | `LineupIsShown`, `SessionsAreShown`, `TemplatesAreListed` | `EditorInv`, `SessionsInv`, `TemplatesInv` are inductive |
| `CommitteeProofs` | `AdministratorRemains`, `UsedTypesStay`, `ReviewsAreShown`, `DeskIsCurrent`, `SentAsPreviewed`, `TextsKnown`, `DeadlineAsMeant` | an inductive invariant for each page |
| | `CommitteeFollowsPages`, `EveryPageSettles`, `WhatIsLostWasNamed`, `AdministrationIsKept`, `ConfirmedIsDone` | the run's specification implies each page's |

- **TablesInv.** `ScheduledIffSlotted` alone is not inductive: reusing an identifier
  needs `AbsentIsBlank`, notifying needs `DecisionFirst` to know that there is a
  decision to stamp, and a rejection e-mail can be traced to an override only with
  `PlacedIsAccepted`, which says that what was placed without an override was accepted.
- **RequestsInv.** While no commit was outdated, status and slots agree and the
  limit is kept. A step keeps this because of what each request has loaded:
  `LoadedForTargets` (slots were loaded for the submissions the request works on),
  `NotifiesAssigned` (a bulk notification holds what it found at
  assigned_to_session) and `StillToLoad` (which queries are left). The lemmas
  `RemovalIsExact`, `DeletionIsExact`, `WithdrawalIsExact` and so on say that a commit
  that is not outdated does to the current tables what the handler means to do.
- **WorkerInv.** The books of one message: what the provider accepted is what is in
  doubt, plus one if the job is sent or a batch is about to say so.
  This needs that a row belongs to one batch at most (the skipped locks) and
  that a batch has results only for rows it attempted.
- **ScheduleInv.** A booking is decided by a look (`LookedIsFree`: when a handler has
  looked and nobody met it since, the room is free where it will place its
  sessions) at what it loaded (`LoadedIsCurrent`). The hard case is a move: each column is looked at against where the *others of its block have been*,
  not where they will be. It is sound because columns start together: two that hold one room after the move
  held it before, from the minute the block started (`MovedHeldBefore`). A column that
  did not start with its block, because it was added while the block was
  moved, escapes that argument, and a second move can then book a room twice. That takes
  five requests, beyond the bound of the run, and came up as an obligation that could not be proved; the property now
  excepts such columns (`Stretched`).
- **BlocksInv.** What a pending handler knows of its block, so that its commit leaves the
  block whole. The identifiers it will create are new (`IdsAreFree`, `NewTo`); a
  session it loaded stays in the block as long as there is the block (`StaysInBlock`); a move
  that has loaded the head only knows the block's start, and once it has the columns it knows every
  one of them, aligned with that start, unless an addition or a move has
  crossed it, the latter perhaps between its two queries (`KnowsBlock`), an edit or a move knows the columns as they are
  unless one of these has crossed it (`KnowsColumns`); and the columns a deletion has
  counted are there when it commits unless another deletion has crossed
  it (`CountIsCurrent`). `BlocksHold` alone is not inductive: it says nothing of
  what the handlers at work have loaded.
- **DayIsChecked.** An induction over data. The library's induction theorems cannot be
  used, since they take an operator; but the least element of a set of numbers can be had from the
  well-foundedness of < (`LeastOf`), and with it what holds of 0 and is passed on holds of every
  number (`UpTo`). So finitely many sessions can be sorted (`CanBeSorted`), and the loop that
  merges intervals keeps `SpansFit`: the spans are disjoint and in order, filled, bounded by
  sessions, and every session met lies in one. This is where "no session ends
  before it starts" is needed. For the overlaps, the loop that stops early misses nothing, because
  between two sessions in order none starts after the first has ended (`LoopsFind`).
- **FilesInv.** Which store may be ahead of the other at each step of an upload, a
  deletion and a reset: a key is uploaded before anything else happens to it
  (`UploadComesFirst`), a deletion of a submission has captured its keys or
  they are excused (`RemovalsCapture`), and from a reset on every row is excused
  and every object listed or newer (`ResetEmpties`). For the documents: while the
  requests for an abstract do not overlap, at most one deletion is under way and
  not together with the submission (`OneAtATime`), so what it checked still holds (`CheckedHolds`).
- **SessionInv.** After a sign-out no call that could bring a token back is left
  (`NothingReturns`), as long as only one account was in the browser every token
  anywhere is of that account (`OneAccount`), and a spinner has its request (`LoadingIsAwaited`).
- **The pages.** "Once nothing is on its way the page shows what there is" says nothing
  of the time before, so every page's invariant says who will still bring what is
  missing, in one of three shapes. Where answers carry a whole row, copies are dated: an answer of
  the current edition *is* the current row, unless it was made of older objects (`mixed`), and the newest is shown or on its way
  (`EditionsTell`, `NewestIsKnown`, `PageFollows`, `ListsHold`). Where answers carry one change, the page
  and the server differ by exactly the changes that were carried out and not heard
  of (`ReviewsFollow`, `DocsFollow`, `TextFollowed`, `OffersFollow`). And where a list is asked for in two
  parts, `SessionsInv` dates the last change of every item (`ListFollows(c)`, for some `c`):
  an item changed since the page's copy was read has a request that will bring it
  (`Promises`), and a partial answer is true of whatever has not changed since (`Honest`).
- **Nothing lost unnamed, done as confirmed.** What a dialog names must still be so when the
  button below it is pressed: `FateFollows` (the impact on its way, in the dialog and in
  the deletion covers the abstracts that have advanced), `CallFollows` (a reviewer whose
  review was done is unassigned only after the warning), `PreviewCounts`, `OneSending`, `OneAtATime`.
- **Administration.** An administrator remains because nobody changes their own role and
  what is about to be written was allowed to an administrator (`OthersAreChanged`, `AllowedByAdmin`):
  the last one could only be removed by another one. `FormKnows` says which
  keys a settings form is sure to contain, whatever was typed in it, for labels of any
  length; `FieldIsDeadline` and `SaveIsMeant` follow a date from the field through the request to the row.
- **LinkInv, NavInv.** The answers on their way are true, or decoded from the token and say nothing (`AnswersHold`); a user is
  somewhere in the map (`Places`), so `Permitted` is a statement about each role and page.
- **AuthorInv, UploadInv.** As long as no status was written over another one than was checked, every request
  that is loaded or answered agrees with the row (`StatusFollows`); and while nothing crosses, the requests on an abstract are of one kind
  (`OneKind`) and an upload is of a document nothing else is about (`UploadsFresh`). The loop of the wizard
  runs over the list as it was at the press: `Aligned` says that it is still the same list, entry by entry,
  `LoopKnows` that what it has passed was recorded.
- **Composition.** In each run with several parts one part moves and the others are
  closed. `ProgramFollowsParts`, `BrowserFollowsParts`, `DocumentsFollowParts` and `CommitteeFollowsPages` say that every behaviour of the run is a
  behaviour of each part's own specification, so that what is proved of a part, for any constants, is a property of the run.
- **Assumptions.** `ConfigurationAssumption`: an outcome that is also a session type with
  slots is an acceptance, as the seeded configuration has it; nothing in the code enforces
  it. `SlotsAssumption`: orders and limits are integers. `RequestsAssumption`:
  the limit is a natural number. `WorkerAssumption`: the queue is finite,
  attempts and batches are at least one. `ScheduleAssumption`: there are finitely many sessions, at
  least one day, the day has a last minute, a block begins with at least two columns. `CheckAssumption`: a day has finitely
  many sessions. `FileAssumption`:
  a storage key names its submission. `SessionAssumption`: no account is called "none". `DeadlineAssumption`: hours and offsets are integers.
  `AccountsAssumption`: there is an administrator to begin with, as the seed makes one. `SessionsAssumption`: a session is single or
  a block, and no session is the value for none. `AuthorAssumption`: no abstract is called as a page is. `OriginalAssumption`: a wording that
  is typed is not the original one.

Two attempts at a proof corrected a model. `AuthorPages` let an upload bring an attachment whose
identifier a deletion on its way still carried; the server gives every attachment an identifier of its own, and
`Click` says so now. `SessionEditor` took out every slot with the item of the one that was removed; the code takes
out one row.

Only model-checked: `Settled`, since liveness under fairness is beyond the prover, and everything in the claims.

## Where the code and its documentation disagree

Checked by a run that ends in a counterexample:

- `claim_own_review`: a submission reassigned to one of its reviewers is reviewed by its own presenter (`README.md:26`).
- `claim_rejected_notified`: bulk notification never reaches rejected submissions (`README.md:40`, `:93`).
- `claim_full_refused`: two overlapping assignments exceed `max_slots` (`session_service.py:613`).
- `claim_revert_audited`: `remove_slot` reverts a submission notified meanwhile without an audit row (`session_service.py:490`).

Noticed while modelling, and described by guards and properties of the passing runs:

- A program chair may trigger the notifications (`abstract_state_machine.py:95`), which
  `tests/test_abstract_state_machine.py:130` denies.
- `record_decision` overwrites an existing decision where its docstring promises a
  409 (`decision.py:41`), after a status override even one that was announced.
- A submission with a decision cannot be deleted by anybody: the ORM nulls
  `decisions.submission_id`, a NOT NULL column (`submission.py:112`), where the comment expects the cascade.
- `override_decision` leaves a submission decided "rejected" in its session, which
  `session_service.py:656` rules out.
- Overlapping requests leave a submission at an advanced status without a slot
  (assigned while its session is deleted, or notified from an outdated list), and a
  withdrawn one in a slot (moved to another slot while it is withdrawn).
- `confirmation_deadline` is stored and shown, and compared with nothing.

In the program:

- `_check_overlap` reads with `scalar_one_or_none` (`session_service.py:57`): against two
  conflicting sessions it raises instead of answering 409. Both refuse.
- `delete_session` promises that a block "is dissolved so it never has a single lonely
  column"; two columns of a block of three deleted at the same time leave one
  (`BlocksHaveColumns` excepts it).
- `SessionUpdate` does not ask that the end is after the start, unlike the creation: sessions
  may be inverted, a move of their block turns the end into 23:59, the check of the program
  misreports gaps around them, and saving the program as a template fails validation.
- `update_group` compares each column with the old places of the others; see `ScheduleInv` above.
- `add_column` overlapping a move leaves a column that does not start with its block; so do two
  moves, one committed between the other's two queries.
- `reset_all_data` deletes sessions and leaves `session_groups`.

In the frontend:

- The notifications page offers to "Send … to all \"decided\" submissions"; the server
  takes those at assigned_to_session.
- "All times are in your local timezone" (`settings/page.tsx:262`): the field shows the UTC
  time without its zone (`:85`) and is sent as local time (`:138`), and every save sends all deadlines,
  so each save after a reload moves them by the offset of the browser (`DeadlinesKept` excepts it).
  An emptied deadline is left out of the request, and what is left out stays (`admin.py:177`): it
  cannot be removed.
- `permissions.ts` says that write controls stay gated by the base role; a program chair who is an
  Admin Viewer gets the controls of pages only administrators may use.
- The overview sends reviewers to the sessions page, whose blocks the server refuses them.
- The upload page swallows the error of the last step, `submitFiles` (`upload/page.tsx:125`).
- The buttons of `action-buttons.tsx` compare `loading` with keys it never holds, so
  none is disabled while its request is on its way.
- The dialog that deletes a session works when the request for its impact failed, without naming anything.
- The archive of documents is downloaded without the retry after a refresh.
- The settings page shows a form with empty lists when its settings could not be loaded
  (`settings/page.tsx:103`); saving it is refused as the removal of every type in use.
- A page that has just confirmed an address may ask to confirm it, when `/auth/me` was not
  answered and the user was read off the token (`api.ts:651`).
- The buttons of a draft offer to delete it even if it has a decision, which the server cannot.
- Confirming and withdrawing at once are both accepted; whichever is committed last stands.

## Not modelled

- Scores, comments, titles, the wording of e-mails, template rendering, listings,
  exports: data no property tells apart, or reads.
- Passwords, tokens and their signatures, expiry times; the one-time code of the reset.
- `scripts/`: `pg_dump` and `pg_restore` as subprocesses. `migrations/`: run once; the
  constraints they create are guards of the handlers.
- Time. Deadlines are inputs; no property depends on how long anything takes.
- What a template contains and how its dates are shifted when it is applied: arithmetic on
  dates. What applying does to rooms is `ApplyTemplate`.
- Pages that only read: the published program, presenters, audit log, decisions, documentation,
  the files of all abstracts; the form of a reviewer, one field and one request; the notifications page beyond what
  `bulk_notify_decisions` does; CSV downloads.
- The queue of toasts (five at most, the oldest goes) and everything else that is layout.

## Plan

What the project would gain most from next:

1. A contract for the pages: one abstract page (copy, requests, answers) that each
   module implements, so that the argument for `PagesSettle` is made once and proved.
2. The notifications page, and the reviewer's form.
3. `SettingsForm` with all three lists, and the other fields that every save of the form sends.
