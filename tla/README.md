# A TLA+ model of BYOS Email

BYOS ("bring your own storage") is an end-to-end encrypted mail system: a Go API, a
Go mail router and SMTP bridge for inbound mail, a Rust worker for outbound mail, a
Go storage worker that puts ciphertext into the customer's own object storage,
PostgreSQL for everything that is listed, Redis for rate limits, and web clients.
Several processes work on the same tables with short statements, most of them
outside a transaction, and every one of them may stop between two statements. The
web applications (webmail, the administrators' control plane, the support console)
are asynchronous as well: a handler runs from one `await` to the next, and anything
may happen in between. This directory models the parts where that matters, checks
them with TLC on small instances, and proves the main results for every instance
with TLAPS.

Paths in this file are relative to `src/`.

## 1. The system

### Components, their state and their operations

| component | code | state | operations |
|---|---|---|---|
| outbound API | `services/api/outbound.go`, `main.go` | `outbound_reservations`, `scheduled_messages`, `outbound_queue`, Redis counters | prepare, send, schedule, cancel, each with replay and expiry paths |
| outbound worker | `services/outbound-worker/src/main.rs` | the same tables, `delivery_log` | promote scheduled rows, expire them, deliver queue rows to Postfix, back off, bounce |
| bridge send | `services/api/bridge.go` | the same tables | the send of a local mail client: four statements without a transaction |
| inbound bridge | `services/inbound-bridge/main.go` | none but the SMTP session | Rspamd check, call of the router, SMTP reply |
| mail router | `services/mail-router/main.go` | `message_metadata`, advisory locks, `delivery_log`, objects | one goroutine per recipient: route, lock, duplicate check, store, insert; auto reply in the background |
| storage connections | `services/api/storage.go` | `storage_connections`, `google_drive_oauth_states` | create, rotate, disconnect, test, Google authorisation and callback |
| storage monitor | `services/api/storage_monitor.go` | `status`, `last_checked`, `error_message` of the connections | a tick every few minutes over all connections |
| storage worker | `services/storage-worker/main.go` | objects in the customer's or the default storage | resolve a mailbox's storage, store, delete, test, migrate |
| storage migration | `services/api/storage.go` | `storage_migrations`, `mailbox_storage` | copy, retry, cutover |
| attachments | `services/api/attachments.go`, `outbound.go` | `attachments` rows, objects | upload, delete, link to a sent or scheduled message |
| messages | `services/api/messages.go`, `search.go`, `tracking.go` | `message_metadata`, search tokens, tracking | import, folders, read state, deletion |
| mailboxes, invitations | `services/api/mailboxes.go`, `invitations.go`, `billing.go` | `mailboxes`, `account_invitations`, `aliases`, quota | invite, claim, delete, aliases, quota |
| sessions and login | `services/api/auth.go`, `sessions.go`, `two_factor.go`, `passkeys.go`, `security.go`, `janitor.go` | `sessions`, challenges | register, login, second factor, passkeys, revocation, cleaning |
| recovery and keys | `services/api/recovery.go`, `recovery_flow.go`, `root_rotation.go`, `devices.go`, `principals.go` | wrapped keys, archive of a wrapped key, verifiers, principals | reset, recovery, rotation, devices |
| roles, domains, settings | `services/api/rbac.go`, `domains.go`, `settings.go` | their tables | |
| drafts, contacts, folders, labels, filters, auto reply rules | `services/api/*.go` of these names | their tables, optimistic versions | |
| webmail: accounts | `apps/webmail/src/App.tsx`, `api.ts`, `components/AddMailboxModal.tsx`, `AccountSwitcher.tsx` | signals, `sessionStorage`, `localStorage`, cookie | mount, login, second factor, passkey, unlock, add, switch, logout of one or all |
| webmail: messages | `App.tsx`, `components/MessageList.tsx`, `MessageRow.tsx`, `Sidebar.tsx`, `InboxToolbar.tsx`, `ReadingPane.tsx` | messages, selection, pane, folders, labels, search | load, open and decrypt, move, undo, search, edit folders and labels |
| webmail: compose, contacts | `App.tsx`, `components/ComposeDrawer.tsx` | the form, its draft and attachments; contacts | attach, remove, save, send, schedule; add, edit, delete |
| webmail: import, settings, keys | `components/modals/ImportEmailsModal.tsx`, `routes/settings/*.tsx`, `routes/setup-account.tsx` | items of an import; tabs; wizard and dialogs | read, split, import; load and save; activate, reset, reactivate, export |
| control plane | `apps/control-plane/src/routes/dashboard/mailboxes.tsx`, `recovery.tsx`, `routes/onboarding/`, `lib/` | resources and forms of the pages | provision, rotate, enrol, buy |
| support console, admin API | `apps/support-crm/src/App.tsx`, `services/admin-api/` | organisations, audit log, stalled queue | suspend, resize, reset, intervene |
| crypto | `crypto-core/`, `packages/crypto-core/`, `crypto/` | none | HPKE, envelopes |
| tools | `tools/` | backup archives, IMAP session | backup, restore, verify, IMAP and SMTP bridge, export |

### How they interact

- The outbound API and the worker share three tables and nothing else: a message is
  handed over by a row, first `scheduled_messages`, then `outbound_queue`. Both
  consult the same Redis counters.
- Postfix calls the inbound bridge; the bridge calls Rspamd and the router over HTTP
  with a timeout of its own; the router calls the crypto worker and the storage
  worker, and writes PostgreSQL. The only thing the sending MTA sees is the SMTP
  reply, and it repeats the message until that is 250.
- The API, the router and the storage worker resolve the storage of a mailbox each
  in its own way from `mailbox_storage` and `storage_connections`.
- The connection handlers serialise on the row lock of the organisation. The monitor
  and the Google callback do not take it. A provider is tested outside every
  transaction.
- The pages call the API with `fetch` and share their signals: handlers that wait at
  the same time read and write the same form, list, token and key. Several browsers,
  tabs and administrators work on the same rows, some with versions (drafts,
  contacts), most without.

### What is hard

Row locks that end with their statement; decisions made on rows read earlier; two
stores (PostgreSQL and the object storage) written one after the other; requests
that end in the middle because the client, a timeout or the process is gone; retries
by the MTA, by the clients and by the worker; time limits shared by many calls;
answers applied to a page that has moved on; changes shown before they are made. The
list under `hazards` in `PROJECT.json` gives each of them with its line and the
properties that would catch it.

### What makes each component correct

| component | correctness |
|---|---|
| outbound | nothing accepted is lost; nothing is reported delivered that was not; duplicates only from crashes; the rate window holds; what is settled stays settled; what is scheduled settles |
| inbound | 250 only for what is stored everywhere; stored once; listed implies readable; everything gets through |
| storage connections | disconnection is final; a recorded health is about the recorded configuration; a provider that works is found working |
| placement and migration | a completed copy is complete; a switched mailbox finds what was copied; cutover once |
| attachments | a sent message keeps its attachments; what can be sent has its bytes; a deletion leaves none and can be repeated until it is done |
| webmail sessions | the key in memory belongs to the mailbox it unlocks; one sign-in at a time; an account is listed once; the loading screen and a logout end |
| webmail views | text, header and attachments belong together; only decrypted text is quoted; counts and lists agree |
| drafts, contacts, filters | no edit is overwritten unseen; what was removed stays removed |
| import | no line is lost in splitting; what is reported as stored is stored |
| keys of a mailbox | what is registered opens with what the user was shown; the public key belongs to the secret one; a reset alone recovers nothing |
| provisioning | the plan bounds aliases, and mailboxes up to the invitations counted at once; deleted mailboxes and their links stay dead; a page shows what it was told it did |
| support console | the audit log explains the row; a failed change is taken back |
| pricing | every seat is charged its bracket's rate once; the lines add up; the quote is for what is shown |
| identity on the server (planned) | a challenge is used once; a revoked session stays revoked |

## 2. Modules

| module | what it is |
|---|---|
| `Outbound` | outbound API, bridge send and worker on their shared tables |
| `InboxContract` | what inbound mail promises the MTA (abstract specification) |
| `Inbound` | SMTP session, router goroutines, auto reply; refines `InboxContract` |
| `Storage` | storage connections, their test, the Google callback, the monitor |
| `Placement` | mailbox to storage mapping, where objects go, migration and cutover |
| `Attachments` | upload, link, delete |
| `Session` | who is signed in to the webmail application, and whose key it holds |
| `MailView` | the message list, folders, labels, search, the reading pane |
| `Compose`, `AddressBook` | the compose form with attachments and drafts; the contacts dialog |
| `Import`, `MailSettings` | the import dialog; the settings tabs |
| `ArrayFilter` | `Array.prototype.filter`, used by `Session` and `Import` |
| `KeyRing` | the keys of a mailbox: activation, resets in several browsers, security tab |
| `Provisioning` | the administrators' mailbox page with the handlers of invitations, mailboxes and aliases |
| `Rotation` | the recovery page: phrase, enrolment, recovery, rotation, principals |
| `Pricing` | graduated price, calculator, checkout |
| `Crm` | the support console with the admin API's transactions |
| `MCWebmail`, `MCConsoles` | the parts above in one TLC instance each, see section 3 |
| other `MC*` | constants of the TLC instances and their symmetries |
| `ConsolesProofs` | theorems about `Crm`, `Provisioning`, `Pricing` and their composition in `MCConsoles` |
| `WebmailProofs` | theorems about the six webmail modules and their composition in `MCWebmail` |
| other `*Proofs` | theorems about the module of that name; `KeyRingProofs` also about `Rotation` |

Every definition that stands for code is listed with its lines under `map` in
`PROJECT.json`. A definition whose comment starts with `Mutant:` or says "As ...
below" is a deliberately wrong version of the definition after it (`mutants` lists
them); they are used only to show that a property would notice such a bug, and no
specification mentions them.

Where an action is a click or an input, its lines are the span of the screen part from
the first to the last element that carries a handler or a guard of it (`Show when`,
`disabled`): the guards of these actions are written there and nowhere else.

### Outbound

A message is named by its reservation: the unique indexes on `reservation_id` make
`scheduled_messages` and `outbound_queue` functions of it. Timestamps are reduced to
the comparisons the SQL makes with `now()`: `schedTime` (before, due, past),
`schedDeferred` and `queueDeferred` (a retry time in the future), `queueLive` and
`resvLive` (not expired). `attempts` saturates at `max_attempts`, since only the
comparison with it matters. The six Redis keys are one counter, the tightest.
`accepted` counts how often Postfix took a message; it is the ground truth the
tables are compared with.

The API handlers are one step each: they hold the reservation row `FOR UPDATE` to the
end of their transaction. `outboundSendRolledBack` is a send that fails after its Redis
increment. The bridge's handler is split at each of its four statements, because it has
no transaction; a reservation of `Bridged` is known to that handler only. The worker is
a loop over `pc`: `poll_scheduled` selects a batch, each row is rate checked, inserted
into the queue and marked; then `poll_once` selects a batch and delivers each row. Each
statement is a step. `Abort` may end the loop at any of them, for a crash as well as for
a `?` that returns from `poll_once`: both lose the batch and nothing else. A failed
statement of `poll_scheduled` (`poll_scheduled_error`) loses its batch too, but the loop
goes on with `poll_once` in the same round. The order inside a batch is left open.
Whether an SMTP error is temporary is a free choice. A limiter that is away denies in
the API (`redis == nil`) and, when it was never connected, allows in the worker; the
constant `LimiterMayBeSkipped` covers that and the failed mailbox lookups that
`poll_once` lets pass.

Left out: rows of the old format without associated data, the contents of the
envelope (`Undecryptable` says which cannot be opened), DKIM and MIME.

### Inbound

An envelope stands for a message and its `delivery_identity`, which a retry of the
MTA reproduces. `mta` is what the sending MTA knows; it returns to `queued` after
every reply but 250. `task[h][a]` is the program counter of the goroutine of one
recipient in one request, with one step per statement on shared state: begin (a
connection of the pool), route, advisory lock, duplicate check with the drawing of
`message_seq`, store, insert with commit. The lock's key is (mailbox, identity); a
collision of its hash would serialise more, never less. `cut` marks requests whose
caller is gone: their context is cancelled, so each further step may fail, but steps
that do not may still commit. `message_seq` comes from a sequence and is never
rolled back, so an object key is used once. The auto reply's test and its INSERT are
separate steps of a background goroutine; a failed `EXISTS` reads as "not yet
answered", as in the code. The 24 hours are one window.

`MCInboundMix` runs one of two mixes of traffic, chosen in its initial state: two
messages of one sender to one mailbox, whose auto replies race, or a message to two
mailboxes beside a spam message. The MTA is never given the messages of the other mix
(`none`).

Unknown and deleted mailboxes lead to 451 for ever; the router does not look at
aliases; the 554 of the bridge cannot be reached. Encryption is its success or
failure.

### Storage

`updated_at` is the value of a logical clock at the write (`stamp`). The handlers
that take the organisation's row lock are split at it: `Select` (lock and read) and
the write; "some request of the organisation is `locked`" is the lock. Creation is
one step. A test is four steps: read, call the provider, lock and compare
`updated_at`, record. The monitor's tick is a snapshot, then test and UPDATE for one
connection after the other in the order of `updated_at`. `checked` is the
configuration that the recorded `last_checked` and `error_message` are about: the
row does not say it, the property needs it. A provider works, refuses or hangs;
`TickBudget` is how many hanging ones (10 s each) the 30 s of a tick outlast.

### Placement

One organisation. A connection is identified with its bucket, and a migration's
target bucket is named after the migration; rotating a connection to another bucket
is left out here. "The latest usable connection" is any usable one. The storage
worker resolves a mailbox by `mailbox_id` in the API's requests; the router's
request does not carry one and goes to `Default`, and so does a request during a
database failure. A migration is created running, lists, copies one object per step,
and records its outcome in a statement of its own that may never come. The status
`pending` and everything about health is `Storage`.

### Attachments

One mailbox, with a storage of its own. Rows and objects are separate sets; an upload
writes the object and then the row, a deletion selects, erases the object, deletes the
row if it is still not linked. The storage worker looks the mailbox's storage up at each
call and, when that fails, works on its default storage and answers 200 all the same
(`getStorageForMailbox`): an upload may put its bytes there (`astray`), and a deletion
may erase nothing of what is in the customer's storage and still take the row. `missed`
remembers for which attachments a lookup failed; the properties excuse those and no
others. Sending or scheduling links all attachments of a message in one
transaction and fails unless all of them are unlinked rows. A client may name the
id of a draft in its upload. `wish` is what a client asked to delete and repeats
until it is answered.

### The web applications

In all of them a handler is cut at its `await`s: the part before the first is one
step, with the guards of the button or form it hangs on, and each part after an
`await` is a step that takes the answer, or its failure, from a set of waiting
handlers in any order. What a handler read before the `await` is kept in its entry
of that set; what it reads afterwards is read from the signals as they are then.
What the server does to its rows is one step with the request, or several where two
transactions can come between each other (`Provisioning`, `Attachments`).

- **Session.** Tokens, passwords, wrapped and secret keys are named by the account
  they belong to, so "whose key is this" can be asked. `list` and `durable` are the
  two copies of the connected accounts; other tabs write `durable` and delete tokens.
  The first request opens the mailbox the user left, or the first one when that is gone.
  A passkey is enrolled in three steps (options, credential, registration), each reading
  the user and the key as they are then; the vault is kept by credential and names the
  mailbox its key is for.
- **MailView.** A message is its id; `msgs`, `sel` and what waiting loads carry are
  copies that may differ. `content` says of which message the text, the attachments
  and what reply would quote are, and whether the text is plaintext or a placeholder.
- **Compose, AddressBook.** Texts and contacts are numbers, so a base text can be
  compared with the row it replaces; rows have the server's versions, and another device
  may write them at any time. A send reads recipient, subject and text before it waits
  and the HTML alternative after; whether opens are tracked may take one more request,
  and attachments and schedule are read last. The server deletes an attachment in two
  steps, and a send that comes between them keeps the row.
- **Import.** A line is of one of the four kinds the splitter tells apart. The loop of
  `splitMbox` is the function `Splitting`: what it has after each number of lines. Files
  chosen together are read one after the other with a wait at each, and one that cannot
  be read drops the messages of all.
- **MailSettings.** A set of settings is the mailbox it was made for; filters,
  address rules and bridge credentials are items with a kind. Filters and address rules
  have a flag each for a save under way, so one of each may be saved at once.
- **KeyRing.** Passwords, key pairs and phrases are numbers, 0 for none; a wrapped key
  is the secret key with the password and the phrase that open it. `born` and `shown`
  are history: under which password a key was made, and for which keys the owner has
  presented a phrase or an old password. The re-wrapping in
  `handleResetPasswordWithRecovery` throws, as the crypto core makes it. A login that
  finds no wrapped key makes one in two steps (`heal`), with other browsers in between;
  a reset revokes the sessions of all browsers, so what they ask afterwards fails.
- **Provisioning.** An invitation is counted, then made under the organisation's lock;
  a deletion locks the mailbox and then the invitation, a claim the invitation and
  then the mailbox, and PostgreSQL ends one of the two when they meet. A row lock is
  held by the requests in the middle of their transaction. The administrators keep their
  role, so the 403 of a page opened without one does not occur. After an answer the page
  fetches its lists again, one after the other; `last` is the last fetch begun, the
  only one a Solid resource applies. `crowd` is history: the most invitations that
  were between count and commit at once.
- **Rotation.** A phrase and its root are one number; a wrap is the number of the root
  that opens it. Each of the up to three requests of a rotation may be lost before or
  after the server has done its part. The rotation also ends the device grants and the
  owner's other sessions (`trusted`).
- **Pricing.** Cents; the code rounds doubles, so an exact half may fall either way.
- **Crm.** A call is served in one transaction with its audit entry and answered
  later, or never. `crossed` marks organisations whose calls overlapped or lost an
  answer: the page promises nothing about those.

## 3. Runs

`tlc -workers 2 -config <cfg> <module>` in this directory; the longest take about
four minutes on two workers.

| run | instance | checks |
|---|---|---|
| `outbound_one_worker` | two messages, one of them by the bridge; one worker, batches of 2, rate limit 1, one attempt, one glitch | `TypeOK`, `NothingLost`, `DeliveredWasTaken`, `TakenOncePerGlitch`, `WindowBudget`, `SentWhilePending`, `SettledStays` |
| `outbound_live` | two messages, one undecryptable; two attempts, limiter that may be passed by, no glitch, fair | `ScheduledSettles`, `UndecryptableBounces` |
| `inbound_retry` | one message to two spellings of one address, two requests, pool of 2, one glitch, fair | `RowHasObject`, `InsertNeverConflicts`, `OrphansNeedGlitch`, `MailGetsThrough` |
| `inbound_partial` | two messages of one sender to one mailbox, or a message to two mailboxes and a spam message; two requests, pool of 4, one glitch, an auto reply rule | `AcceptedIsStored`, `RepliesPerMessage`, `ImplementsContract` |
| `storage_safe` | `Storage`: one organisation, two connections, two configurations, two requests, one Google authorisation, three writes; or `Placement`: two mailboxes with an object each, three connections, one migration, two requests, one glitch | `TestedIsCurrent`, `DeletedForGood`, `CompletedIsCopied`, `CutoverKeepsListed`, `CutoverOnce`, `CompletedStays` |
| `storage_heal` | three connections, providers that hang, ticks that outlast one of them, three writes; one request or one lost tick; fair | `MonitorHeals` |
| `webmail` | two accounts, one with a second factor; three messages, a folder, a label; two drafts, an attachment; two contacts; files of up to six lines, two chosen at once; an item of the settings; two handlers waiting at once, fair | `WebmailTypeOK`, `SessionConsistent`, `ViewConsistent`, `NoLostUpdate`, `RemovedStaysRemoved`, `ImportTruthful`, `ScreenUnblocks` |
| `consoles` | two browsers with three passwords, three keys and two phrases; two attachments, messages and requests with two glitches; two organisations and a stalled row; two administrators with two requests, three addresses and a limit of two seats; a private and a managed mailbox with two roots; every number of seats around the brackets; fair | `ConsolesTypeOK`, `WizardWrapOpens`, `PublicKeyOpens`, `ResetDoesNotRecover`, `SentComplete`, `BytesFollowRows`, `PagesAndServerAgree`, `PhraseShownIsEnrolled`, `PriceAddsUp`, `RequestsEnd` |
| `outbound_cancel_race` | one message, one worker | `CancelledNeverSent`, violated |
| `auto_reply_race` | two messages of one sender to one mailbox, no failure | `OneReplyPerSender`, violated |
| `phrase_reset` | one browser | `PhraseResetKeepsKey`, violated |
| `rotation_anchor` | two mailboxes | `AnchorOpensKey`, violated |

`webmail`, `consoles` and `storage_safe` each hold several modules whose state is
separate in the code too. Which one moves is chosen in `Init`; the others rest in an
initial state, where nothing is under way and their fairness asks for nothing. A run of
the parts side by side would only multiply their states. Properties of the first two are
conjunctions where the same thing is asked of several parts:

| property | parts |
|---|---|
| `SessionConsistent` | `AccountsOnce`, `SingleSignIn`, `CachedForChallenge`, `MemoryMatchesStore` |
| `ViewConsistent` | `LatestOpenWins`, `SuccessOnlyPlaintext`, `BadgesMatchViews` |
| `NoLostUpdate` | `NoLostDraftUpdate`, `NoLostContactUpdate` |
| `RemovedStaysRemoved` | `RemovedNeverSent` (attachments), `NoGhostFilter` |
| `ImportTruthful` | `SplitKeepsLines`, `ImportTellsTruth` |
| `ScreenUnblocks` | `LoadingEnds`, `LogoutEnds`, `DecryptEnds`, `BusyEnds`, `ImportEnds`, `SavingEnds` |
| `PagesAndServerAgree` | `ConsoleMatchesServer` (`LedgerExplains`, `StatusRollsBack`); `OwnWritesShown`, `OverrunBounded`, `AliasQuotaKept`, `DeletedStaysGone` |
| `BytesFollowRows` | `SendableHasObject`, `NoBlobLeft` |
| `PriceAddsUp` | `ChargedSeatBySeat` (against a seat-by-seat reference), `LinesAddUp`, `QuoteFollowsCalculator` |
| `RequestsEnd` | `DeleteConverges` (attachments); again and again `NothingProcessing`, `RotationFree`, `PagesFree` |

What they show:

- **outbound_one_worker.** With the deployed single worker, a consumed reservation
  always has its row, an executed scheduled message is in the queue, `delivered` is
  never written for a message Postfix did not take, a message is taken twice only
  because of a crash or failed statement and once more for each, at most the limit
  plus one message leaves in a rate window, a message is sent only while its row is
  pending, and delivered or bounced rows never change again. The bridge's four
  separate statements do not break any of it.
- **outbound_live.** Every scheduled message leaves `pending`, although deferral by
  the limiter repeats and expired rows are only marked in a poll that finds nothing
  due; a message that cannot be opened is bounced, unless its lifetime ends first.
- **inbound_retry, inbound_partial.** Whatever the retries, timeouts and crashes, the
  MTA is told 250 only when every mailbox has the message, each mailbox gets it once,
  the unique index never has to refuse a second INSERT because the advisory lock
  excludes it, every row has its object, objects without a row need a failure,
  auto replies are at most one per stored message, also when two messages of a sender
  are evaluated at once (one per sender and day is not kept: `auto_reply_race`), and in
  the end every message that
  is not spam is accepted, unless one of its mailboxes is deleted. The
  implementation refines the abstract `InboxContract`.
- **storage_safe.** Disconnection is final even for a test or tick that was under
  way; the comparison of `updated_at` under the lock does exclude stale test results,
  the one exception being a row the Google callback has just rewritten.
  A completed migration has copied everything its listing found, a late or repeated
  request does not take it back, cutover makes one connection and switches only to
  buckets that hold what was listed.
- **storage_heal.** As long as the providers that go on hanging are no more than a tick
  outlasts, a connection whose provider works again is shown active again, wherever it
  stands in the order of the checks. The condition is needed and the instance reaches
  its other side: behind two hanging providers, with ticks that outlast one, the third
  connection is never tested.
- **webmail.** The key in memory is the one stored for the mailbox it unlocks, or that
  mailbox was signed out, through any order of logins, passkeys, unlocks and switches;
  the four sign-in forms exclude each other; a password kept for the second factor does
  not outlive its challenge. Late bodies never appear under another header, and reply
  never takes over a placeholder or another message's text. Folder counts and lists,
  computed separately, agree after every move, undo and late load. A save that the
  server would accept was made from the row as it is now. An attachment taken off a form
  has no row left and goes out with no message, a deleted filter does not return with a
  late answer, splitting an mbox file loses no line, an import reports as stored what is
  stored, and nothing that is under way stays so: the loading screen, a logout, a
  decryption, the busy status of the form, an import and a save end. (What a send
  leaves, "sent", stays until the drawer is closed.)
- **consoles.** Activation registers a key that opens with the password and the phrase
  on its screens, however often the user goes back; until a reactivation the public
  key belongs to the wrapped secret key; resets recover nothing without a phrase or an
  old password. An accepted message keeps the rows of its attachments; what can be
  sent has its bytes, in the customer's storage unless the worker failed to look that up;
  a deletion that took the row left no bytes, under the same exception, and a repeated
  one ends. Row and audit entry of an
  organisation stay together and a failed change is taken back. Invitations pass the
  plan's limit by no more than the others that were counted at the same time, aliases
  never; a mailbox whose deletion was answered stays gone though a claim does not look
  at its status, because the two lock each other out; the list on a page contains what
  the page was told it made and not what it was told it deleted. A phrase is shown
  only after the rotation and the enrolment have both been carried out. The price is
  right at every number of seats around every bracket's edge.

### Bounds

Every bound is a constant with a comment where it is declared. The interesting cases
need two of something: two messages in a batch (the second is handled on an old
snapshot), two requests for one message or row, two recipients of one mailbox or of two,
a rotation and a test. One glitch is enough for each of the crash points, since a crash
leaves only what is in the tables; two are used where a retry may fail as well.
`MaxClock` 3 allows the creation of a row, its rotation or disconnection, and one more
write that comes too late. In the web applications two handlers wait at once and the
user starts three to seven operations: enough for a late answer to meet a page that was
left, reopened or switched. Two administrators and two requests let a count, a claim or
a fetch of one fall into a request of the other. Three addresses against a limit of two
seats, one of them taken, let two invitations be counted before either is made and pass
the limit together. Three passwords are the activation's and one for each of two
browsers, so that both may reset; two phrases let the user of the wizard go back and
take another; `MaxMade` and `MaxOpen` keep passwords, keys and phrases together, and
dialogs open at once, to what one TLC run holds. Two messages of one sender are what it
takes for their auto replies to race. Three connections and a `TickBudget` of 1 put a
working provider behind more hanging ones than a tick outlasts, and behind as many. A
draft needs three texts: the base, the other device's and one's own. The safety results
for larger instances are the theorems of section 4.

Deadlock is not checked where the modelled clients may simply stop asking: the
instances have finitely many messages, keys and failures.

### Fairness

- Worker loop: weakly fair; it is an infinite loop with a sleep in its own process.
- Time: scheduled times and retry times come (`ScheduleTime`, `ScheduleRetryTime`,
  `QueueRetryTime`), rate windows end. Nothing is assumed of the expiry of queue rows.
- MTA: weakly fair retries, which is what an MTA does with a 4xx.
- Router goroutines: strongly fair. A goroutine waits for a connection of the pool
  and for an advisory lock; both queues are first come first served.
- Monitor: weakly fair; a ticker in its own goroutine (`STORAGE_HEALTH_INTERVAL=0`
  turns it off, and then nothing is claimed).
- Attachments: started requests end, and the client of a deletion asks again, as the
  comment at `services/api/attachments.go:324` expects.
- Web applications: weakly fair answers. A handler that waits is resumed: `fetch`
  settles or fails in the end, and a transaction on the server ends, a deadlock by the
  database's detection. In `MailView` this is asked of opening a message only.
- Nothing is assumed of users, of providers or of failures.

## 4. Theorems

`tlapm <module>` checks them. They hold for every value of the constants that
satisfies the named assumption of the module that declares them
(`ConstantsAssumption`, `StorageAssumption`, `AttachmentsAssumption`,
`PlacementAssumption`, `KeyRingAssumption`, `RotationAssumption`, `CrmAssumption`,
`ProvisioningAssumption`, `PricingAssumption`, `SessionAssumption`,
`MailViewAssumption`, `ComposeAssumption`, `AddressBookAssumption`,
`ImportAssumption`, `MailSettingsAssumption`): distinctness of the "none" values, types
of the functions, positive limits, and finitely many accounts and administrators. TLC
evaluates these assumptions in every run. Two theorems name a further hypothesis in
their statement: `RateHolds` that the limiter is not passed by and the workers are
finitely many, `OneReplyPerMessage` that the messages are. Every safety property that
a passing run checks is stated by a theorem.

**OutboundProofs.** `TypeCorrect`, `NeverLost` and `NoPhantomDelivery` hold for any
number of workers, also with a limiter that is passed by. `TypeInv` adds to the type
invariant that a worker in the middle of a row has one. `SafeInv` adds what a
worker's program counter says about the tables (`WorkerKnows`: at a mark after an
insert the queue row exists, after a hand-over Postfix has taken the message);
`NothingLost` is not inductive without it, because marking a row as executed is only
right if the earlier INSERT is remembered. `OnceUnlessGlitch`, `SendsPendingOnly`
and `SettledIsFinal` assume a single worker (`OneWorker`), as they must: two workers
do send a message twice. `SoleInv` says that the rows of the batch are still pending
and unsent, up to the glitches. `RateHolds` bounds a rate window for any number of
workers (`Metered`: the limiter is not passed by). `WindowBudget` alone is not
inductive: a worker that was charged has its message still to come, perhaps after the
window has turned. `ChargedInv` counts those workers too: the messages taken in this
window and the workers about to send are no more than what was charged in it and one
per worker.

**InboundProofs.** `FlowInv` relates requests and MTA; `StoreInv` says that the
advisory lock is exclusive, that a task past the duplicate check has no row to
conflict with, that rows have objects and are addressed, and that accepted messages
are stored; `OrphanInv` accounts for objects without rows. From these:
`InboundTypeCorrect`, `NoMailLost`, `RowsReadable`, `LockWorks`, `NoOrphans`, and
`ContractHolds`, the refinement of `InboxContract`: every step is a delivery into one
mailbox, a release of the MTA, or a stutter. `OneReplyPerMessage` rests on `ReplyInv`:
a message is evaluated only once its row is there, and the replies to a sender are no
more than the evaluations that have ended; an evaluation ends once. The stronger
`OneReplyPerSender`, what the comment in the code promises, is violated (section 5).

**StorageProofs.** `ConnInv`: stamps are never in the future, deleted rows are
tombstones, the organisation's lock is exclusive, a row held under it is not deleted,
and a row whose `updated_at` is the one a test has read is not deleted either. From
it `DisconnectIsFinal`. `TestNeverStale` adds that `updated_at` works as a version
number: as long as it is the one that was read, the configuration is too.

**AttachmentsProofs.** `LinksStay` and `BytesKept` (`SendableStored` and `DeletionsComplete`), from an
invariant that gives each upload its id alone, keeps the client of a deletion waiting
while the attachment could still be sent, and says of a deletion past its call of the
worker that no bytes are left unless a lookup failed; `AttTypeCorrect` from the same.
What is proved of bytes in the customer's storage is proved up to `missed`, the
attachments for which the worker's lookup failed.

**PlacementProofs.** `CopyComplete`, `NothingListedLost`, `OneTarget`,
`CompletedIsFinal`, from an invariant with: at most one request works on a migration
that is running, what was listed is in the target, deleted, or still to be copied, and a
switched connection belongs to a completed migration.

The type invariants of `Inbound`, `Storage` and `Placement` are theorems
(`InboundTypeCorrect`, `StorageTypeCorrect`, `PlacementTypeCorrect`) and need no run.

**KeyRingProofs.** `KeyRingTyped`, `ActivationWrapOpens`, `RegisteredKeyOpens` and
`ResetsRecoverNothing`, for any number of browsers, passwords, keys and phrases. The
invariant `KeyRingInv` adds to the properties: what the wizard holds is a wrap of its
own key under the password and phrase of its screens (`WizardHolds`; the two openings
alone do not say under which password the key was born, which the claim writes down);
keys in use have been made already (`KeysAreMade`: otherwise a fresh key could be one
whose `born` is overwritten); and nothing is wrapped before the claim
(`ClaimedFirst`).

`RotatedPhraseEnrolled` is about `Rotation`: `RotationSafe` adds to
`PhraseShownIsEnrolled` that one rotation is under way at a time, that its enrolment
comes after the root was changed and carries that root, and that a phrase is on show
only while no rotation runs.

**ConsolesProofs.** `ConsoleShowsServer`: while a suspension is under way the page shows
what the call asks for and the call keeps what the server has (`CallAgrees`), and an
organisation no two calls touched at once has at most one such call (`Settled`);
`LedgerExplains` is carried along. `MailboxesKept`: a link that
works, or that a claim is holding, is that of a pending mailbox (`LinksLive`), one
transaction at a time holds a mailbox's row (`RowsHeldOnce`), so what the alias handler
counted bounds the aliases while it holds that row (`CountsCurrent`), seats are
bounded by the limit and the requests that counted at once (`SeatsBounded`: a count adds
one to both sides, an insert moves one from counted to live), and what a fetch has read
since the last change contains the page's own writes (`ReadCurrent`). `PricesRight`
holds for every number of seats: the loop over the brackets leaves what lies beyond them
(`RemainingIs`), so a bracket holds as many seats as there are positions in it, and what
apportioning adds to the last line it adds to the sum (`OneLineMore`); that there is a
last line needs that no page ever holds zero seats (`PricingInv`). `ConsolesTyped`,
`PagesAgree` and `PricesAddUp` carry these to the composition: a behaviour of `MCConsoles`
is one of each part (`PartsRun`).

**WebmailProofs.**

- Drafts and contacts (`DraftsKept`, `ContactsKept`, with `UpdatesKept`): a save the
  server would accept was made from the current row only if every copy that may come to
  be a base is one the server once had, is not ahead of it, and agrees with it when the
  versions are equal: the copy in the form, in the pane, in the list and in every
  waiting handler (`CopiesGood`, `ContactsGood`). A deleted row has version 0, which no
  copy has.
- Removal (`RemovalsKept`): a file on its way up is uploaded once and not on the server
  yet (`UploadsFresh`), and what a message carries is linked to it, so what was deleted
  is not among it (`FilesGood`). For the settings (`FiltersStayDeleted`): lists are
  fetched before the page takes a click (`LoadFirst`), and an item the page was not told
  of is not in its list, so it cannot have been deleted from it (`CreatedNew`).
- The mailbox on screen (`ViewKept`, `ScreenAgrees`): `ViewInv` adds what a waiting
  open may find in the pane when it is answered.
- The session (`SessionKept`, `SignInsAgree`): only one sign-in is under way because it
  keeps the forms busy while it waits (`OneSignIn`), and lists name an account once if
  the copies that sign-outs carry over their `await` do too (`TaskT`).
- The import (`ImportKept`, `ImportsTold`): `SplitLosesNothing` is about every file.
  After each line the messages so far and the lines since have as many lines of text as
  the file so far, and one for each escaped (`Balanced`). The steps of the loop are
  counted by the least line at which it would fail (`Least`), which replaces an induction
  the provers do not have. `ItemsSound` says that entries of one number are of one
  message, in the list and in what is left of the run, and that only the first of the
  run is "importing": an answer marks by number, in a list that may have grown.
- `WebmailTyped` puts the type invariants together.

The loops and the filters of the pages are written as functions (`Splitting`,
`Filtered`, `Remaining`) and the sum over the five price brackets as `Total`, so that
these proofs can speak of them.

Only model-checked, because it is out of this prover's reach: everything under fairness
(`ScheduledSettles`, `UndecryptableBounces`, `MailGetsThrough`, `MonitorHeals`,
`ScreenUnblocks`, `RequestsEnd`).

## 5. Where the code and its documentation disagree

Shown by a run (`findings` in `PROJECT.json` quotes the lines):

1. `outbound_cancel_race`: a cancellation between `poll_scheduled`'s SELECT and its
   UPDATE is answered with success, overwritten by `executed`, and the message is
   sent. The UPDATE lacks `AND status='pending'`.
2. `phrase_reset`: a password reset with the right recovery phrase replaces the key
   pair. The phrase opens the old key, but the re-wrapping passes a mailbox id of the
   wrong length, throws, and the error is caught; the dialog promises that past
   messages stay readable.
3. `rotation_anchor`: rotating a root wraps the mailbox key under the new root as a
   local check and never uploads that wrap. The key still opens with the old root, the
   new phrase does not open it, and the page says it was re-anchored.
4. `auto_reply_race`: the test for an earlier auto reply and its INSERT are separate
   statements without a lock, so two messages of one sender handled at once are both
   answered, against the comment at `services/mail-router/main.go:816`.

Met while modelling; the models contain this behaviour, no run is devoted to it:

- `services/api/storage_monitor.go:100`: the monitor's UPDATE does not compare
  `updated_at`; after a rotation the new configuration gets the verdict on the old one.
- `services/mail-router/main.go:135`: the store request has no `mailbox_id`, so inbound
  mail of a mailbox with its own storage is put where the API does not look.
- `services/api/attachments.go:332`: DELETE erases the object before it repeats the
  check of `message_id` (line 311 promises the check); a message sent in between keeps
  an attachment without bytes.
- `services/outbound-worker/src/main.rs:393`: `FOR UPDATE SKIP LOCKED` runs in
  autocommit and claims nothing (line 388: "Use transaction with SKIP LOCKED."). With
  a second worker rows are handled twice; `NeverLost` and `NoPhantomDelivery` still
  hold, the one-worker theorems do not.
- `services/outbound-worker/src/main.rs:105`, `:607`, `:618`: without a Redis client
  or a mailbox row the rate check is passed by, while lines 110 and 452 say it fails
  closed.
- `services/outbound-worker/src/main.rs:546`: a queue row past `expires_at` stays
  `pending` for ever; the status `expired` of the schema is never written.
- `services/api/outbound.go:376`: a send repeated on a reservation consumed by
  schedule and not yet promoted answers 500, while `docs/08-v5.3-final.md:234`
  promises the existing delivery.
- `services/inbound-bridge/main.go:166`: a message Rspamd rejects is answered 451
  instead of the 550 of line 243, so the MTA keeps it.
- `services/api/storage.go:172`: the Google callback takes no lock, the exception in
  `TestedIsCurrent`; `:175`: the row it leaves `pending` is selected by no other
  handler and not by the monitor.
- `services/api/storage.go:987`: a connection in `error` does not prevent a second
  POST and may become active again beside the new one (line 972: "exactly one active
  connection per org").
- `services/api/storage_monitor.go:56`: three hanging providers use up every tick for
  the connections behind them, in an order the monitor never changes.
- `services/api/storage.go:294`: the UPDATE to `failed` uses the context that has
  just ended, so an abandoned migration stays `running` and its retry is refused.
- `services/storage-worker/main.go:722`: when the lookup of a mailbox's storage fails,
  the worker uses its default storage and answers 200. An upload then leaves its bytes
  where retrieval does not look, and a DELETE takes the row and leaves the object behind
  for good, which `services/api/attachments.go:324` says cannot happen.
- `services/storage-worker/main.go:718`: inbound mail of a disconnected mailbox goes
  to the default storage instead of being refused.
- `services/api/invitations.go:161`: the mailboxes are counted before the
  organisation's row is locked, so two invitations may pass the plan's limit together
  (`services/api/mailboxes.go:302` says of the other way to create a mailbox that
  concurrent creates cannot). `OverrunBounded` says by how much.
- `services/api/mailboxes.go:803`: an alias may be made for a deleted mailbox, which no
  list shows; aliases of a deleted mailbox keep their rows and so their addresses,
  while the dialog (`mailboxes.tsx:795`) says they are released.

In the web applications (`apps/webmail/src/` unless another path is given):

- Lists: a load that ends after a switch of account is applied to the new mailbox;
  archive, trash and star are changed on screen only, moves and read marks are sent
  without waiting and may overtake each other, and an undo may undo a later move;
  search answers are applied after the query was cleared (`App.tsx:2109`: the cleanup
  is never called); permission to load remote images stays on for the next message
  (`components/ReadingPane.tsx:156`).
- Compose: a send clears a form that was opened meanwhile; saving a draft or uploading
  lifts the busy status of a send under way, so it can be sent twice; after a
  successful send the button stays disabled until the drawer is closed
  (`components/ComposeDrawer.tsx:295`); closing the drawer leaves uploads behind;
  reply, forward and editing a draft do not reset the HTML alternative
  (`App.tsx:2479`), so one left from an earlier text may go out with the new one.
- Contacts stay in memory after a switch of account, and an answer that comes after a
  lock fills the list again, against the comment at `App.tsx:719`. A lock leaves the
  list of a message's attachments (`App.tsx:1967`).
- Import: the mailbox is read at each message, so a switch splits an import over two
  mailboxes.
- Settings: failed loads leave defaults that a save then writes; the auto reply window
  moves by the time-zone offset with every load and save; `signature.ts:3` says the
  signature is never synced, but it is sent; nothing applies `mailbox_filters`.
- Session: signing one account out writes the list with unsealed keys to
  `localStorage` (`App.tsx:1737`); a logout while the first request is pending is
  undone by its answer; a mount racing a switch may store another account's token; a
  passkey enrolled across a switch of account is kept with the other mailbox's key
  (`routes/settings/SecurityTab.tsx:147`).
- Keys: changing the password re-wraps nothing; a second reset, or a reactivation,
  overwrites the only archived key (`services/api/recovery_flow.go:455`); "saved" stays
  ticked when another phrase is generated.
- Support console: a capacity change that fails restores the row as it was when the
  dialog opened; two toggles whose requests overtake each other leave the page
  different from the server; an intervention is resolved without an audit entry
  (`services/admin-api/main.go:153`).
- Control plane: the old phrase keeps working after a rotation, and the new one is lost
  when the answer to its enrolment is; the checkout says "Organization Activated!" also
  when the capacity could not be stored (`routes/onboarding/checkout.tsx:57`); setup
  links live in the page only, and a failed list shows as "No mailboxes provisioned
  yet".

## 6. Not modelled, and the plan

Not to be modelled: cryptographic primitives (strength is not a state property),
provider clients of the storage worker (pure I/O), layout and rendering, sanitising of
HTML, health and CORS, the legacy outbound worker. Left out of the modelled pages:
banners, tabs that only show, the clipboard, reloading a page of the control plane,
the seven days of a setup link, and a connection that breaks while the server goes on
with the request (`Provisioning` lets an answer be lost only once the request has
ended; two administrators give the same interleavings on the server).

Still to come, in this order:

1. `Identity`: login challenges, sessions, revocation, the janitor, the server's side of
   passkeys, and the security tab's enrolment of a second factor. A challenge lets in at
   most one session; a revoked session stays out; a failed reset does not lock the user
   out.
2. `Messages`: import with its duplicate check and object, deletion, search tokens; the
   handlers of drafts, contacts and filters with their statements.
3. Domains and DKIM rotation, roles, billing, registration; the storage page.
4. A composition of `Outbound` and `Attachments`: cancellation leaves attachments
   linked.
5. The tools: order of restore and verify in the backup tool, the IMAP session.
