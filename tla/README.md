# Verification of couplefins

couplefins is a household-finance application for two people: a FastAPI backend
(`src/src`), a PostgreSQL database, a React frontend (`src/web`) and an MCP server
that gives an assistant on the desktop the same tools the built-in chat has. This
directory holds TLA+ specifications of its core, the TLC configurations that
model-check them, and theorems about them that TLAPS checks. Paths below are
relative to the repository: `src/application/...` is `src/src/application/...`
in `PROJECT.json`.

## How the program runs

* One uvicorn worker (`Dockerfile`, `--workers 1`) serves the web application on one
  asyncio loop; each MCP client starts a further process. All share one database.
* Every request runs its use case in one unit of work, which is one database
  transaction: committed explicitly at the end, rolled back on any exception
  (`infrastructure/persistence/repositories/unit_of_work.py`). The isolation level is
  PostgreSQL's default, READ COMMITTED, and no read takes a lock, so between
  any two statements of one request every other request may commit.
* What the database itself refuses: a second link of a row
  (`ix_stl_transaction_id`), a link to a settlement or a row that is not there, a second
  period row of a month, a second row with the same natural key, an audit entry of
  a row that is not there.
* In-memory state is per process and lost on restart: pending confirmations, rate
  counters, event subscribers, chat streams.

## Inventory

| component | state | operations | interacts with | hard behaviour | what makes it correct |
|---|---|---|---|---|---|
| settle-up data | `transactions`, `settlements`, `settlement_transaction_links`, `reconciliation_periods`, `transaction_edits` | record, mark/unmark, unlink, delete a settlement; edit rows and splits; re-upload; mark an account joint and back; lock/unlock a month | everything that reads balances | check-then-act across awaits, whole-row writes of stale rows | a leg has one settlement, links are grounded, legs are out of the split math, locked months do not change, edits are logged |
| settlement ledger and portions | `settlement_portions` | plan portions, record, waive, delete, compute | settle-up data | plans from stale or torn reads; months running both ways | payments keep the plan's promise; a waiver clears its scope; no money is lost |
| two-phase confirmations | `PendingActionStore` per process | propose, claim, cancel, evict; MCP confirm | use cases of all write tools | double confirms, expiry races, restart | at most one run, only of what its owner saw |
| CSV import and deduplication | `uploads`, `transactions` | preview, upload | joint accounts, categories, settle-up data | twins told apart by order, true replace | an upload replaces exactly its own window |
| joint accounts, manual transactions | `accounts`, rows' keys and payers | mark, unmark joint; record, delete by hand | import, splits | rekeying rows under concurrent edits, shared names | a bank row is stored once and has one home |
| transactions table | the URL, the last answer | filter, search, sort | every link into the page | URLs written elsewhere or earlier | nothing is hidden silently; totals in view agree with the server |
| bulk editing, row editor | selection, drafts, requests under way | select, review, apply; open, type, save | polls, the partner, a lock | partial failure, drafts older than the row | what was reported happened; a draft survives; a row has the split of its kind |
| settle-up page | month in the URL, answers per month | navigate, lock, waive, delete, export | ledger | the previous month's answer stands in; dialogs over balances that changed | a waiver clears what its dialog showed; the audit table adds up |
| linking transfers | picked legs, search month | record from legs, link afterwards | settle-up data | parallel requests that partly fail | amount and direction follow the legs |
| upload page | file, preview, ticks | pick, preview, review, confirm | import | a preview of a replaced file | what is imported is what was shown |
| dashboard and header balances | answers per scope and month | read, poll | ledger | errors and late answers | a balance shown for a month was that month's; what stands in after an error is captioned so |
| budgets | `category_group_budgets` | save, update, delete, copy | categories | forms older than the data, both partners at once | one budget per group and owner; an edit reaches the budget shown |
| settings | `categories`, `category_groups`, `accounts`, merchants, asset, persons | create, rename, remove, map, mark | budgets, import | forms over changed lists | no category is stranded |
| obligations and loans | `obligations`, `loans` | create, pay, unpay; open, close, replace, statement, add payments | bank rows | both partners; loans that end | a row pays one obligation; payments follow their loan |
| assistant conversation | chat store, one request per answer, a queue per stream | ask, regenerate, confirm, cancel, stop, new, close | confirmations, rate limiter | aborts, late ends, failures at every point | one stream at a time; every stream settles |
| live updates | event bus, event stream, query cache | announce, invalidate, poll, mount | every write | lost events, refetches that cross changes | a page at rest misses nothing it was told of |
| generated client and routes | – | one hook per route | all | routes that announce nothing | – |
| chat loop, tools, MCP server | none of their own | dispatch reads, proposals, executors | all use cases | see confirmations | a write tool only proposes |
| persistence | the session | save, update, delete | all | what an update writes | the constraints above |
| reconciliation, insights, export, capital, pots | none (reads) | summaries, charts, CSV, projections | – | – | – |
| rate limiter, auth and setup, configuration, layout | counters; cookies | – | – | – | – |

`PROJECT.json` lists each with its sources, what is modelled of it and, under
`hazards`, each place where it can go wrong in a way a test would hardly reach.

## Modules

| module | what it is |
|---|---|
| `SettleUp` | the settle-up tables under concurrent requests |
| `LinkRegistry` | abstract specification: which settlement owns a row |
| `Portions`, `Ledger` | `plan_portions` as functions, and its promise without the loop; the ledger under concurrent requests |
| `PendingActions` | proposals and confirmations in two processes |
| `Imports` | the rows of one account label over imports, in-app edits, hand entry and its marking as joint |
| `Endpoints` | the routes the web client calls: what each reads, writes, announces, and who refetches it |
| `LiveQueries` | one cached query of a tab under changes, announcements, refetches and polls |
| `ChatStream` | the assistant's conversation: store, buttons, requests, the server's end of a stream |
| `OpenTab` | `LiveQueries` and `ChatStream` in one tab |
| `RowFilters`, `FilterBar` | what the client computes of rows; the filters of the Transactions page |
| `BulkEdit`, `RowEditor` | bulk edits; the editor of one row |
| `SettleScreen`, `LinkForm` | the Settle Up page; linking bank transfers to payments |
| `UploadWizard`, `Balances`, `BudgetScreen`, `SettingsScreen`, `HouseScreen` | the other pages |
| `Screens` | the page modules over shared variables: one page at a time |
| `SettleUp_proofs`, `SettleUp_serial_proofs`, `Ledger_proofs`, `PendingActions_proofs`, `Imports_proofs`, `OpenTab_proofs`, `Screens_proofs` | the theorems |
| `Sums` | the laws of sums that the theorems about money rest on |
| `MC...` | small instances for TLC |

Some definitions come in a second form, commented `Mutant: ...` or `Mutant of ...`: the change a
plausible bug would make to that operator. Nothing uses them (but `SumOfLegs`, a helper as well); they exist so that each
property can be seen to fail when the code is wrong.

### SettleUp

| model | code |
|---|---|
| `tx[r]` = month, amount, split, settle, payer | a `transactions` row: its date's month, the amount, `payer_percentage` (personal) or `owner_shares` (joint, as one owner's share), `is_settlement`, `payer_person_id` (`Joint`: a joint account's row has none) |
| `settlement[k]` | a `settlements` row, by its sender |
| `links` | `settlement_transaction_links` |
| `period` | `reconciliation_periods`: no row, open, finalized |
| `logged` | the `transaction_edits` the last step inserted |
| `issued` | ids that exist or existed: uuids, and natural keys a file could add |
| `req[s]` | the use case a session is running, with the rows it fetched and the rows it will write |
| `Fetch*` / `Check` / `Commit*` | the reads with their rejections / the period check and the link check / the writes and the commit |
| `Abort` | rollback: an error, a constraint, a lost connection |
| `MutableFields`, `AllFields` | `update_mutable_fields`, `update_all_fields`: every column they write, from the fetched row |
| `FetchJoin`, `FetchUnjoin`, `CommitMove` | marking an account joint and back: the rows to move, the twins dropped with their links, `rekey_batch`, which writes payer and split and makes no `transaction_edits` entry |
| `Linkable`, `legs \cap LinkedRows = {}` | the unique index and the foreign keys at the commit |

Abstractions. The link check and the period check of a request are one step
(`Check`), its writes and its commit another: a write waiting for another
transaction's row lock or key is then that step happening later, or `Abort`. Two row locks
that deadlock are `Abort` too. A row's account label and who imported it are not kept (`Imports` has both). So an
upload may remove any joint row, not only those its own person imported; any set of personal rows may be
the label that becomes joint, any of them the copies that are kept, and each row that becomes personal may go to either person.
A joint row's split is one owner's share, a personal row's its payer's: which side a move reads it from depends on who
imported the row, so `FetchUnjoin` allows both (`Shares`). 100 is also "unsplit". The columns without an influence on these
properties (merchant, notes, tags, category, exclusion) are left out; the stale
writes they suffer are those of `split`. A bulk update of a row that is
gone changes nothing (or fails its batch, which is `Abort`).

### Portions and Ledger

Money is an integer number of cents, balances are signed as in
`_signed_share` (positive: the first person owes the second), months are numbered in
order. `charged` is the net of a month's transactions, so any committed change of them
is `ChangeCharges`. `LoadCharges`, `LoadSettlements` and `LoadPortions` are the three
queries of `load_ledger`, with other requests in between. `CommitRecord` and
`CommitWaive` store the settlement with `Plan(...)` of what was read; `CommitRecord` also
takes the share of a linked leg out of the charges when the leg was still in them
(`LegShares`). A request stores one settlement, so `StartRecord` and `StartWaive` stop when
the ids of the instance are used up.

`KeepsPromise` is the promise of the docstring of `plan_portions` written as a relation between the
balances before and after, with no reference to the loop.

### PendingActions

`store[p]` is a process's `PendingActionStore`; none of its methods awaits, so each is one
step. `call[c]` is a confirming call between its claim and the end of its use
case. `ConfirmChat` is the chat route, which repeats no arguments; `ConfirmMcp` is
`handle_write_call`, which names the tool and repeats them; `ConfirmStale` its
re-preview for an unknown token. The drift check follows the claim without an await
and is `Execute`'s guard; `Fail` is drift, a domain error or a bug. `Restart` empties one
process. `Tick` moves the clock, at most to `MaxTime`.

### Imports

| model | code |
|---|---|
| `accounts` | the `accounts` rows of one label: a personal one per person, a joint one |
| `byHand` | the joint account's manual upload exists |
| `tx[r]` = acct, payer, day, original, occ, text, split, shares | a `transactions` row; `original` is `original_date`, `text` merchant, category, notes and tags |
| `tx[r].by`, `tx[r].at` | whose upload the row's `upload_id` names, and its `uploaded_at` as a count |
| `NaturalKey`, `StoredKey` | `natural_key`, on the original date; `uq_transactions_natural_key`, on the current one |
| `FetchUpload`, `FetchFile`, `CommitUpload` | `parse_file`, `classify_against_existing` and `_partition_changes`; the inserts, the updates of accepted changes and the removals, in that order |
| `FetchMark`, `FetchUnmark`, `Move` | the rows to move, transformed and collapsed; `rekey_batch` and the deletion of the accounts left |
| `Edit*`, `RecordManual`, `DeleteManual` | the in-app edits of one row; hand entry |

The window of an upload is taken over all rows of its file, those of other labels included (`Windows`), and its scope is the uploader's
personal account and, if the file names the label, the label's account (`Scope`).

Abstractions. All rows are household money out of one amount and statement, so the amount
that the app can edit as well, the depositor and the household flag do not appear. Periods
and links are `SettleUp`'s. In-app edits and hand entry are one step, which can fall between
the reads and the writes of an upload or a move; their own stale writes are `SettleUp`'s too.
An upload that a constraint refuses is `Abort`. Which text a file's row has decides its
split (`TagSplit`), an edit sets either alone.

### Endpoints, LiveQueries

| model | code |
|---|---|
| `Query(path)`, `Call(method, path)` | a generated hook; the path is the query's key |
| `Reads(q)`, `Writes(m)` | the tables the route's use case reads, writes |
| `Broadcasts(m)`, `ToolBroadcasts(m)` | the entities the route, the assistant's tool announces |
| `OwnRefetches(m)` | the queries the component that made the change invalidates in its `onSuccess` |
| `cache` | the query's entry: mounted, loaded, invalidated, its request unread, read or none |
| `cache.shown`, `cache.late` | which changes the answer on screen, the answer on its way misses, by why the tab should know |
| `wire`, `stream` | announcements not yet made and not yet delivered; the `EventSource` |
| `Restarted`, `Swallowed` | `invalidateQueries`: cancels and refetches a loaded query that is shown, marks one that is not, joins a first load already under way |

Queries do not interact, so a behaviour watches one, any one of the app, and any change
may happen. A first load that swallows an announcement, an answer that is lost and a stream
that drops are counted in `excused`: what the code itself cannot make up for but by polling.

### ChatStream

`chat` is the zustand store (`lib/chat.ts`), `requests` every `POST /api/v1/chat` with the
phase of its stream and the task behind it (`api/sse.py`), `listener` the store subscription
`handleConfirm` makes, `actions` what the server holds of each proposal. Names of actions are
the panel's handlers. What a message says is left out, but for the card that proposes a change.

`OpenTab` puts both side by side. They share no state: what an assistant's action changes
reaches the queries as `AssistantWrites` of `LiveQueries`; so a behaviour follows one part and
leaves the other in its first state, which loses nothing.

### The pages

Each page module has `server` (what its requests and the partner change), `view` (component
state, URL, cached answers) and `calls` (requests under way: sent, answered by the server in
a step of its own, answered at the page in another, or failed). `Screens` follows one page
at a time: a page's state goes when it is unmounted, and what stays, the query cache, is
`LiveQueries`. Actions have the names of the handlers (`handleSave`, `confirm`) or of what the user
does. A client or a server refusal is an action of its own.

| module | what is kept of the data |
|---|---|
| `RowFilters`, `FilterBar` | rows of each kind the server sends, amounts in cents, shares in percent; one word, one tag, two groups; a URL may hold any value, malformed ones included |
| `BulkEdit` | two rows, joint or not; a part of a change is untouched, valid or invalid |
| `RowEditor` | one row; `amount` stands for the fields whose imported value is kept, `split` and `shares` for the two kinds of split |
| `SettleScreen` | three months of two years with what each person fronted, one payment over two of them, recorded or deleted elsewhere at any time; waivers the server sizes; fetches that fail |
| `LinkForm` | legs with amount, payer and month |
| `UploadWizard` | files as rows with versions |
| `Balances` | per month what was charged, paid and spent, and what it ever came to; the rows' own total before payments, which stands in after a failed ledger query |
| `BudgetScreen` | one group, two months, both scopes |
| `SettingsScreen` | two groups and a category, an account label, merchants, the asset, a profile |
| `HouseScreen` | one bank row, two loans, two months; of the payments added at once only the next |

## What the runs check

| run | instance | checks |
|---|---|---|
| `serial` | `SettleUp`, 1 request at a time; three worlds in one run: a row of each person with both signs and one month (`Legs`); a personal and a joint row with two splits and two months (`EditedRows`); a row of each person that may become joint and personal again, with two splits (`MovedRows`) | `TypeOK`, `LinkedLegsExcluded`, `LockedMonthFrozen`, `NoSilentEdit` |
| `racing` | `SettleUp`, 2 requests, 1 row whose account may become joint and personal again, 2 settlements | `OneSettlementPerRow`, `NoDanglingLinks`, `ImplementsRegistry` |
| `books` | `Ledger` in two worlds: alone, 3 months of 2 years, charges -2..2, payments of 1 and 3; racing, 2 requests, 2 months, 2 settlements, charges 0 and 1 | `PaymentsKeepPromise`, `WaiversClear`, `OutstandingIsNet` |
| `imports` | 1 upload or move at a time with edits in between, 2 rows, 2 days, twins, 2 files committed | `StoredOnce`, `OneHome`, `MovesReturnHome`, `TrueReplace`, `UploadsKeepTheRest` |
| `pending_actions` | 2 proposals, people, tools, arguments and calls, TTL 1, clock to 3 | `RunsAtMostOnce`, `CancelledNeverRuns`, `OnlyPreviewsRun`, `RefusalKeepsPending` |
| `live` | `OpenTab`: every query and every change, one change and one fault; beside a conversation of up to 3 requests and one card | `CaughtUp`, `PollsCatchUp`, `OneStreamAtATime`, `StreamsSettle` |
| `screens` | every page of `Screens` | the 17 properties of `Screens` |
| `stale_flag`, `split_leg`, `refused_upload`, `budget_unheard`, `unconfirmed_card` | the smallest instance that shows it | one property each, violated |

Bounds and why they are enough. A leg conflict needs one row and two settlements; a
record with the transfer's two legs needs a row of each person; a move between an open and a
locked month needs two months; a race needs two requests, since each conflict is between the
reads of one and the commit of another. Three months are the fewest in which a plan
has an oldest, a middle and a newest month, in two years so that a yearly waiver leaves
something out; charges from -2 to 2 with payments of 1 and 3 give months that run both ways,
payments short of, equal to and beyond their span. A TTL of 1 with three ticks has an action
younger than, exactly at and beyond its expiry. In `imports` two rows are a pair of twins, or both
partners' copies of one bank row; two uploads are an import and the re-import that meets its
edits. In `serial` the row of another world counts as imported and removed before, so that ids and
tables are the same in all.

`live` lets one change happen: whether the watched query comes to miss it does not depend
on other changes, only on where the query's request, the announcement and the stream stand
when it commits, and that is all there; `QueriesCatchUp` is proved for any number. One fault is
each kind of loss alone. Three requests are a question, the confirmation of what it proposed, and one that
is started while the second one's end is still on its way. In `screens` two requests of a page are
one that is under way and one that races it (three where a preview comes first), and one change by the partner can fall before, between
or after them (`FewRequests`, `FewChanges` in `MCScreens`). The settle-up page, where most is kept, sends one request or meets one
change from elsewhere while it is on its way. On the house page the reader sends one request and the partner two: a payment
that a closing takes away or leaves, and a row that two obligations claim, take a request of each, and the second
of the partner's falls between the reader's list and the reader's request.
One month loads at a time on the settle-up page (`MaxFetches`).

Ids, months without an order, people, tools and calls are interchangeable where a configuration uses symmetry; `live`
has liveness and uses none. Deadlock is checked where some request can always start or end; `screens`, `live` and its
two violations turn it off, since users need not act and the bounds of requests are used up, and so does `imports`: with the bound on
uploads used up and every row removed nothing is left to do.

### Fairness

Users, the partner, faults and the network owe nothing. Assumed, in `LiveQueries`: the server answers the
requests it is sent (`ServerReads`, `Answer`) and the browser's poll timer runs (`Poll`, the `refetchInterval` of 5 s on three
queries). `PollsCatchUp` then says that on those pages every change is seen in the end, whatever was lost, as
long as the page stays open. In `ChatStream`: the assistant's turn ends (`TaskEnds`: the loop has a turn limit and its API
client a timeout) and the generator, a coroutine of the running loop that reads a queue into which the task's `finally`
always puts a sentinel, is scheduled (`event_generator`). Nothing is assumed of a request that has not reached the
server. Requests over the database may be abandoned at any step, and no fairness is assumed of them.

### Where code and documents disagree

These runs state what a comment or a document says and TLC finds the code doing something else.

* `stale_flag`: a request that edits a row's split fetches the row; another records a settlement with the row as its leg, which
  links it and sets its `is_settlement`; the edit commits and, since it writes every in-app column of the row it fetched, writes the flag
  back to false. The link stays, and the transfer is a payment and an outstanding split at once. The instance keeps the row in a
  personal account and lets no file tag it, so that every flag in it was set by a record or a mark.
* `split_leg`: no concurrency: a leg that still counted as a split is linked; the plan was made with it,
  the balance it leaves is without it.
* `refused_upload`: no concurrency: a row's date is edited in the app, and a later file has an
  identical row on that date. The import compares original dates and wants to add it; the
  unique key is on current dates and refuses the whole file. It is so too when the file
  only repeats the correction: the new row is inserted before the old one is removed.
* `budget_unheard`: the budget routes announce nothing, though the client listens for `budgets` and the assistant's
  tools send it: the partner's open budget page keeps the old amount.
* `unconfirmed_card`: the store subscriber of `handleConfirm` changes the store before it unsubscribes and hears
  its own change, until the stack overflows; the error is caught as a broken stream. The action ran, the card is back to
  pending beside an error, and the subscription stays and throws again at the next end of a stream.

Not run, but unprotected in the code: editing a linked leg's amount to the other sign; a waiver of a balance that a payment settles
between the waiver's ledger read and its commit; a profile saved over a change of the partner that is committed and not yet refetched
(`update_person.py:43-45` has no version check); and on the upload page the preview of a replaced file that arrives late and puts its own
changes in place of the ticks already made (`UploadPage.tsx:636-648`).

docs/user-flows.md:464-466 says the in-view total of a scope equals the served one. The client does not round a row's share and the
server does: `InViewWithinRounding` is the equality up to half a cent a row.

## What is proved

For every set of rows, settlements, months, people, amounts and sessions, with the
assumptions the modules name (payers are people or the joint marker, splits are
percentages, the sentinel is not an id, days and due months are integers, budgets are one each at first; on the pages money is in whole
cents, rows, months and payments are finitely many, a row of spending is split between two people in percents that come to 100, and
`None` is neither an amount nor a debt). The clocks and the limits on requests and changes are arbitrary; an assumption is in force
only where a proof cites it.

* `TypeCorrect`, `LinksUnique`, `LinksGrounded` (`SettleUp_proofs`), for any number of concurrent requests. Uniqueness and groundedness
  are not inductive without the other tables: the proof carries `TypeOK`, both
  properties, and that ids once issued are not issued again, so that a new
  settlement starts without links.
* `LegsExcludedSerially`, `LocksHoldSerially`, `EditsLoggedSerially`
  (`SettleUp_serial_proofs`), under `OneAtATime` (there is one session). The three are false with two sessions:
  `stale_flag` shows the first, and a month locked between a writer's check and its commit breaks the second. `NoSilentEdit` excepts two kinds of request
  from its clause on splits, since the code logs nothing for them: a re-upload, and the marking of an account as joint or back, which still may only carry the
  split over (`Shares`); dates and amounts are logged or left alone by every request. The invariant says that while a request is in flight what it fetched
  is what is stored and, once checked, that its months are not locked and its rows not linked; and of a move that it keeps date, amount and, as either owner reads it, the split.
* `RegistryImplemented` (`SettleUp_proofs`): every step of the concurrent database is a step of
  `LinkRegistry` or leaves it unchanged. It uses the uniqueness theorem, since a row's owner is
  well defined only then.
* `PlanKeepsPromise`, `LedgerTyped`, `LedgerBalances`, `PaymentsAsPromised`, `WaiversAsPromised` (`Ledger_proofs`).
  * `PlanKeepsPromise` is about `plan_portions` alone: for any balances, any amount and any non-empty set of months, what the function
    spends month by month comes to the amount, and is the promise. It is an induction along the months in order: what is left after a month
    (`LeftFalls`) is the amount less what the months up to it were owed, until nothing is left or only the newest is.
  * `LedgerBalances` holds for any number of requests that plan from stale ledgers. The invariant (`Kept`) says that the portions of
    every stored settlement come to its amount, and that a request holds tables of the right type; how old they are does not matter, since a plan
    comes to its amount whatever balances it was made with.
  * `PaymentsAsPromised` and `WaiversAsPromised` speak of a request whose ledger is current when it commits (`Current`), however many others are under way: nothing in the
    code keeps another request from committing in between, and then the promise is one about balances that are gone. `CurrentAlone` says that the only request
    always is current: what it has read so far is what is stored (`Fresh`), over all three queries. `PaymentsAsPromised` needs also
    that a linked leg has left the charges (`LegShares \subseteq {0}`): `split_leg` shows it false otherwise.
* `Sums` is what these and the page totals rest on: a sum over a finite set can be taken apart at an element, added, scaled, exchanged, bounded.
  `Sum` folds in the order a `CHOOSE` picks, so that it has a value at all is the first thing to show. The inductions are on a *set* of good
  subsets or numbers, which needs no theorem with an operator as a parameter.
* `AtMostOneRun`, `CancelIsFinal`, `OnlyWhatWasShown`, `RefusalsLeavePending` (`PendingActions_proofs`). The invariant relates the
  places an action can be: stored, held by a call, cancelled or run, at
  most one of them, with what was shown for it wherever it is.
* `StoredOnceSerially`, `OneHomeSerially`, `MovesReturnHomeSerially`, `TrueReplaceSerially`, `UploadsKeepTheRestSerially`
  (`Imports_proofs`), for any files, windows, rows, days and texts, under `OneAtATime` (one upload or move at a time; edits by hand and hand entry
  fall between its reads and its writes). One invariant, `Inv`, serves all five. For the table it says that keys are unique among
  imported rows, that a row's account, payer, split and shares fit together, and which accounts exist. For a request under way it says
  that what was read is still fit to write (`Ready`): the lines taken for new have no row, each accepted change belongs to a row with
  the line's key, the rows a move read are those of the account. Edits by hand keep it because they keep a row's
  account, importer and original date (`Harmless`, `StillReady`), which is all the classification looks at.
* `QueriesCatchUp` (`OpenTab_proofs`): for any query, changes, number of changes and faults. `CaughtUp` speaks of a query at
  rest only; the invariant says of every state who still owes the refetch. For each reason a change should be known
  for, if the answer on screen (or the one being carried) misses it, then an announcement or an answer of the tab's own is
  outstanding, the query is marked invalid or a request not yet read is under way, or the loss is in `excused`.
* `OneAnswerAtATime` (`OpenTab_proofs`): for any number of requests and cards. The invariant adds to the property what the
  store's operations rely on: every message that streams is the controller's, the store's flag says whether one streams, and a
  request that is alive has its message streaming, so a conversation that streams nothing has no request alive. A listening card that throws in the middle of a start (`unconfirmed_card`) keeps
  it, since it throws only over a store that is silent.
* `Screens_proofs`: for any files, stored rows, typed values, bank rows, budgets, loans, months and numbers of requests. Each invariant is stated for one
  page, since a behaviour of `Screens` stays on one page.
  * Upload page: `ShownIsConfirmed`, which is about the file and not the ticks, `RejectedRowsKept`. The invariant follows the file: the preview the page watches for was asked
    of the file that is picked, and an answer is about its request's file, so what arrives and is shown is too; a confirmation
    then carries the preview on screen, and accepts only changes in it.
  * Row editor: `SplitAlwaysFits`, `OriginalNeverLost`, `DraftsSurvive`. The invariant says which fields a request can name: those of the
    form, never the kind of the row, which the server reads anew; and that a draft is always of an open row.
  * Filters: `NothingHidden` holds of any URL, malformed ones too, and takes no invariant: without a pill every decoded filter
    is its default, and the defaults keep every row. `InViewNearServer`: the client's share of one row is within 50 hundredths of a cent of the
    server's rounded one, whichever partner fronted it; the totals follow by summing the bound.
  * Bulk editing: `BulkEditsHold`. Answers and the server's steps only get a request on, and no apply starts while the message of one stands.
  * Link dialog: `ClearedOnlyWhenLinked`. While the dialog waits, each leg of what it sent is linked or still asked for; one refusal ends the
    wait, so the answer that finds all the others in finds every leg linked. `RecordedAsLegsSay`: a recorded payment is what the picked
    legs determined when it was sent, and two paired legs that ran opposite ways add up to the same amount on each side.
  * Settle Up page: `WaiversClearWhatWasShown`. The server sizes a waiver from the ledger it reads, so what is to be shown is that its
    portions bring each open month of the year to zero whichever way that month runs, and that the request still carries the direction of the balance
    it was sent over, however old: either the year runs that way now or the waiver is refused. `AuditSums`: every answer lists
    payments that exist and the month of the page is one of the calendar, so the rows of the payments that touch it sum to what the ledger paid in it.
  * Dashboard and cards: `BalancesSpeakTrue`, over the two months `Screens` gives them and any amounts. Each answer, under way or cached, is the server's for its own key from books that
    have been (`Served`), so a late one can only say what was once true of that month or scope. After a failed ledger query the card falls back on what the
    rows come to before payments; the theorem says that it is that month's, captioned as gross and never "Settled", not that it is the balance.
  * Budget page: `BudgetsStayAsShown`. The invariant is about ids: one stands for one group, month and owner wherever it is held (stored,
    in a cached month, in an edit under way), and ids still to be given are held nowhere. An id is never moved to another slot, so a form
    that outlived its month saves to what its page showed. It needs that the first budgets are one each (`OneBudgetAtFirst`, the unique index).
  * Settings page: `CategoriesKeepAHome`. A card never offers a group its own place, so a removal finds the group it moves to
    there afterwards, and the foreign key refuses a group that went between the check and the write.
  * House page: `RowsPayOnce`, `LoanPaymentsFollow`. What a request has in hand is still stored when it writes: one request has read at a time
    (`Serial`), so the row it checked is still free, the obligation it writes back is the one with that id, and the months its
    loan is open for, or the payments its closing voids, are those it read. Without `Serial` nothing in the code keeps it (see the
    house routes under "Not modelled").

## What is only model-checked, and what is not modelled

Liveness (`PollsCatchUp`, `StreamsSettle`) and `ENABLED` are out of the prover's reach. Every safety property of a passing run has its theorem, under the hypotheses above;
where one is a single request or session, `stale_flag` shows what a second one can break.

Not modelled:

* projections of stored rows without a state of their own: reconciliation sections, insights and charts, capital, pots, the export
  CSV (when it is offered is in `SettleScreen`). `Endpoints` has which tables each reads.
* the server's ranking of link candidates, a heuristic; the pages get any candidate that fits.
* the rounds of the chat loop: the model's answers decide them, and their end is all the stream sees.
* uploads beside a marking of the same label as joint, and two uploads at once: `Imports` runs one at a time, the code has no lock
  for it, and only what a single user can rely on is claimed.
* overlapping requests at the house routes: `HouseScreen` runs them one after the other (`Serial`), for the same reason.
* setup, login and passwords: stateless cookies and one-off writes; the rate limiter: one counter behind a check without an await.
* text: formatting, CSV parsing below the level of rows, notes and labels.
* rendering, themes, layout and primitive components.
