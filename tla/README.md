# The asset management service: specifications

TLA+ specifications of the asset management service (`src/backend`, `src/frontend`),
with TLC configurations that check them on small instances and TLAPS proofs of every
safety invariant for every value of the constants. The core is what several HTTP calls at a time
do to stock: requests that move goods between locations, requests that correct
balances, the reservations between them, and the tables they share. Around it are
the administration (who and what the requests depend on, and how it changes under
them) and what is shown of the database while it changes: reports, lists, counters,
the timeline, and the browser's caches and tabs.

Run everything from this directory:

    tlc -config AdjustmentRace.cfg MCAdjustment.tla    # one run
    tlapm TransferProofs.tla                           # one proof module

## 1. The system and its parts

The service is an Express application over MySQL (Prisma). Each HTTP call is an
asynchronous handler; a handler gives up the event loop at every query, so calls
interleave between queries, and several server processes may share the database.
Only `prisma.$transaction` groups queries. `findById` and almost all tests are made
*outside* the transaction that writes.

| part (source under `src/backend/src`, or `src/frontend/src` where it says so) | state | operations | what makes it correct |
|---|---|---|---|
| Stock balances, `modules/stock/stock.service.ts`, `repositories/stockBalance.repository.ts` | `StockBalance(onHandQty, reservedQty)` per product and location | increment, decrement, reserve, release, each after `SELECT ... FOR UPDATE` | no balance below zero; `reservedQty` is the sum of the ACTIVE reservations |
| Stock ledger, `repositories/stockLedger.repository.ts` | append-only `StockLedger` | create | entries of a row form a chain that ends at its balance |
| Reservations, `modules/stock/reservation.service.ts` | `StockReservation(qty, status)` per transfer and product | reserve, release, consume, inside the caller's transaction | agree with the status of the request; more than is on hand only by overlapping approvals |
| Transfers, `modules/stock-transfers` | `StockTransferRequest(status, source, destination)`, its lines | create, addItem, updateItem, deleteItem, deleteRequest, submit, approveOrigin, approveDestination, reject, finalize, cancel | documented lifecycle; goods move once and completely; nothing stays reserved |
| Adjustments, `modules/stock-adjustments` | `StockAdjustmentRequest(status)`, its lines | create, addItem, updateItem, deleteItem, deleteRequest, submit, approve, reject, finalize, cancel | all lines or none; leaves what transfers reserved |
| Workflow eligibility, `modules/stock/utils/workflowResponsibility.ts`, `utils/guards.ts` | roles, active flags, registrations (read) | the tests at the start of most operations | somebody can take the next step of what was let in |
| Request numbers (in both services) | `requestNumber`, unique | count of the day plus one, retried on a collision | unique; creation succeeds when it can |
| Locations, `modules/locations` | `Location(isActive, code)` | adminCreate, update, toggle, readiness | no pending request is stranded at a closed location |
| Products and registrations, `modules/products`, `modules/product-registrations` | `Product(sku, isActive)`, `ProductLocation(isActive)` | create, update, renameSku, retire, bulk upload, register, toggle, bulkToggle | every pair has a row; a SKU is one product; the sheet sent back is true |
| Users and roles, `modules/admin-users` | `User(isActive)`, `UserLocationRole` | create, update, replace roles, toggleActive | one role each; nobody needed is deactivated |
| Master data, `modules/categories`, `vendors`, `uoms` | rows with a key | create, update | a key is one row |
| Comments, attachments | rows, files | create, edit (limited), delete | a file for every row |
| Audit log, timeline, event stream | `AuditLog` rows, SSE subscribers | write without waiting, publish, fetch, merge | an entry is shown once |
| Reports, `modules/reports`, the overview in `stock.service.ts` | ledger and balances (read) | several queries and arithmetic | the closing stock existed |
| Dashboard, `modules/dashboard` | requests (read) | counters, previews | what it announces can be acted on |
| Lists (six repositories and pages) | rows (read) | filter, page, count | turning the pages shows every row |
| Session, `frontend/src/context/AuthContext.tsx`, `api/client.ts` | local storage, tab state | login, logout, 401, storage event | a logout reaches every tab |
| Query cache and pages, `frontend/src/modules/*/pages` | TanStack Query's cache | open, fetch, mutate, invalidate | a user sees what they wrote |
| Filters, chips and presets, `frontend/src/hooks/useAdvancedFilters.ts` | staged and applied filters | apply, remove, clear, save and apply a preset | a chip removes what it stands for |

How they interact: a transfer's `approveOrigin` calls `reserveStockWithinTx`, its
`reject` and `cancel` call `releaseReservationWithinTx`, its `finalize` calls
`consumeTransferReservationWithinTx`; an adjustment's `finalize` calls
`applyAdjustmentTx`. All of them lock balance rows and write balances,
reservations and ledger in the caller's transaction. Adjustments decide by the
cached `reservedQty`, transfers by the reservations table: the cache couples the two.

What is hard here: tests on values read before the transaction; conditional updates
(`updateMany ... WHERE status`) whose outcome decides, next to unconditional ones
(`update ... WHERE id`); plain SELECTs inside a transaction that has waited for a
lock (MySQL's REPEATABLE READ fixes the view earlier); two statements that commit on
their own; loops over lines of which one fails; calls that die at any point.
Outside the core: a count or a lookup tested before a write that another call has
overtaken; one user-visible operation in two commits; answers computed from several
queries of a database that moves; answers and events that reach a page in another
order than they were sent; state copied into a cache, a tab or a rendering.
`PROJECT.json` lists each hazard at its line.

## 2. The modules

    Stock                      shared tables, action fragments, their two invariants
      TransferWorkflow         transfers and reservations as concurrent calls
        StockBook              what transfers promise about balances (abstract)
      AdjustmentWorkflow       adjustments as concurrent calls
        System                 both over the same tables
    MCTransfer, MCAdjustment, MCSystem         instances for TLC

    Guards           roles, flags and registrations against the requests that need them
    Matrix           products, locations, their pairs; uploaded sheets
    RequestNumbers   numbers of requests
    MasterData       keys tested in one query and written in another
    Accounts         users and their roles, created and replaced in two commits
    Listings         the six paged lists
      Administration these six beside each other
    MCAdministration its instance

    Reports          stock overview and stock opname, from several queries
    Desk             counters, previews and buttons against what the server accepts
    Records          comments and attachments
    Timeline         audit rows, the event stream, the page that merges them
    Session          the tabs of one browser
    Services         which tables each service function of the front end writes or shows
      Client         pages, query cache and mutations of one tab
      Application    these beside each other
    MCApplication    its instance

    Filters          staged and applied filters, chips, presets
    MCFilters        its instance

    SumProofs              finite sums
      StockProofs          ledgers, and what a post does to them
        TransferProofs     everything about TransferWorkflow, and the refinement
        AdjustmentProofs   everything about AdjustmentWorkflow
          SystemProofs     the two composed, from the step lemmas of both
    ListingsProofs         what a reader of a paged list misses
      AdministrationProofs the other five parts of Administration, and all six together
    ApplicationProofs      the six parts of Application, and all six together

**Stock** has the balance row (`onHand`, `reservedQty`) and the ledger of every
product and location. A transaction locks every balance row it writes and holds the
locks to its commit, so what it does to balances and ledger is one step: `Post`
(increments, decrements and their ledger entries), `Hold` (the cache) and
`ApplyAdjustment`. A missing balance row is a row at zero, because every writer
starts with `upsertZero`.

**TransferWorkflow.** A handler is a record: the operation, its program counter, the
request, the lines and the status it read. `Begin` is `findById` with the tests on
what it returned; the steps after it are the queries whose order matters:

| operation | steps |
|---|---|
| addItem, updateItem, deleteItem | read; write of the line, without a condition on the status |
| deleteRequest | read; delete of the lines; delete of the request (two commits) |
| submit | read; availability, line after line; conditional update |
| approveOrigin | read; conditional update, which locks the row and after which the view of the transaction is fixed; reservation of every line and commit |
| approveDestination | read; conditional update |
| reject, cancel | read, with `hadReservations`; conditional update and release |
| finalize | read; of each line, the balances and then its stamp, the lines side by side; conditional update, consumption, movement |

`Refuse` is every failing test of the service's own, with the transaction rolled
back; `Abort` is every refusal that is not modelled (role, active flag,
registration), a deadlock victim, a timeout or the death of the server, at any
point. The aggregate in `reserveStockWithinTx` reads the transaction's view
(`AggregateSeen`): that is MySQL's default isolation, REPEATABLE READ, which nothing in
the code or its deployment changes. `Adjust` stands for the other workflow; `System`
replaces it with the real one.

**AdjustmentWorkflow** is built the same way. `submit` and `approve` use `SetStatus`,
the unconditional update of the repository; `reject`, `cancel` and `finalize` claim.
The lines are a sequence because `finalize` applies them one after the other, each
tested against the row as the one before it left it, and two lines may name one row.
`TransferHolds`, `TransferReleases` and `TransferConsumes` are what the reservation service
does to the rows for the transfers. A hold tests the quantity on hand and no more: the
reservations it subtracts are those of a view in which there may be none, so a row can be
reserved beyond what it has, as it can in the code.

**StockBook** is the abstract specification: a book of balances in which a movement
happens at most once and takes from one location exactly what it adds to another,
everything else is a correction, and nothing goes below zero. `TransferWorkflow`
implements it with `balance <- onHand` and `moved <- ` the requests with a CONSUMED
reservation (`ImplementsBook`).

**System** composes the two workflows over the same `Stock` variables.

Abstractions common to the core: a product, location, request or call is a model
value; several lines of one transfer for the same product are added up; actors, notes,
timestamps, request numbers and audit rows are left out.

**Guards** is the counterpart of the workflow modules: quantities are left out and the
tests `Abort` stands for there are written down. A workflow call is `Begin...` (the reads
and tests: access, role, active location, registration, the users `workflowResponsibility.ts`
finds) and the write. A write through a claim lists the statuses it accepts, one by id
accepts any (`Accepts`). `ToggleLocation`, `ToggleRegistration`, `ToggleUser` count or look
up first and write next. The code does not lock what it counted, so a request written
between count and write is left behind, which nothing in it excludes; `excused` records
exactly those requests, and those an update by id revives or `updateItem` moves: a call
carries whether it found its locations open and its pair registered (`clear`), and only a
write of such a call, to a door that is shut or being shut by now, is excused.
`NoneStranded` speaks of all others: the counts themselves must miss nothing.
`Pending` is what `countPendingRequests` looks at; for a transfer both ends count.

**Matrix.** A product or location is created in a transaction that reads the other table
and inserts the pairs, one step per query up to the commit. `overlap` keeps the pairs
whose two transactions overlapped: neither can see the other, and `MatrixComplete`
speaks of the rest. The upload is a loop of such transactions over the rows of a sheet,
with other clerks in between; `SkuHeld` is the index entry an open transaction holds.

**RequestNumbers**, **MasterData**, **Accounts.** A count, a lookup or the old roles are
read in one step, and written in another; the unique index is part of the write.

**Listings.** The list is a sequence in the order of its repository; `Change` inserts,
changes, removes or moves one row at a time (a draft deleted, a registration toggled, a
product renamed), or replaces the reader's roles. A page is answered in three steps: the
scope of the user, the rows by skip and take, and the count. Every list has its own
filter (`TransferListed`, ...); date ranges are left out, the reader turns pages forwards.

**Reports.** The clock counts half days, which is the grain at which a first day at
midnight UTC and a last day at midnight local time differ (`zone`). A finalization writes
its ledger rows with the time of the writing, under the lock of the balance row (`draft`),
and commits them later or rolls back; a transfer writes two rows, one lock after the other.
A report reads balances, opening and movements in separate queries between the commits of
others, so that a row of an earlier time can become visible between two of them.

**Desk.** One user and one request, of either kind. `Offers` is what the page makes of
roles and status, `Accepts` what the service tests, `Counts` the dashboard, `Previews` the
newest requests its cards open (`Limit` of them, of which `newer` are made before this one
matters); the request moves by anybody's hand.

**Records.** The comment is read, tested and written unconditionally; the upload writes
file then row, the removal file then row; `Die` stops a call between two steps.

**Timeline.** A comment's or attachment's event and row, a status change whose audit
row is written without waiting, fetches that overlap and answers in any order, a stream
that closes for good; the page's list is a sequence. A failed query of
`getTimeline` is answered with an empty list, as a success (`FailRead`, `ApplyFailed`); a
failed call leaves the list alone (`LoseFetch`).

**Session.** `storage` is what the tabs share, `signed` what a tab keeps, `news` the
storage events under way to it. A page reads the storage when it is loaded and listens
from a later task on; until then it is `deaf`, and a removal that falls into that time
is `missed`.

**Client** follows one table of the database at a time by the number of writes to it; an
answer is the version it has seen. `Screens` gives, for every routed page, its queries with
their keys and the tables they show, its calls, and the keys each call refreshes; the
table behind it is `Services`. Opening a page, focusing the window and a refresh fetch what
is stale; an answer in flight when its key is invalidated is discarded and asked again.
Answers may fail or never come.

**Filters** has the stock and the registrations page, which share the hook and differ in their
handlers: dropdowns are staged until applied, the modal is a copy, and a chip's removal computes
from the filters its rendering was drawn with.

The parts of Administration share no variable, and those of Application none; a
behaviour of their union is one behaviour of each, so it is enough to run one part in each
behaviour (`part`) and leave the others as they begin. `MCInit` fixes what the parts a
behaviour does not run begin with. The workflows' own composition, where
variables *are* shared, is `System`.

## 3. The runs

| run | instance | question |
|---|---|---|
| SystemRace | 2 requests of transfers and 1 of an adjustment, 2 calls of transfers and 1 of the adjustment, 1 product, 2 locations, quantities 0..1 | every safety property of transfers, with the real adjustments beside them: the lifecycle, how a row comes to be short of what is reserved, and the refinement |
| TransferLifecycle | 1 request over 2 products with 1 unit each, lines of 0..2, 2 calls | every call returns; the products of a request are reserved and moved together |
| AdjustmentRace | 1 request of up to 2 lines, 2 calls, 1 product, 2 locations, up to 2 units reserved on a row with 1 | every safety property of adjustments, on rows that transfers over-reserve, release and move |
| Administration | the six administrative parts, two calls each; per part below | what administrators change under requests under way, and the lists their pages read |
| Application | the six parts that show the database; per part below | what users see of a database that changes while it is read |
| FilterChips | stock and registrations page, 2 categories with a product each | disagreement with a document, section 4 |
| TransferOrphan, TransferOverReserve, TransferDraft, TransferStamp, AdjustmentTwice, CommentEdits | small | disagreements with documents, section 4 |

Bounds. `MaxQty` is the largest quantity of a line, `MaxChange` the largest change of
an adjustment line, `MaxLines` the lines of an adjustment; `MaxLedger` stops
adjustments, and in AdjustmentRace the movements that stand for transfers, on a row with that many
entries; `MaxHeld` bounds what those reserve of a row. Two requests and two
calls are what every race in the code needs: each operation reads once and writes
under one claim, so a race is between the read of one call and the commits of
another; the second request is there for the shared balance row. A row opens with one
unit, so that one reservation exhausts it and every quantity test is on its edge. Two
locations give a source and a destination; the products do not interact except in
one transaction, for which TransferLifecycle has two. In SystemRace the adjustment is
added to, submitted, approved and finalized (its other operations are those of AdjustmentRace), and
submitted before a transfer is created (`SubmittedFirst`): until then it reads and writes nothing they
share. Larger
instances than these add states and no new kind of step, and the theorems below do not depend on the sizes.

Administration:

| part | instance | enough because | properties |
|---|---|---|---|
| Guards | a transfer or an adjustment, 1 product, 2 locations, 2 users besides the administrator, 2 calls, two things closed, inactive or reassigned at a time | a hazard is one count or lookup against one workflow write; a transfer has both its ends, each location a user or none; the second user is the one who is left | `NoneStranded`, `ReadyMeansServed`, `DeactivatedNotNeeded` |
| Matrix | 2 products, 1 location, 2 SKUs, 2 clerks and an uploader, sheets with a blank row, a repeated SKU, an unknown reference | a hole needs one product and one location; a collision two writers of one SKU | `MatrixComplete`, `BulkReportTruthful` |
| RequestNumbers | 4 drafts, 2 creators, 3 attempts | to be outrun in every attempt takes as many other creations as there are attempts | `GivesUpOnlyWhenOutrun` |
| MasterData | 3 rows, 2 keys, 2 editors | a collision is two writes of one key; a third row tells an update from a creation | with the two above: `IdentifiersAreUnique` |
| Accounts | 1 user, 2 locations, 2 managers | users do not interact; two updates of one user do | `OneRoleEach` |
| Listings | lists of up to 3 rows, 2 locations, pages of 1 or 2 rows, 2 changes | three rows give three pages; one change shifts a page, two cancel out | `ReadThroughMissesFew` |

`Attempts` is 5 in the code; with 3 the loop has a first, a middle and a last try. A bound
of `Guards` worth knowing is `MaxRequests` = 1: the requests of different ids never read each
other, only the counts add them up.

Application:

| part | instance | enough because | properties |
|---|---|---|---|
| Reports | 2 stores, 3 ledger entries, half days 0..2, a server half a day ahead of UTC; a user of one store asks for the stock of now, of one day or of all until a day, the opname report is of both stores and one day | a period has entries before, in and after it, and each kind may be committed between any two queries; a behaviour ends with the report's answer, and a transaction begins only if the ledger has room for its row (`RoomInLedger`) | `ClosingIsReal` |
| Desk | one request of either kind, at its source, its destination or (for an adjustment) both, every role of the user; previews of 1 request, and up to 1 newer one | a counter and a button depend on one request and one user, a preview on whether it is full | `OfferedIsAccepted`, `PendingIsActionable` |
| Records | 2 tabs, 2 uploads, 2 removals, 1 call that dies | each call reads once; the limit of 3 edits is the code's (run CommentEdits) | `FilesBehindRows` |
| Timeline | 1 comment, with 2 status changes or 1 attachment (`StepOrPaper`); 2 fetches, any of which fails or gets lost | two answers can change places; the page looks at each event by itself | `ShownOnce` |
| Session | 2 tabs, 2 logins | a second login is what a late 401 of the first session can hit | `LogoutReachesEveryTab` |
| Client | each of five tables, 2 writes, 3 turns (2 for transfers, which the first page shows already) | one write before and one after a fetch has begun; a turn to the page, one away, one back | `OwnWritesShown` |

The five tables (users, registrations, attachments, units, transfers) are those whose pages
refresh keys in different ways: one key, several, another page's, a loop that goes on after
an error, a call that opens another page.

Properties that say "except": where the code cannot keep a promise in a race it does not
guard, the property names the race by a history variable or a count (`excused`, `overlap`,
`alone`, `moved`, `missed`, `Settled`) and nothing more; what is left is what a change of the
code could break without a test noticing.

Symmetry is used in the runs without liveness: requests and calls (in Administration the
calls of Guards alone, in Application the fetches of Timeline) are never compared except for
equality. Deadlock is not checked: after the last request is created and
finished the system rests, and the bounds on changes, writes and turns end the others.

**Fairness.** `FairSpec` has strong fairness of `Progress(h)` for every call, on which
only `EveryCallReturns` depends. Weak fairness is not enough because a call that
waits for the row an origin approval holds is enabled again and again, each time the
lock is free; the database grants a row lock in order of arrival, and the event loop
resumes every handler whose query has returned. No fairness is assumed for `Create`,
`Begin`, `Abort` or `Adjust`: clients need not call.

## 4. Where documents and code disagree

Each is a run of its own whose property TLC refutes.

- **TransferOrphan.** `cancel` and `reject` decide from the status they *read* whether
  to release. One that read SUBMITTED and claims after an origin approval cancels an
  approved request and leaves its reservation ACTIVE; `stock-consistency.md` says there
  is no such path. `ReservationsMatchStatus` states what remains true.
- **TransferOverReserve.** At REPEATABLE READ the aggregate of ACTIVE reservations is
  older than the row lock. `stock-consistency.md` says the second approval sees the first.
  So an approved transfer may lack the stock it reserved, and its finalization is refused;
  the balance stays non-negative, because the finalization tests the locked row
  (`OnHandNonNegative`), and nothing but such an overlap has this effect
  (`ShortfallOnlyByOverlap`).
- **TransferDraft.** Edits and deletions that read DRAFT take effect on a request that
  was submitted since.
- **TransferStamp.** The "authoritative historical record" of before-quantities is read
  outside the transaction that moves the stock.
- **AdjustmentTwice.** `approve` overwrites any status, so a FINALIZED adjustment can
  become APPROVED and be finalized again; the same write, and that of `submit`, revive
  CANCELLED and REJECTED requests, which `request-lifecycle.md` calls terminal.
- **CommentEdits.** `comments.md` says a comment is edited at most three times, enforced by
  the server. The count is read, tested and incremented in two queries: edits from two
  tabs at once pass the test together. In the same way an edit that read the comment before
  its deletion writes over the notice, where the document says a deleted comment cannot be
  edited.
- **FilterChips.** `filters-and-presets.md` says that removing an aggregated chip clears all
  selected values of its dimension. The chip calls the handler once for each value, and on the
  stock page the handler of a category computes from the filters of the rendering it belongs
  to, so the last call wins: one category is removed, the others stay, and the chosen
  products are gone. (The chips of products and locations clear every filter of that page,
  their own with them; the registrations page has no such chip for categories.)

Met while modelling, and not a run of their own:

- `dashboard.md` counts an approved adjustment among the actions of an OPERATOR ("waiting for
  finalization"), and says that My Actions has only what "the user can actually do". The server would
  finalize it for them, but the page has the button for managers only
  (`StockAdjustmentDetailPage.tsx:573`). `PendingIsActionable` states both sides.
- `timeline.md` says that a SYSTEM event disappears only if its audit row was never written.
  `getTimeline` answers a failed query with an empty list, and the page shows it.
- `AuthContext.tsx` listens for changes of the storage by other tabs "to sync state". A tab that
  was loading when the storage was emptied misses it and stays signed in until its next
  request; if somebody else has signed in by then, it shows the one user and asks as the other.

## 5. The proofs

TLAPS proves every safety invariant and action property the passing runs check, for every
value of the constants. What the constants must satisfy is named in the module that
declares them, and TLC evaluates it on every run of that module.

Transfers (`TransferProofs`, of `Spec`):

| theorem | property |
|---|---|
| `TypeCorrect` | `TypeOK` |
| `ClaimsExclude` | `CallInv`: an open origin approval is alone on its request and keeps it SUBMITTED |
| `LifecycleKept` | `LifecycleOrder` (a property of steps) |
| `ReservationsCorrect` | `ReservationsMatchStatus` |
| `CacheCorrect` | `CacheMatchesReservations` |
| `OnHandCorrect` | `OnHandNonNegative` |
| `LedgerCorrect` | `LedgerExplainsBalance` |
| `OverReservedOnlyByOverlap` | `ShortfallOnlyByOverlap` (of steps) |
| `MovedCorrect` | `MovedExactlyOnce` |
| `BookImplemented` | `Spec => Book!BookSpec` |

Adjustments (`AdjustmentProofs`, of `AdjustmentSpec`), and both together (`SystemProofs`, of
`SystemSpec`):

| theorem | property |
|---|---|
| `AdjustmentTyped` | `ATypeOK` |
| `LinesKeepFloor` | the lines of a finalization, tested one after the other, take no row below a floor |
| `ReservedSpared` | `AdjustmentSparesReserved` (of steps) |
| `AdjustedNonNegative` | `OnHandNonNegative` |
| `AdjustedLedger` | `LedgerExplainsBalance` |
| `ClaimsRespected` | `ClaimsRespectStatus` (of steps) |
| `FinalizedWhole` | `FinalizedAllAtOnce` (of steps) |
| `SystemTyped`, `SystemCache`, `SystemLedger`, `SystemNonNegative`, `SystemMoves`, `SystemReservations`, `SystemLifecycle` | the transfers' properties of those names, with real adjustments |
| `SystemShortfall`, `SystemSparesReserved` | `ShortfallOnlyByOverlap`, `AdjustmentSparesReserved`, each with the real other workflow |
| `SystemBook` | `SystemSpec => Book!BookSpec` |

Administration (`AdministrationProofs` and, for the lists, `ListingsProofs`; each theorem of the
part's own specification, the last three of the composition, `AdministrationSpec`):

| theorem | property |
|---|---|
| `GuardsTyped`, `NothingStranded`, `DeactivationSafe`, `ReadinessKept` | `GuardTypeOK`, `NoneStranded`, `DeactivatedNotNeeded`, `ReadyMeansServed` |
| `MatrixTyped`, `MatrixCorrect`, `SkusCorrect`, `ReportTruthful` | `MatrixTypeOK`, `MatrixComplete`, `SkusIdentify`, `BulkReportTruthful` |
| `NumbersTyped`, `NumbersCorrect` | `NumbersTypeOK`, `GivesUpOnlyWhenOutrun` and `NumbersIdentify` |
| `KeysCorrect` | `KeysIdentify` |
| `RolesCorrect` | `OneRoleEach` |
| `ReadThroughCorrect` | `ReadThroughMissesFew` and `ListTypeOK` |
| `IdentifiersUnique`, `AdministrationTyped`, `AdministrationCorrect` | `IdentifiersAreUnique`, `AdministrationTypeOK`, all of them at once |

Application (`ApplicationProofs`; the last two of `ApplicationSpec`):

| theorem | property |
|---|---|
| `ReportsTyped`, `ClosingCorrect` | `ReportsTypeOK`, `ClosingIsReal` |
| `OfferedAccepted`, `PendingActionable` | `OfferedIsAccepted`, `PendingIsActionable` |
| `RecordsTyped`, `AttachmentsWhole` | `RecordsTypeOK`, `FilesBehindRows` |
| `TimelineShowsOnce` | `ShownOnce` |
| `LogoutHeard` | `LogoutReachesEveryTab` |
| `OwnWrites` | `OwnWritesShown` |
| `ApplicationTyped`, `ShownTruly` | `ApplicationTypeOK`; all the others at once |

And `PostKeepsLedger` of StockProofs and `SumChange` of SumProofs, on which the core rests.

**Assumptions.** Transfers and the requests that get a number are
finite sets; the requests of the two workflows are different; the ledger's sources beside
a workflow's own (`OtherSources`, `OtherRequests`) are in `System` those of the other one. Opening balances and all bounds are naturals,
there is at least one tab, one attempt and one page size, page sizes are positive and a list
may hold two rows. The marks for no location, no SKU, no key and the uploader are not a
location, a SKU, a key or a clerk; comments and attachments have different ids, and none is 0.
The first roles give each user one of the assignments, and sheets are sequences of rows. No
assumption bounds how many calls, locations, products, users or fetches there are.

**The core.** No safety property is inductive alone. `TypeOK` needs to know that a
call is about a request that exists, and everything about statuses needs the row lock,
so the first invariant is `TypeOK /\ CallInv`. The lock is the heart of `CallInv`: an
open origin approval has tested SUBMITTED in an earlier step and writes later; it may
because every other status change requires the row unlocked, and the holder is unique.
`ReservationInv` adds to `ReservationsMatchStatus` that an ACTIVE reservation is positive;
its only hard case is the approval, which reserves something because the call read a
request with lines. `CacheMatchesReservations` is inductive given these: `SumProofs` shows
that a sum over a finite set changes by what one summand changes (the sum is a fold of
the community modules, so its lemmas go through the definition of the fold by
well-founded induction on the size of a set), and an approval adds to a request that
held nothing. Non-negativity follows from the tests on the locked rows, and for
adjustments from the cache being a sum of naturals. `LedgerExplainsBalance` is carried
by `PostKeepsLedger`. `MovedExactlyOnce` needs the converse as well: entries of
a transfer exist only where it has consumed (`PostedWhenConsumed`), so that a finalization
finds none. The refinement maps a finalization to `Move`, an adjustment to `Correct`,
and everything else to a stutter.

`ShortfallOnlyByOverlap` says where over-reservation comes from. By cases over the steps: a
release and a finalization take from the reservations of a row at least what they take from
the stock; an adjustment leaves what is reserved (through the cache, which is the sum); and an
approval reserves at most what is on hand beside the reservations of its view, so that what is
missing afterwards is what was reserved since. The run TransferOverReserve shows that it happens.

An adjustment's finalization is a loop over lines, of which two may be of one row and each is
tested against what the one before it left. `LinesKeepFloor` is its loop invariant (induction
over the prefixes applied): no row falls below a floor that its reserved quantity does not
undercut, nor below zero; a row that starts under that floor is one no line may lower.
`AdjustmentInv` is the shape of tables and calls with the ledger's chain and balances and
reserved quantities that are not negative. `SystemInv` conjoins the invariants of both
workflows; a step of one leaves the other's own variables alone, and what it does to the
shared rows is known from lemmas that hold of any ledger the workflow's requests may write to.

**Administration.** `GuardInv` adds to `NoneStranded`, beside the shapes, that a call is about
requests that are known (`KnownCalls`), that lines lie where a request may have them
(`LinesPlaced`), that a closing call which counted nothing leaves nothing behind but what is
`excused` (`CountsHold`), and what a test passed earlier still guarantees (`TestsHold`): a write
that comes late either finds the door as it was tested, or is written while it was closing and
recorded. `NumbersInv` rests on `CountKeepsUp`: until something is
deleted, no number exceeds the count of requests, and every try a create has lost was lost
to a number that has come into use since. `MatrixInv` needs what each open transaction has
read: a committed location is either among those a creating product has seen, or the two
overlap. `SkuInv` adds that an open transaction holds the index entry of its SKU alone.
`ReportInv` says that every filled row of a sheet is in exactly one place, still to be
inserted, refused or made. `DataInv` is uniqueness with the shape of the rows; `AccountInv`
strengthens the property to `SingleRole` and to the existence of the user a call in its
second step is about.

**Lists.** That turning the pages misses at most as many rows as came, left or moved is proved
with a potential. `Owed` adds up the rows of the read-through the pages passed without showing
them, the unread rows that are no longer listed, by how much the rows exceed the number last
counted, and by how many rows the view a query was made with differs from the list as it is.
`OwedInv` says that it never exceeds the number of changes, `reading.moved`; when the last
page has been answered, it is what was missed. A change that brings, takes or moves one row
alters the ranks of the others by at most one and all in one direction, so `Owed` grows by at
most one; a page takes from the list what it shows. Two views that differ in several rows (the
reader's roles are replaced between the scope and the rows) are compared one row at a time
(`ViewSwapped`), by induction on the size of the difference (`ViewsDiffer`). `ReadInv` adds
that what a page has not asked for yet is empty (`PageAsked`), and that the scope of an answer
under way is that of the reader as long as the read-through counts (`Scoped`).

**Application.** `BooksInv` has three parts. `BookInv` is the ledger of committed entries: each
location's are in the order of their createdAt, each carries the balance it left, and the
balance row is their sum. `DraftInv` is what keeps that order although a row is dated when it
is written and seen only after its commit: the row written by an open transaction continues
the committed balance and is dated no earlier than the last committed entry, because the
lock on the balance row is held from the writing to the commit. `ReportTrue` says what the
rows of a report show so far: the movements are those up to some entry committed since the
report was asked for; an overview, which reads its openings after them, closes at what the
ledger had at such an entry; an opname report opens truly as long as nothing of before the
period is committed meanwhile. A commit after the reading takes nothing from that
(`ReportKept`).
`DeskInv` is the table of roles,
statuses and cards; its theorems are case analyses over operations. `AttachmentInv` counts the uploads and removals between two
steps. `TimelineInv` has three parts: the tables and the stream, what an overlapping fetch has
read (a comment that was there when it began is still to be read or among its rows), and the
page's list, which holds no post twice. `SessionInv` is the property with the
shape of tabs and storage events: it is inductive because whoever empties the storage tells
every other tab (`StoreTells`), and one that does not listen yet has the event dropped or `missed`. `ClientInv` gives every cache entry a `floor`, the version of
the user's last write to what it shows: an answer behind it is stale, and one on the screen
behind it is being asked for. It needs that each call of each page refreshes every query that
shows what it writes, on its own page and on the one it opens; that is a fact about `Screens` and `Services`,
proved page by page (`CallsRefresh`).

**Composition.** A behaviour of Administration or Application runs one part. The invariant of
the whole is the conjunction of the parts' invariants; `PartsBeside` turns a
behaviour of the whole into one of each part, so the parts' theorems carry over.

Only model-checked: liveness (`EveryCallReturns`), which is out of the prover's reach, and the
disagreements of section 4, which are counterexamples.


## 6. Not modelled, and the plan

Done: the core, the administration, what the front end shows, and the proofs of their safety
properties. In order of importance, next:

1. `StockTx`: balance rows locked one by one in the order of the lines, and the
   database's deadlock detection, which `Abort` stands for now.
2. A second table for status events pushed without the id of their audit row (Timeline), and
   audit rows as part of the workflows rather than beside them.


Left out for good:

- passwords, signing and checking of tokens, contents of files: cryptography and I/O;
- goods (`modules/goods`), reached by no route, and the functions of `stock.service.ts`
  without callers (`applyMovementIn`, `applyMovementOut`, `moveStock`, `reserveStock`,
  `releaseReservation`);
- updates of fields that decide nothing (names, addresses, notes), but for the order of
  the lists they change;
- dates as filters of lists (reports have them), layout, forms and wording of pages, the
  file formats of exports;
- ties in the order of a list, which the database breaks as it likes (a list that is
  sorted by product name only);
- seed data and migrations.

`PROJECT.json` gives the status of every component.
