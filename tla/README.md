# Verification of the Sero Guld CRM

Sero Guld buys gold and silver over the counter. A clerk fills in a purchase
workspace, the customer confirms it, finalizing it issues a purchase document
(AFG, *afregningsbilag*) and a ledger transaction, and the bought items are
routed to stock or to melting. The program is a FastAPI backend over SQLite (the
desktop edition) or PostgreSQL, a React frontend and a Tauri shell.

This directory holds TLA+ models of that program, the TLC configurations that
check them, and proofs checked by the TLA+ proof system. Paths below are
relative to the repository; `app/` is `src/backend/app/`.

## 1. Inventory

| Component | State | Operations | What is hard | What makes it correct |
|---|---|---|---|---|
| Purchase workspace (`app/services/pos_workspace_mutations.py`, `pos_workspace_state.py`) | `pos_sessions` row (status, clerk, customer, a JSON `notes` column with revision, edit source, customer snapshot and form), `pos_session_lines` | create, save customer / draft customer, select, detach, replace sections, Office save, workbook import, line edits, cancel | several clerks, tabs and the Office callback save one draft at once; every save rewrites the whole JSON column | no lost update, no save from an old revision, a cancel closes drafts only |
| Finalize (`pos_purchase_finalize.py`, `pos_document_service.py`, `pos_transaction_service.py`) | `pos_documents`, `transactions`, `transaction_lines` | finalize a draft, finalize an edit draft | several statements, some on rows loaded before the lock | one document and one transaction per purchase, same amounts |
| Purchase documents (`pos_purchase_documents.py`) | the same rows | open for edit, delete | an edit draft outlives the document it edits | a deletion is final, an edit never issues a second document |
| AFG log and melt lots (`app/api/afg.py`) | `afg_melt_lots`, `product_id` and `melt_lot_id` of transaction lines | route a line, create, update, finalize, reopen, delete a lot | no locks; every check is made on rows read before the first write; document edits replace the lines; no foreign key is enforced on SQLite | lots refer to what exists and hold what is melted, a finalized lot is paid and keeps its lines |
| Inventory products and the web shop (`product_service.py`, `api/products.py`, `api/webhooks.py`) | `products.status`, destination, publication flags | create, update, change status, publish, unpublish, order, import, delete | two requests check a transition on the same row; publish waits for a remote shop between check and write; the shop's orders and imports write past the table of transitions | sold and melted are terminal but for an order of the shop |
| POS sale (`pos_service.py` `confirm_session`) | POS session, product, document, transaction | confirm | in-process lock with a bounded dictionary, row lock, many writes in one commit | all or nothing, one product sold by one session |
| Customer display (`realtime.py`, `pos_display_service.py`, `api/pos.py`, frontend `make/display/`) | hub: connections, previews, counters; kiosk page: snapshot, connection, polling | connect, preview, broadcast, revoke, cancel, poll, probe | callbacks of one event loop interleave at every `await`; two sources of snapshots (socket and poll), counters that restart | the kiosk shows nothing older than its label, misses no save, catches up, goes offline when the session is over |
| Purchase form autosave (frontend `make/alis/useAlisMakeState.ts`) | two halves of a form, their acknowledged keys, queues and debounce timers, the write chain, the revision | edit, debounce, save loop, retry, flush before finalize / view change / detach, select customer, cancel, background read | every answer may come after more typing, after another workspace was opened, or never; handlers act on the render they were made in | what looks saved is saved, nothing typed is lost or replaced, the revision never goes back |
| Workbook surfaces and exit flush (frontend `lib/saveCoordinator.ts`, `make/embedded/useEmbeddedWorkbookState.ts`, `DesktopLifecycle.tsx`, `SessionLogoutControl.tsx`, `SettingsWorkspace.tsx`; `app/services/document_artifact_edit.py`) | unsent cells and the save under way of every surface, the registry of save handlers, the flush, the ways out | edit, debounce, unmount, reload, Excel, close, logout, update, retry, leave unsaved | flush calls of the debounce, the unmount and three exits overlap; handlers time out and end late | no exit succeeds over unsent cells, an exit always ends |
| Sequences (`sequence_service.py`) | one counter row per kind | seed, consume, preview | two requests seed at once; the last number | no number twice |
| Excel sessions and Office host (`excel_session_service.py`, `office_host_service.py`, `document_artifact_service.py`) | artifact records, session locks | open, sync, callback, reconcile | duplicated and late callbacks | a stale workbook never wins |
| GDPR, Uniconta, antifraud | request and task rows | run, retry, resolve | retries, partial failure, remote systems | terminal tasks stay so, no duplicate push |
| Desktop backup and pending draft (`main.rs`, `backup.rs`, `pending_purchase_draft.rs`) | files beside the database | save, restore, recover | crash between two file operations | an old or a new state, never a mix |
| Customers, rates, auth, OCR, AI, reports, renderers, imports, other frontend views, scripts | | | request-local, network or layout | not a subject of these models |

The components meet in the database: every HTTP request has a database session
of its own (`app/database.py`), and nothing else orders two requests than row
locks, conditional UPDATEs, unique constraints and SQLite's single writer. The frontend
meets the backend in requests that carry a base revision and in two WebSockets;
each page is one JavaScript event loop. The
hazards found while reading, each at its line, are in `PROJECT.json`.

## 2. Plan

1. `PurchaseWorkspace`, with the abstract `PurchaseLedger`: the draft, finalize,
   edit and delete protocol on both databases. **Done: checked and proved.**
2. `AlisAutosave`: the client of module 1, the form that produces the saves and
   the finalize module 1 receives. **Done: checked and proved.**
3. `ExitFlush`: what the desktop does with unsent cells before it goes away.
   **Done: checked and proved.**
4. `CustomerDisplay`: the clerk's page, the hub and the kiosk page, over the
   revisions module 1 commits. **Done: checked and proved.**
5. `MeltLots`: the routing of ledger lines, the products it creates with their status machine, and the
   melt lots. Module 1's purchases and edits supply and replace its lines.
   The stock page, the shop's orders,
   its import and publication write the same products. **Done: checked and proved.** Left for a module of its own:
   the sale at the till (`confirm_session`) and the soft delete of a product.
6. `Sequences`: seeding and consuming, with theorems that no number is given
   twice and that the counter is monotone.
7. `OfficeSession`: the workbook callback protocol, refining module 1's
   `SaveOfficeDocument` and `ImportWorkbook`.
8. `GdprTasks` or `Uniconta`: retries of remote copies; and `PendingDraft`: the
   desktop shell's draft file over a crash.

Recursive operators are not needed by any of them; sums over lines are sets of
lines in the models.

## 3. Modules

| Module | Content |
|---|---|
| `PurchaseWorkspace` | the state machine and its properties |
| `PurchaseLedger` | what the ledger promises, without requests, locks or drafts |
| `MCPurchaseWorkspace` | symmetry for TLC |
| `PurchaseWorkspaceProofs` | inductive invariant, type correctness, voiding, deletions, edits |
| `PurchaseLedgerProofs` | refinement of `PurchaseLedger`, agreement of the books |
| `PurchaseSavesProofs` | serial saves, stale saves, cancel |
| `AlisAutosave`, `MCAlisAutosave` | the purchase form, its server and network; the operator's habits for TLC |
| `AlisAutosaveProofs` | types, one save at a time, revisions, keystrokes |
| `AlisSavedProofs` | the form knows the server's revision, what looks saved is saved, nothing typed is dropped |
| `ExitFlush`, `MCExitFlush` | workbook surfaces, save registry and exits; documents and habits for TLC |
| `ExitFlushProofs` | types, one flush, guarded cells, nothing lost, nothing forgotten |
| `CustomerDisplay`, `MCCustomerDisplay` | clerk page, hub and kiosk page |
| `CustomerDisplayProofs` | types, faithful snapshots, no save missed, previews in order |
| `MeltLots`, `MCMeltLots` | lines, products and melt lots; symmetry for TLC |
| `MeltLotsProofs` | all properties of `MeltLots` |

The modules do not extend each other. What `AlisAutosave` and `CustomerDisplay` assume of the
server is what `PurchaseWorkspace` shows of it: a save is accepted from the
current revision of a draft only and moves it by one (`StaleSavesRefused`,
`SavesAreSerial`). `MeltLots` takes from it that a purchase gets its lines once and
that an edit deletes and inserts them in one commit.

### State of PurchaseWorkspace

| Variable | Code |
|---|---|
| `session[s]` | a `PosSession` row; `notes` is the parsed JSON column: `rev` = `workspace_revision`, `edit` = `edit_source_session_id`, `snap` = `workspace_customer`, `form` = the rest. Status `unused` is a primary key not inserted yet |
| `lines[s]` | the session's `PosSessionLine` rows, as one value of `Rows`; the value stands for the lines and for what they are worth |
| `doc[s]`, `tx[s]` | the `PosDocument` and the `Transaction` of the session, each unique per session in the schema |
| `finals[s]` | how often a finalize of `s` was answered 200 |
| `lock[s]` | holder of the row lock; on SQLite a writer that has flushed holds every entry |
| `req[w]` | the request a worker serves: its operation, how far it is (`phase`), what the client sent (`base`, `val`), and the rows its ORM session has *seen* (`seen`, `rows`, `src`) |

A request goes `Load` → `Lock` → one committing action, or `Reject` (an early
return), or `Abort` (exception, lost client, crash). A finalize of an edit draft
has two more reads in between. A request commits once, at its end, so its writes
are one action; its reads are separate actions wherever another request can
commit in between.

Two details of the ORM decide what can go wrong, and both are operators:

* `Written(loaded, new, current)`: the unit of work sends a column only if its
  new value differs from the *loaded* one. A write that looks like an assignment
  may therefore leave what another request has written.
* `Relocked`: `_lock_workspace_session` re-reads the row
  (`populate_existing`), `finalize_purchase_workspace` does not. It gets the lock
  and keeps the attributes it had.

`RowLocks` selects the database. `TRUE`: PostgreSQL, READ COMMITTED, `FOR UPDATE`
blocks. `FALSE`: SQLite, `FOR UPDATE` is dropped by the dialect, reads are not
part of a transaction, and the first flush takes the whole database.

`FinalizeWorkspace` chooses whether the notes column is sent, since whether the
stored payload changes depends on its formatting.

### State of AlisAutosave

| Variable | Code |
|---|---|
| `server[s]` | the workspace as the API knows it: two halves, `workspace_revision`, still a draft |
| `session`, `rev` | `initializedSessionRef`, `workspaceRevisionRef` |
| `form`, `acked` | what is on screen; `autosaveKeyRef` and `customerAutosaveKeyRef`, the content acknowledged last |
| `queue`, `timer` | `queued...PayloadRef`; the payload a running debounce timer has captured |
| `chain`, `put` | `workspaceWriteChainRef` as the sequence of save loops, and the PUT of the first one |
| `refresh`, `call` | a GET of the workspace; a POST outside the chain (finalize, cancel, select, detach) |
| `flow` | an asynchronous handler that flushes before it acts, with what its closure captured: the sections' terms, the customer, whether a mutation was pending |
| `shortcut` | what the Ctrl+S handler's closure captured, the same three; it is made anew only by its effect's dependencies |
| `retryArmed`, `retryWaits` | `autosaveRetryTimerRef`, and the loops a fired retry awaits |

An action is one task or one continuation of the event loop. `Micro` says that a
continuation is due, and no keystroke, timer or answer is taken before it. The
two halves, sections and customer, have different answers: the customer's goes
through `applyWorkspace` and replaces both halves, the sections' does not.
`EffectTimer` and `EffectQueue` are the autosave effects React runs after every change; they are
part of the action that made the change.

A half has two parts, `live` and `held`. `live` stands for the gold, silver, bar, PTPD and extra rows, which every handler
reads through refs at the moment it needs them. `held` stands for what a handler has from the render it was made in: rates,
VAT, numbering, calculators, payment method, bank, notes and invoice rows (the *terms*), and all of the
customer. So what a flush sends, `Sections(flow)`, is the rows as they are with the terms as captured
(`flushPendingWorkspaceSync`), and what it asks afterwards (`FlowPending`) is asked of the same mixture. For the buttons
the render is the one of the click; for Ctrl+S it is that of the last change of the workspace object. In the automatic invoice
mode a change of the weighed rows changes the invoice rows with them, so an edit may move either part or both
(`NewValues`).

### State of ExitFlush

| Variable | Code |
|---|---|
| `server[d]` | the document: the value of its cells and the revision of its artifact record, which `apply_cell_patch` commits one after the other |
| `cell[s]`, `base[s]` | `cellEditsRef` and `revisionRef` of a mounted surface |
| `calls[s]`, `saving[s]` | the calls of `flushPendingChanges` under way, and `savePromiseRef` |
| `handlers[d]` | the registry of `saveCoordinator.ts`: which surface's handler stands for a document |
| `flush`, `discard` | `activeFlush` and `discardRequested` of the module |
| `exit[x]` | close guard, logout button, update installer: flushing, asking, confirming, discarding |
| `typed`, `given`, `covered` | history: the last value typed, what the operator gave up, and how far the edits of a flush reach |

A flush call that finds a save under way awaits it. When that save ends, the
call that made it and those that awaited it go on in one burst; all of them then
send what was typed meanwhile, because only the first one asks again whether a
save is under way (`SaveEndsWell`).

A reload flushes first, unless there is a conflict; when its flush fails the operator may let it drop the
cells (`GivesUp`). The backend's part is `app/services/document_artifact_edit.py`: under the document's lock the revision of
the request is compared with the record's (`Commit`), then the values are committed, and the revision is raised by the
reconciliation that follows. When the second fails the answer is a rejection over values that are stored
(`CommitValues`), which counts as a mishap.

### State of CustomerDisplay

| Variable | Code |
|---|---|
| `row`, `book` | the session's row; history: the content of each revision |
| `form`, `crev`, `cseq`, `cpend`, `ctimer` | clerk page: content, known revision, `previewSequenceRef`, `pendingPreviewPayloadRef`, debounce |
| `csock`, `cwire` | the clerk's socket and the previews on it |
| `put`, `emit` | a save under way, and its `_emit_session_state` |
| `preview`, `counter` | `_display_preview` and `_display_preview_counters` of the hub |
| `joined`, `zombie` | the kiosk's socket in the hub's set; a dead one that is still there |
| `init`, `initRow` | `display_socket` between its registration and its first frame |
| `sock`, `inbox`, `conn`, `polling`, `poll`, `shown` | the kiosk page |

A keystroke is a number, so a content is newer than another if it is larger. `Bare` is the content of a snapshot
whose rows could not be built: `_attach_display_workspace_rows` then returns the snapshot without them, and
`_emit_session_state` falls back on the session in memory. Such a snapshot has the current revision, no rows, and the totals of
the stored lines, whatever their age. The one-second cache of rows in `pos_display_service.py` has the revision in its
key and so cannot change a content.

### State of MeltLots

| Variable | Code |
|---|---|
| `line[l]` | a `TransactionLine`: not inserted, live or deleted; `product_id`, `melt_lot_id` |
| `product[p]` | a `Product`: status, `operation_destination`, whether `woocommerce_product_id` is set (`shop`) |
| `lot[L]` | an `AfgMeltLot`: status, whether the payout and the sale date are filled in |
| `req[w]` | the request a worker serves, with the rows it has read: what the handler checks, what the unit of work compares with, and the queue a new lot's `before_*` totals add up |
| `raced` | history: products and lots that a request has written although the row was no longer as it had read it |

A request is a load, which reads and checks, and a commit, which writes. A handler's first
write takes SQLite's only write lock, and what it queries after that it sees as it is; so the newest draft
lot of a route (`RouteLots`) and the free lines of a new lot (`Attached`) are those of the commit,
everything else that a commit depends on is what the load saw. A request refused at
the load is no step. `Written` is the unit of work, as in `PurchaseWorkspace`.

The code has no version check on any of these rows, so most properties hold but for
a row a request wrote over a change it had not seen. `raced` names exactly
these rows; no other row is excepted. Without the exception TLC finds a counterexample
to each of them in seconds:

* a publication or an import that read the product in stock puts it up for sale after another
  request has melted or sold it (`TerminalStays`, `LotHoldsMelted`);
* two routes of one line, neither of which read a product, one to melt and one to stock: the line ends up in a lot
  with the product in stock (`LotHoldsMelted`);
* an update or a deletion that read the draft is committed after the finalization
  (`FinalizedIsPaid`, `FinalizedLotsLoseNothing`), where
  `src/docs/PROJECT_SYSTEM_GUIDE_TR.md:869` calls a finalized lot immutable;
* a route that read a free line puts it into the draft although a lot has taken it since (`LinesStayInLot`).

One way out of *melted* needs no race, so both properties name it instead of excepting a row: an order of the
web shop. The webhook, the synchronization of recent orders and that of one product pass over what is sold and sell everything
else (`app/api/webhooks.py:160-183`, `app/api/products.py:579-632`), also a product that was published once, came back and was
melted. `src/docs/HANDOVER.md:795-796` calls both states terminal. The import of the shop's catalogue, in
contrast, leaves both alone (`LoadImport`). `Smelted` is what `LotHoldsMelted` asks of the lines of a lot: melted, or
sold and known to the shop. The run reaches both the sale of what is melted and the rows written over unseen.

Further facts that came up while reading and that no property states:

* `src/docs/PROJECT_HEALTH_AUDIT.md:85` says that only a draft lot without lines can be deleted;
  `delete_afg_melt_lot` deletes any draft and lets its lines go.
* `app/services/product_service.py:528` says that there is no tolerance in the comparison of
  `expected_updated_at`; the code allows one second. The field is optional, so it excludes no behaviour here.
* A new lot's totals count the queued lines of older lots again, and a route attaches
  lines to a draft without adding them to its totals. `CreatedLotIsCounted` says what does hold.
* The queue goes by the destination first (`_map_destination_to_state`): a product with another destination
  that is melted from the stock page is melted but not in the queue.

### Bounds

PurchaseWorkspace:

| Constant | Values | Why enough |
|---|---|---|
| `Sessions` | 1 to 3 | a source, its edit draft, and a second edit draft or an unrelated session |
| `Workers` | 2 | every race in the code is between two requests; a third adds no new pair of reads and writes |
| `Rows` | none, a (b) | b where amounts have to differ |
| `Customers` | 1 | a customer or none; the properties compare, they do not count |
| `Bases`, `MaxRevision` | up to revision 3 | two accepted saves, so a base can be older than the current revision by one, and be right |
| `Traffic` | per run | the operations whose interleaving the run asks about |

`MaxRevision` is a guard of `Claimable` (a save at the bound is rejected); it is the
only artificial guard, with `CreateEditDraft` needing an unused session. The proofs hold for
every value of all of them. `finals` is bounded because a finalize needs a draft
as seen, and no session becomes a draft again.

Creating a session waits for `lock[s] = None`: on SQLite an insert waits for the
writer; on PostgreSQL nobody holds a lock on a row that does not exist.

AlisAutosave:

| Constant | `alis_careful` | `alis_habits` | Why enough |
|---|---|---|---|
| `Sessions` | 1 | 2 | with two, answers come for a workspace that is no longer shown |
| `MaxEdits` | 2 | 1 | two edits: one is typed while the other is saved. With `revert`, one edit gives two values |
| `Partial` | the customer value 1 | the same | a customer that autosave leaves alone |
| `MaxFaults` | 1 | 0 | a lost request, a lost answer, a failed POST |
| `MaxWrites` | 0 | 1 | another surface moves the revision under the form |
| `Habits` | none (`alis_dirty_finalize`: `keys`) | all | see section 4 |

ExitFlush: one surface of one document, two flush calls (`Slots`; one is kept
for the exit, so a debounce, an unmount or Excel can hold the other), all three ways
out, two edits (the second while the first is being saved), one mishap: 327,381 states. The proofs are
for any number of each; with `reopen` and two surfaces of one document TLC finds
the counterexample of section 4 in seconds.

CustomerDisplay: one keystroke saved on top of the loaded session, so that there are two
revisions with different contents, each previewed at least once; one preview on
the wire; one fault. A fault is a dropped socket on either side, a poll that is late or fails, a snapshot that cannot be built,
a restart of the backend or a reload of the clerk's page; the run has 637,002 states. The kiosk's inbox is not
bounded: its length is limited by the previews there can be.

MeltLots: one document with two line ids (two lines, or one and the line an edit puts in its place), two
products (two routes of one line create one each), two lots (a finalized one and the draft
beside it), two requests. Lines are routed to stock or melted; one product is handled by
the till and the shop, which publish, import, order and sell it (`Changed` is `sold`, `Imported` is `for_sale`); one lot is
saved, finalized, reopened and deleted. That reaches every status but `undecided`, which the proofs
cover with every other value of the bounds.

## 4. Runs

| Run | Database | Properties | Shows |
|---|---|---|---|
| `workspace_postgres` | PostgreSQL | `TypeOK`, `CancelledIsVoid`, `DeletionsAreFinal`, `CancelOnlyDrafts`, `RequestsEnd` | no interleaving of line edits, cancel, finalize, edit, delete leaves a counting transaction under a cancelled session, or revives a deleted one; no deadlock between requests, no lock left behind |
| `workspace_books` | SQLite | `LedgerSpec`, `BooksAgree`, `EditsIssueNothing` | the transactions implement `PurchaseLedger`; document and transaction state the same amount, for sessions finalized once; saves never lose the edit source, so an edit never issues a document |
| `workspace_saves` | SQLite | `SavesAreSerial`, `StaleSavesRefused` | the compare-and-swap on the notes text is enough without locks, workbook imports included |
| `finalize_twice` | PostgreSQL | `FinalizeOnlyDrafts` | **violated**: see below |
| `cancel_finalized` | SQLite | `CancelOnlyDrafts` | **violated** |
| `import_unclaimed` | PostgreSQL | `ChangesAreClaimed` | **violated** |

| Run | Properties | Shows |
|---|---|---|
| `alis_careful` | `SavedMeansSaved`, `RevisionKnown`, `NothingDropped`, `FinalizedAsShown`, `EditsSettle` | for an operator who finishes one half before the other and takes nothing back: what looks saved is saved, the form's own saves keep its revision current, no payload is dropped, rows and terms finalized are those shown, every edit settles |
| `alis_habits` | `TypeOK`, `SavesTakeTurns`, `KeystrokesSurvive`, `RevisionsGrow` | for every habit, two workspaces and another writer: saves take turns, late answers replace nothing typed, the revision never goes back |
| `alis_dirty_finalize` | `DirtyBlocksFinalize` | **violated** (with the habit `keys`) |
| `exit_flush` | `TypeOK`, `EditsGuarded`, `NothingForgotten`, `ExitLosesNothing`, `ExitsShareFlush`, `ExitsResolve` | unsent cells keep a handler, what a surface no longer holds is on the server, no exit succeeds over unsent cells, exits share one flush and end |
| `customer_display` | `TypeOK`, `ShowsItsRevision`, `NoSaveMissed`, `PreviewsInOrder`, `CatchesUp`, `GoesOffline` | the kiosk shows nothing older than its label (but for snapshots without rows), misses no save between its first snapshot and the broadcasts, gets previews in order, ends up with what is saved, and goes offline when the session is over |
| `melt_lots` | `TypeOK`, `NoDanglingLots`, `LotHoldsMelted`, `FinalizedIsPaid`, `FinalizedLotsGainNothing`, `FinalizedLotsLoseNothing`, `LinesStayInLot`, `CreatedLotIsCounted`, `TerminalStays` | routes, sales, shop orders, imports, publications, document edits and lot requests in any order: lots refer to what exists and hold what went to the smelter, a finalized lot is paid, gains nothing and loses nothing, the lines a new lot counts are its own or in another lot, sold is final, and melted but for an order of the shop; all but for rows written over unseen |

Deadlock checking is on in the `PurchaseWorkspace` runs and in `customer_display`. The other
systems may stop: an operator stops typing, a cancelled form is empty, a program
that was closed is gone, and `melt_lots` runs out of ids. Symmetry (workers, sessions, customers,
line contents; lines, products, lots) is used in safety runs of `PurchaseWorkspace` and in `melt_lots`,
never with liveness.

**The operator's habits.** Two modules have a set `Habits`: what the operator may do beyond the
ordinary. They separate what the code guarantees against anyone from what it
guarantees only if the operator waits. The latter is a choice of the
run and an assumption of the theorem. Except for `switch`, each habit that is left out breaks a property, and TLC
shows how within seconds when the habit is added to the run:

* `revert` (take a change back while it is being saved): the form compares with the last
  acknowledgement, sees nothing to save, and the save under way then puts the abandoned value on
  the server while the form shows the old one as saved (`SavedMeansSaved`).
* `mix` (edit one half while the other is unsaved): the answer to a customer save
  goes through `applyWorkspace` and replaces rows typed since. `KeystrokesSurvive` names this exception.
* `typeOn` (edit while a flush or a POST is awaited): rows typed while a finalize is under way
  start no autosave (`Muted`), and nothing starts one when the finalize gives up because of them
  (`NothingDropped`); they wait for the next edit or flush. `exit_flush` includes the habit of the same name.
* `keys` (finalize with Ctrl+S): the handler flushes the customer and the terms its closure captured. Older terms are put on the
  server, found to be saved, and finalized while the form shows newer ones (`FinalizedAsShown`); and with a third edit
  an older payload takes the queue place of a newer one, which stays on screen, unsaved and
  unscheduled (`NothingDropped`). It is also what `alis_dirty_finalize` needs, see below. `alis_careful` and the theorems
  about saved forms exclude it: they say nothing about a finalization by Ctrl+S.
* `switch` (to the workbook view and back) breaks none of them. It is left out of `alis_careful` for
  its size and is in `alis_habits`.
* `reopen` (`ExitFlush`): opening a document again whose unmounted surface could not save replaces
  that surface's handler; its cells are abandoned (`EditsGuarded`).
* `excelType`: a cell typed while Excel opens stays unsent under Excel, and every
  flush then returns at once (`ExitLosesNothing`).

**The pause of a finalize.** The finalize button waits 400 ms and flushes a second time, with the terms of its own render. What
another surface saved and an artifact signal read in during that pause is sent over, under the revision just read; the form then
shows as saved what the server no longer holds. With `MaxWrites = 1` TLC breaks `SavedMeansSaved` in this way within seconds. The run
`alis_careful` has no other writer, and the theorems assume `Rests`: no other terms are read in during a pause.

**What `workspace_books` leaves to the proofs.** Its traffic has no line edits: with the line endpoints
in it, which change lines without a lock between the two reads of a finalize, the run does not end in time. For them `BooksAgree` and
`LedgerSpec` rest on the theorems `AmountsAgree` and `LedgerImplemented`, which hold for any `Traffic`.

**Fairness of PurchaseWorkspace.** `FairSpec` assumes strong fairness of `Proceed(w)`, the steps of a
request already accepted. The server runs the coroutine of every request and the database
queues waiters of a row lock in order of arrival, so a request that can go on
again and again does go on. `Arrive` and `Abort` are not fair: clients need not
send anything. SQLite has a time limit instead of a queue (15 s, then an error,
that is `Abort`), so the property is stated for PostgreSQL.

**Fairness of the frontend modules.** Nothing is assumed of the operator in any of them.

* `AlisAutosave`: the server answers and continuations run (weak: nothing
  disables them). A timer that is due and an answer that has arrived are strong: continuations
  delay them again and again, but each burst is finite and the event loop takes
  tasks in order. A retry timer re-arms itself for ever, so a lost PUT is tried
  again; `EditsSettle` excepts a form whose revision the server has left behind (`Stuck`),
  since every further PUT is refused.
* `ExitFlush`: nothing is assumed of the server. `runWithTimeout` makes a handler overdue, promises
  that are settled are heard, and the shell answers a confirmed exit. That is
  all `ExitsResolve` needs, and the reason the timeout is there.
* `CustomerDisplay`: timers and intervals fire, frames and answers arrive unless a
  fault takes them, the event loop runs every task. Faults are finite (`MaxFaults`). All are
  weak: each stays possible until it happens or a fault takes its cause away. A dead socket need not be
  noticed (`DropNoticed` is not fair).

### What the violated runs say

* `finalize_twice`: `app/services/pos_purchase_finalize.py:40` locks the row, and checks the
  status of the instance loaded before it waited. Of two finalizes sent
  together, the second passes the DRAFT check and rewrites the document of the
  finished purchase, where `src/docs/AI_START_HERE.md:56` promises a 409. The transaction already exists
  and is returned unchanged, so document and transaction can differ afterwards; that is why
  `BooksAgree` speaks of sessions finalized once.
* `cancel_finalized`: on SQLite `cancel_session` has neither a lock nor a
  conditional UPDATE, and cancels a workspace that was finalized since it was read.
* `alis_dirty_finalize`: the Ctrl+S handler of the purchase form lives in an effect
  whose dependencies include neither the customer draft nor the terms. Pressed right after a customer edit it asks
  a closure that still holds the older customer, finds nothing unsaved, and finalizes without the edit.
* `import_unclaimed`: the workbook imports that are not an Office save pass
  `claim_revision=False`, so the sections change under an unchanged revision;
  `src/docs/DATA_STORAGE_AND_EXCEL.md:62` says every such change claims one.

Two properties are stated for one database only, for a reason TLC shows when they are checked on the
other. `CancelledIsVoid` needs PostgreSQL (the cancel above breaks it on
SQLite). `LedgerSpec` and `BooksAgree` need SQLite: on PostgreSQL an edit that
read its source before a delete committed still replaces the amounts of the
transaction the delete has voided. The void state itself survives, which is `DeletionsAreFinal`.

## 5. Proofs

### PurchaseWorkspace

| Theorem | Property | Assumes |
|---|---|---|
| `TypeCorrect` | `TypeOK` | |
| `Invariance` | the inductive invariant | |
| `VoidWhenCancelled` | `CancelledIsVoid` | `RowLocks` |
| `DeletionsStand` | `DeletionsAreFinal` | |
| `NothingIssuedByEdits` | `EditsIssueNothing` | |
| `LedgerImplemented` | `LedgerSpec` | `~RowLocks` |
| `AmountsAgree` | `BooksAgree` | `~RowLocks` |
| `SerialSaves`, `StaleSaves` | `SavesAreSerial`, `StaleSavesRefused` | |
| `CancelsDrafts` | `CancelOnlyDrafts` | `RowLocks` |

They hold for any sessions, customers, line contents, workers and bounds, under
`ConstantsAssumption` (the null value is none of the others) and
`NoneAssumption`.

None of the properties is inductive: they speak of the rows, while the writes
are computed from what a request saw earlier. The invariant `IInv` adds that link:

* `RequestOK(w)`: what a request carries, by its operation and phase;
* `BooksOK`: a document and a transaction exist together, never under a draft,
  and only under a session that edits no other;
* `SeenOK`: what a request has seen still names the document its session edits,
  a document it has seen is still there, and void if it was void;
* `LocksOK`: on PostgreSQL a request holds its session's lock from `Lock` on and a
  save or a cancel sees the row as it is; on SQLite the finalize of an edit holds
  the database from `ReadSource` on and sees the source as it is;
* `CancelledIsVoid`, with row locks.

The argument treats no action twice. A step that leaves the rows alone and moves
one request on is an `Advances` step, and `AdvanceOK` shows that it keeps the
invariant; a step that writes is a `Commits` step, and so is `CommitOK`'s. One
lemma per action shows which of the two it is (`RowSteps` for the ten that write only their
own session). `Evolves` is what no step undoes: `SeenOK` is preserved because each
of its parts is. The properties then follow from the invariant and one case per
committing action.

For the ledger the refinement mapping is `Books`. Without row locks
`ReadSource` takes the database, so from there to the commit of an edit the source
is as read, as `LocksOK` says, and each step issues, revises, voids or
stutters.

### AlisAutosave, ExitFlush, CustomerDisplay

| Module | Theorem | Property | Assumes |
|---|---|---|---|
| `AlisAutosaveProofs` | `TypeCorrect` | `TypeOK` | |
| | `OneSaveAtATime` | `SavesTakeTurns` | |
| | `NeverBack` | `RevisionsGrow` | |
| | `TypedSurvives` | `KeystrokesSurvive` | |
| `AlisSavedProofs` | `RevisionStaysKnown` | `RevisionKnown` | `CallsAwaited` |
| | `CleanIsSaved` | `SavedMeansSaved` | `Careful`, `WorkspacesRest` |
| | `FinalizesTheRowsShown` | `FinalizedAsShown` | `Careful`, `WorkspacesRest` |
| | `DropsNothing` | `NothingDropped` | `Careful`, `WorkspacesRest` |
| `ExitFlushProofs` | `TypeCorrect` | `TypeOK` | |
| | `OneFlush` | `ExitsShareFlush` | |
| | `UnsentCellsGuarded` | `EditsGuarded` | `"reopen" \notin Habits` |
| | `NothingLost` | `ExitLosesNothing` | neither `"reopen"` nor `"excelType"` in `Habits` |
| | `LastValueKept` | `NothingForgotten` | `"reopen" \notin Habits` |
| `CustomerDisplayProofs` | `TypeCorrect` | `TypeOK` | |
| | `ShownIsFaithful` | `ShowsItsRevision` | |
| | `SavesReachKiosk` | `NoSaveMissed` | |
| | `NumbersGrow` | `PreviewsInOrder` | |

They hold for any workspaces, surfaces, documents, flush calls, habits not
excluded, and bounds, under the named assumptions of the modules.

* **AlisAutosave.** `IInv` is the type invariant with two additions: the chain
  holds no half twice and a PUT belongs to its head (`SavesTakeTurns`, without
  which `Settle` could take another loop's turn away), and a GET or an applied answer names a
  workspace (`KnownSessions`, without which its revision has no type). The two
  action properties follow from it by cases on the answers; every other step leaves form
  and revision alone (`OthersMoveNothing`).
  `RevisionKnown` is proved for any habits and any number of workspaces under a premise about behaviours,
  `CallsAwaited`: another workspace is opened only when no POST is awaited. The premise is needed:
  leave a workspace while the selection of a customer is awaited, come back, save, leave again; the late
  answer brings the first workspace back under the revision before that save (TLC, two workspaces, two edits).
  `KnownInv` says that no answer is ahead of the server, that a selection is awaited in
  its own workspace, and that whenever the form is behind, the answer of a PUT or POST that tells the revision
  is there (`Told`).
  The last three theorems are about an operator, not about any: `Careful` says that `revert`, `mix`, `typeOn` and `keys` are
  not among the habits, and the premise `WorkspacesRest` that another workspace is opened only
  when no PUT, no POST and no handler of the one shown is under way, and that no other terms are read in while a finalize
  pauses (`Rests`). Each is needed: TLC breaks `SavedMeansSaved` with any
  of the first three habits, with two workspaces when one is left while a PUT is awaited, and with another writer during a pause;
  `keys` breaks `FinalizedAsShown` and `NothingDropped`. So none of the three says anything about Ctrl+S.
  `switch`, other writers, losses, refusals and retries are not excluded, and the bounds are any.
  `SaveInv` has two halves. `TurnsInv` says which things can stand beside which: a PUT under way is for the workspace
  shown, its revision and an unsaved half (`PutOwn`); what is queued is news or its loop is still to come, and
  a timer holds the form as it is (`QueueOwn`); one half is unsaved at a time (`OneDirty`); nothing is, while a selection
  is awaited (`Alone`); the terms and the customer a handler has captured are those the form shows for as long as it runs (`FlowOwn`, `Asked`);
  a GET that could still be used was sent with nothing unsaved (`QuietRead`). `DataInv` says what each answer means:
  if it names the server's current revision, it holds what the server holds. Without the first half the second does not
  survive the step in which an answer is applied; without `PutOwn` an overtaken PUT could later look current.
  Values are told apart by `UsedInv`: everything in the system was typed before, so a new keystroke differs from
  all of it. `SaveInv` was checked as an invariant by TLC before it was proved.
  `LatestInv` is for what is dropped: for an unsaved valid half without a timer, what is queued is what is shown,
  and so is what is under way when nothing is queued behind it (`LastKept`). So an answer to it acknowledges the half or
  queues it again (`LastAnswered`), and no loop throws it away as already acknowledged. It needs `Busy` (the finalize flag that mutes the
  autosave is set only while a finalize is under way, so a keystroke starts a timer).
* **ExitFlush.** Three invariants, each using those before it. `ShareInv`: at most
  one call of a surface is for an exit, and then the flush is open and waits for
  that surface; so a second flush cannot begin beside it. `GuardInv`: a surface with unsent
  cells is the registered one of its document, and one that is leaving the registry is unmounted,
  so nothing more is typed into it. `LossInv`: an open flush with
  no failure has sent everything older than itself on the surfaces it no longer waits for, an exit
  that is confirming rests on such a flush, `discard` stands only while an exit discards, and a
  surface under Excel has nothing unsent. The last two are what a handler that returns at once
  (`NothingToFlush`) relies on. `KeepInv` is for what the form of a sheet no longer holds: no base
  is ahead of its document, a cell that is unsent is the last value typed, an accepted request whose value
  was the last one typed still is what the server has, and a request that could still be accepted does not undo it, unless
  the server took that value by half (`CommitValues`): then no call knows it, and the cell is still to be sent or was given up (`Loose`).
* **CustomerDisplay.** `ShowsItsRevision` speaks of the window only; a late frame
  may put anything there that was queued. `IInv` says of every snapshot and frame in the cache, on
  the wires, in the kiosk's inbox and in a late poll that it is `Faithful` to the book, of every
  row read once that it was in the book, and of the form that it is not behind the
  row. A snapshot without rows is `Faithful` whatever the book says: its label is all that is claimed of it. Commits append to the book and so keep all of it. `DeliveryInv` (no save missed): while no
  emission is due, a registered kiosk of an open session shows the row's revision, or a frame on its way
  carries it, or the first snapshot, which is read after the registration, will. `OrderInv` (previews in
  order): revisions never fall from the cache along the wire to what the page will send, so the hub's counter
  for a revision starts once; and while a preview of the current revision is under way to the kiosk, the cache
  has one of that revision and its counter is not behind.

### MeltLots

| Theorem | Property |
|---|---|
| `RowsInvariance` | the inductive invariant `RowsInv` |
| `TypeCorrect` | `TypeOK` |
| `TerminalIsFinal` | `TerminalStays` |
| `LotsOfLinesExist`, `FinalizedLotsArePaid` | `NoDanglingLots`, `FinalizedIsPaid` |
| `NothingJoinsFinalizedLots`, `NothingLeavesFinalizedLots` | `FinalizedLotsGainNothing`, `FinalizedLotsLoseNothing` |
| `LinesDoNotChangeLots`, `CreatedLotsCount` | `LinesStayInLot`, `CreatedLotIsCounted` |
| `LotsHoldMelted` | `LotHoldsMelted` |

Every property of `MeltLots` is proved, for any lines, documents, products, lots, workers and destinations, under
`ConstantsAssumption` and `BoundsAssumption`. Three invariants carry the argument:

* `RowsInv`: types; a deleted line has neither product nor lot; and for every request in
  flight what it has read still means something: the product a route has seen exists, and the line has another one by
  now only if somebody raced; what it is about to write was allowed from the status it saw, by the table or as an order of
  the shop, and a publication or an import has seen neither sold nor melted
  (`RouteOK`, `StatusOK`, `LotOK`). A request that another one's step leaves alone keeps this because no step
  undoes the rows it speaks of (`Evolves`, `OthersStay`).
* `NoDanglingLots` and `FinalizedIsPaid` are inductive relative to it.
* `MeltInv`: what is to be melted, what a lot being made has queued, and what is in a lot is `Smelted`
  (`Held`): melted, or sold by the shop since; each but for raced products. `LotHoldsMelted` alone is not inductive: a lot takes its
  lines from the queue read before.

`StepKinds` sorts the steps into five kinds, `RouteWrites`, `StatusWrites` and `LotRows` say once what a route, a request about
a product and a lot request leave in the rows, and `LineMoves` how a line's lot can change at all; the action
properties follow from these by cases.

### Only model-checked

Liveness is outside this prover's reach: `RequestsEnd`, `EditsSettle`, `ExitsResolve`, `CatchesUp`,
`GoesOffline`. Every other property of a passing run is stated by a theorem; those of `alis_careful` and three of `exit_flush`
under the habits and premises named above. Some facts lie on the proof side only: line edits for the books,
and whatever the bounds of section 3 leave out. The four violations are TLC's.

## 6. Not modelled

* Prices, rates, weights and rounding: a value of `Rows` stands for priced
  lines. The quote, live-rate and manual-rate columns of a draft are left out with them.
* What follows a commit: audit rows, mail, accounting push, display snapshots,
  the generated workbook file. A crash there loses them and changes nothing modelled.
* Document numbers (module 6 of the plan); uniqueness of document and
  transaction per session is the schema's.
* The 409 for a customer with an open draft: any client may waive it
  (`force_new_session`), so it excludes no state.
* The linking of imported historical documents to customers.
* `AlisAutosave`: one workspace is shown at a time and at most one POST, one flushing handler and one GET
  are under way, which the pages' disabled buttons and query keys bring about for the
  most part. The contents of a half are numbers: which cell, the
  arithmetic of rows, normalisation of an echoed customer and the price repair flag are
  not told apart. Resuming a workspace is `Open` with the server's current content. The
  retry backoff is a timer that may fire at any time.
  The finalize POST carries notes, bank details and the VAT choice once more, beside what the server holds
  (`useAlisMakeState.ts:1627-1636`); the POST of the model has the revision only, so `FinalizedAsShown` is about the sections stored.
* `ExitFlush`: the cells of a surface are one cell. The preview page, whose handler only
  refuses, and the purchase form, which registers no handler, are left out; so are a surface that is
  given another document while a save is under way and a change of language during a close. The
  native close may come at any time, also during a logout; the other exits may not begin under a dialog.
* `CustomerDisplay`: one session, one token, one kiosk. The control page, a second kiosk, two sessions
  that share a token, and the `clerk:update` frames the page ignores are left out. Accepting the
  socket, `onopen` and the reading of the first row are one step, since the registration precedes all of
  them; an emission reads the row and broadcasts in one step, since the next commit
  waits for the answer of the save it belongs to. A poll is answered at once, or it is late and then
  counts as a fault. The fallbacks for a snapshot that cannot be built are modelled and taken to succeed; what happens
  when a fallback raises too is not. With two keystrokes and no fault the safety properties hold as well, in a space too
  large to be one of the runs.
* `MeltLots`: the other metal's bucket, which no request about this one touches; weights, prices and
  expenses; routes of several lines with their savepoints; lot history; products that no line stands for, and the soft
  deletion of products; the sale at the till is its status change only. PostgreSQL, whose row locks in `create_afg_melt_lot` only remove behaviours. The
  deletion of a purchase, to which the log pays no attention. `PUT` and `PATCH` of a product could set
  a destination directly; no page of the program sends one.
* All other components of the table in section 1; the reason is given per component in `PROJECT.json`.
