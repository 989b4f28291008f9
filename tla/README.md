# GC-Bridge: a TLA+ verification project

GC-Bridge is a Django application that sits between two web shops (Shopware 6
and Shopware 5), the ERP system Microtech (reached through a GraphQL wrapper
that executes one job after the other) and the people who work with it.  Its
hard part is not the data it maps but the protocols by which it moves them:
jobs that run elsewhere for minutes, webhooks and polls that both tell how they
ended, Celery messages that are lost with the worker that took them, rows that
imports, tasks and people write without seeing each other, and administrators
who cancel, abort, resume, merge and delete while it happens.  This project
models those protocols, and the computations that two parts of the program do
independently of each other.

There is one module per component, listed under "The modules".  `JobPromise` is
an abstract specification; the `...Proofs` modules hold the proofs; the `MC...`
modules and their `.cfg` files hold the model-checking instances.
`PROJECT.json` maps every definition to the lines it stands for.

To check: `tlc -config MCJobSentinel_order.cfg MCJobSentinel` (and so on, see
"Runs"); `tlapm` on `JobSentinelProofs.tla`, `OrderProofs.tla`,
`CustomerChangeProofs.tla`, `CatalogProofs.tla`, `LeaveProofs.tla`,
`ProductAutoSyncProofs.tla`, `BackupModeProofs.tla`, `AiTranslationProofs.tla`.


## The system

| Part | State | Operations | Modelled by |
|---|---|---|---|
| Microtech job sentinel (`microtech/services/job_sentinel.py`, `microtech/tasks.py`, `microtech/views/webhooks.py`) | `MicrotechGraphQLJob` rows; the wrapper's own jobs; two kinds of Celery messages | submit, webhook, beat tick, poll, continuation, cancel, delete, cleanup | `JobSentinel`, `JobPromise` |
| Order sync workflow (`orders/services/order_sync_workflow.py`) | `MicrotechOrderSyncWorkflow` rows with `current_step`, `current_job`, `step_log` | start, advance, submit a step, write back, reconcile, abort, resume, restart | `OrderSyncWorkflow` |
| Product auto sync (`products/services/product_auto_sync.py`, `products/signals.py`) | `ProductSyncJob` rows, Celery messages | enqueue on commit, get-or-create, dispatch, process | `ProductAutoSync` |
| Maintenance and backup window (`microtech/services/backup_mode.py`, part of the sentinel) | a flag with a deadline, maintenance jobs of kind `wrapper` | enqueue, submit, mark entered and left, cancel, watchdog | `BackupMode` |
| AI translation (`ai/services/translation.py`, `ai/tasks.py`) | a state row per field and language, Celery messages | scan, dispatch, ask, store, reject, retry, tell the shop | `AiTranslation` |
| Order customer change (`orders/services/order_customer_change.py`) | change requests as jobs, later ones supersede earlier ones | request, read the customer, apply | `CustomerChange`, `AddressBook` |
| Order import, customer merge (`orders/services/order_sync.py`, `customer/services/customer_merge.py`, `customer/views.py`) | customers, addresses, orders that share them | import, match, set defaults, merge, delete | `AddressBook` |
| Transfers of a customer (`customer_merge.py`, `customer_sync.py`) | the same addresses in three systems | Shopware to Django, Django to Shopware, Microtech to Django | `AddressMirror` |
| Direct Microtech upserts (`orders/services/order_upsert_microtech.py`, `customer/services/customer_upsert_microtech.py`) | BelegNr of an order, numbers of a customer's addresses | find, create, update, remember the number | `VorgangUpsert`, `CustomerUpsert` |
| Order rules (`orders/services/order_rule_resolver.py`, `microtech/rule_engine/`, the rule pages) | a rule in two forms, a list and a tree | match, edit, turn into positions by two paths | `OrderRules` |
| Prices (`products/tasks.py`, `microtech_sync_products.py`, `expired_specials.py`, `microtech_update_prices.py`) | price, rebate and special in Django and Microtech | edit, push, batch import, expiry | `PriceRoundTrip` |
| Price increases (`products/services/price_increase.py`, `products/admin.py`) | an increase with its positions | reload, targets, apply, announce, restore | `PriceIncreases` |
| Shopware product sync (`shopware_sync_products.py`, `shopware/services/product.py`, `product_media.py`) | prices and images in Shopware, an image hash in Django | purge, upload, upsert, create, remember the hash | `ShopProduct` |
| Variants (`shopware/services/variant_sync.py`) | a family's children in Shopware and its memory of them | sync, release, detach | `VariantFamilies` |
| Categories (`products/services/category_sync.py`, `shopware/services/category_content.py`) | tree and assignments on both sides | paged import, push of a category's products | `Categories` |
| Shopware 5 ids (`shopware5_category_mapping.py`, `shopware5_duplicate_category_merge.py`) | a unique id in two local trees | map by path, merge duplicates, delete them | `Shopware5Mapping` |
| Human resources (`hr/services/`) | leave, sick leave, company and public holidays | request, decide, declare; cost per year; month and overview | `LeaveRequests`, `WorkingTime` |
| AI rewriting, newsletter, e-mails, documents, time account, issues, database backup, live events, dashboard, admin pages, small applications | records of their own, or pure I/O and presentation | | not modelled; the reasons are in `PROJECT.json` and under "Not modelled" |

How the parts interact:

    product saved --on_commit--> ProductAutoSync --Celery--> sync commands
                                                    |   PriceRoundTrip, ShopProduct,
                                                    |   VariantFamilies, Categories
    admin: write the order to Microtech             v
          --> OrderSyncWorkflow --submit_wrapper_job--> JobSentinel --GraphQL--> wrapper
                     ^                                     ^   ^                   ^
                     |                                     |   +---- webhook ------+
                     +---- process_continuation <--Celery--+   +---- poll (beat)   |
                     |        (advance, then delete_job)                           |
    beat: reconcile_failures             BackupMode: the gate before every call ---+
                                                                                   |
    Shopware --order import--> AddressBook --VorgangUpsert, CustomerUpsert---------+
                                   ^   ^          ^
    CustomerChange (a job that     |   |          OrderRules: which positions
    reads a customer) -------------+   +--- AddressMirror: whole customers, by hand

The order workflow and the sentinel share a table: `process_continuation` calls
`advance`, which submits the next job and returns; then `delete_job` deletes the
finished job, and with it every workflow that still refers to it
(`_delete_local_job_references`).  `abort` and `reconcile_failures` write rows
that the sentinel believes to be its own.  `AddressBook`, `CustomerUpsert` and
`AddressMirror` share the Address rows: each has the others' writes as actions
of its environment (`MergeMovesAddress`, `MovesIn`, `EntryEdited`).

What is hard here, and what the properties are about (the complete list, with
lines, is under "hazards" in `PROJECT.json`):

* a call of the wrapper between two transactions: everything read before it may
  be stale after it (poll, cancel, delete, submit, window, translation);
* claims that are time windows (120 s) instead of locks, so that a claim can
  lapse while its holder is still working;
* Celery acknowledges a message before executing it, so a crash loses it, and
  the row must bring the work back;
* `select_for_update` on rows that do not exist yet, which locks nothing;
* UPDATEs that do not look at the status they replace (`_handle_poll_failure`,
  `reconcile_failures`), and saves that write a whole row read earlier (every
  admin form);
* answers that are lost: nobody knows whether the other system has executed a
  call, and a retry has to find out;
* several calls that replace a set (delete, upload, upsert), where any may fail;
* the same row found by id, by number or by place, by whoever comes next;
* two computations of the same thing (two rule engines, two paths to a Vorgang,
  month and overview, two years of a request) that must agree.

What makes each component correct:

* *Sentinel.*  A continuation runs only after the wrapper has completed the job;
  an ended job stays ended; a job is given up only when its attempts are used up;
  a row is deleted only after the wrapper's record; every tracked job ends; no
  continuation of a successful job is lost.
* *Order workflow.*  Steps reach Microtech in their order; success means that
  every step was carried out; no workflow waits for ever; the order is created
  once; what is aborted stays aborted; what has failed can be resumed.
* *Product auto sync.*  No change is forgotten; every queued job is processed;
  when all is quiet the target holds the newest content.
* *Backup window.*  At rest the flag tells whether Microtech is open, and the
  window is left again.
* *AI translation.*  What the scan passes over is translated; every change is
  translated in the end, and the shop hears of it.
* *Customer change.*  An older answer never reverts a newer choice.
* *Addresses.*  An import gives the order its addresses, or at least their places
  and names, and the customer one default each; an order is never lost; an
  undisturbed transfer has brought over all there was; every address that was
  written is in Microtech once, under its number.
* *Vorgang.*  One per order, whatever times out.
* *Rules.*  Both engines match the same orders; both paths write the same
  positions.
* *Prices.*  A rebate survives specials; an expired special leaves Microtech; a
  price is increased once.
* *Shop.*  The hash tells which images are there; prices come back after broken
  runs; variants match their articles.
* *Categories.*  The local tree stays a tree; after both sides have synced they
  agree; a Shopware 5 id is neither lost nor moved to another path.
* *Leave.*  No day is charged twice; the two years of a request add up to its
  cost; the month to be locked is what the employee was shown.


## The modules

A *thread* (clerk, agent, desk, run, client, office, command) is a Celery worker,
a management command or a web request.  A transaction, a single UPDATE, a call
to another system and a hand-over to the broker are one step each; between two
steps everything else may happen.  What a thread has read and still uses is kept
with it, and its `pc` (or `at`) says where in the code it stands.  A broker is a
number of undelivered messages per job: messages of one kind for one job are
interchangeable, and may be delivered in any order.  History variables
(`taken`, `crossed`, `overlapped`, `overtaken`, `doubt`, `met`, `rushed`,
`reverted`, `lastTransfer` and the like) are read by no guard; the properties
use them to name the cases in which the code does not keep a promise.

### JobSentinel

| TLA+ | code |
|---|---|
| `row` | the `MicrotechGraphQLJob` row: status, poll attempts, is `external_job_id` stored (`ext`), is `next_step` one of the pending texts (`pending`), is `next_poll_at` null or past (`due`) |
| `remote`, `erased` | what the wrapper made of the job; whether its `deleteJob` has removed it |
| `pollQ`, `contQ` | messages `poll_graphql_job` and `process_graphql_job_result` |
| `handled` | history: how often the continuation handler was entered (0, 1, more) |
| `Create`, `SubmitAccepted`, `SubmitRaises`, `SubmitSaved` | `submit_wrapper_job`: the row, the call, its outcome, the stored id |
| `Webhook`, `AfterUpdate`, `Dispatched`, `DispatchFails` | `handle_webhook`, `_after_terminal_update`, `_dispatch_continuation` |
| `BeatClaimsPolls` ... `BeatEnds` | `poll_due_jobs` |
| `PollStarts`, `Fetched`, `FetchRaises`, `PollApplied` | `poll_job_once`, `_handle_poll_failure` |
| `ContinuationStarts`, `HandlerEntered`, `HandlerReturns`, `HandlerRaises` | `process_continuation` |
| `CancelRequested`, `CancelAccepted`, `CancelRaises` | `cancel_job` |
| `DeleteByHand`, `CleanupOld`, `DeleteReads`, `Erase...`, `Dropped` | the callers of `delete_job`, and `delete_job` |
| `Crash`, `Elapse`, `RemoteEnds` | a worker dies; a time passes; the wrapper ends a job |

Abstractions.  `next_poll_at` is only ever compared with now: `Elapse` may make
any future time past at any moment, so a claim or a timeout may always run out
while its work is still going on.  The batch limit of 50 exceeds every instance.
Payloads and results are left out.  What a continuation does is left to
`OrderSyncWorkflow`; here it returns or raises.  Whether a job has a
continuation, is deleted afterwards, is touched by a person or has a registered
handler is fixed per job by constants.  Cleanup takes jobs that nothing is
concerned with any more (`OldEnough`): thirty days exceed every timeout of the
code, and a model without clocks has to say so.

### JobPromise

What the rest of the program may rely on: a job is opened, closed, removed, never
reopened; it succeeds only if the wrapper has completed it; the continuation runs
only for such a job.  No threads, messages, polls or webhooks.
`JobSentinel!KeepsPromise` is the refinement, with the statuses grouped by
`PhaseOf`.

### OrderSyncWorkflow

One order and its successive workflows; workflows of different orders share
nothing.

| TLA+ | code |
|---|---|
| `wf` | the rows: status, `current_step`, `current_job`, the completed steps of `step_log` |
| `job`, `remote` | the rows and the wrapper's side of the jobs of the chain |
| `heard` | jobs whose continuation has been started and need not be sent again |
| `told` | workflows that have written the customer number to Shopware |
| `IsApplicable`, `NextStep` | `_is_step_applicable`, `next_step` |
| `StartForOrder`, `Proceed`, `Finish` | `start_for_order`, `_advance` |
| `Writeback`, `Submit`, `SubmitFails`, `Link`, `StepFails` | the local step, `submit_step`, `_mark_step_failed` |
| `ContinuationStarts`, `Apply`, `ApplyIgnores`, `ApplyFails` | `advance` |
| `Blame`, `Erase`, `Unlink`, `Drop` | the end of `process_continuation`, `delete_job` |
| `ReconcileReads`, `ReconcileWrites` | `reconcile_failures` |
| `AbortReads`, `AbortWrites`, `Resume` | `abort`, `resume`; `restart` is an abort followed by a start |
| `JobEnds`, `PollsExhausted`, `Crash` | what the sentinel does to a job, as far as the chain sees it |

The sentinel's part is reduced to what `JobPromise` and its liveness properties
say: a job that SUCCEEDED was completed, its continuation may be entered, more
than once (`MaxDups`), and is sent again when a crash has lost it.  The facts
that decide which steps apply (new customer, same addresses, other defaults in
Microtech) are constants of an instance.  They are fixed for an order except
that the code learns some of them from the first step's result; the steps that
ask for them come later in the chain.  Row locks are explicit only where a
holder does more than one step (`Unlocked`: the abort).

### ProductAutoSync

One product.  Its content is the number of changes so far, a target holds the
number it was last given.  `Change` is a committed save; `GetQueued`, `Create`,
`CreateCollides`, `GetAgain` are the steps of `get_or_create` and of the `except`
around it; `Dispatched`, `StoreTaskId`, `DispatchFails` are `_dispatch_job`;
`Claim`, `ReadProduct`, `WriteTarget`, `CommandFails`, `Finish` are
`process_job`.  `changed_fields` and `trigger` are merged by the code but decide
nothing, so they are left out and joining a job changes no state.  A sync
command reads the product once and writes it once.

### BackupMode

A slot holds one maintenance job (`mjob`) and the thread that works for it
(`desk`); `window` is the wrapper's side, `flag` the cached flag with its
deadline.

| TLA+ | code |
|---|---|
| `PersonEnqueues`, `WatchdogEnqueues`, `CreateRow` | `enqueue_microtech_worker_operation`: the check that no job is active, which locks nothing when there is none, and the row |
| `SendMessage`, `SendRefused`, `ClaimQueued` | the Celery message and `submit_queued_microtech_worker_operation` |
| `CallConfirmed`, `CallRaises` | the synchronous call, which may take effect although its answer is lost |
| `Mark`, `RecordSuccess` | `mark_entered`, `mark_left`; the row's end |
| `PersonCancels`, `DeskDies`, `DeadlinePasses` | `cancel_job`; a crash; the flag's deadline |

The slot of an ended job is used again, so the number of jobs is not bounded.

### AiTranslation

One field of one object in one language: `source`, `setup` (the configuration),
`entry` (the `AITranslationState` row), `english` (the target text), `told` (what
the shop was sent), `queue` (messages by retry count), `clerk` (the threads).  A
hash is the pair of text and configuration.

| TLA+ | code |
|---|---|
| `ScanReadsRows`, `ScanReadsObject`, `ScanSaves` | `queue_pending_translations`: rows first, objects later, then the row is set PENDING |
| `MessageSent`, `MessageRefused`, `RetryByHand` | the dispatch, and the admin action |
| `TakeUp`, `StoreAnswer`, `RejectAnswer`, `AskFails`, `RetryOrGiveUp` | `translate_state` with its two transactions and the task's retries |
| `Announce`, `AnnounceRefused` | the message that updates Shopware |
| `SourceEdited`, `TranslationEdited`, `SetupChanged`, `ClerkDies` | people; a crash |

### CustomerChange

One order; `read` are the CUSTOMER_READ jobs of its requests, numbered by
creation, `linked` the request whose customer the order has, `applied` the
requests carried out.  `RequestChecks` and `RequestCreates` are
`request_change`; `Submitted`, `SubmitRefused`, `ReadEnds`, `SentTwice` is what
the sentinel does; `ApplyChecks` (outside the transaction), `ApplyRejects`,
`ApplyCommits`, `ApplyEnds`, `NoteFails` are `apply_result`.  What the import
writes is `AddressBook!CustomerRead`.

### AddressBook

Customers (`known`), address rows (`book`: owner, contact, Shopware id, number,
two default flags) and orders (`orderRow`).  What an address says is a record:
`place` (street, postal code, city), `name`, `mail` and `rest` (company,
department, phone, country).

| TLA+ | code |
|---|---|
| `Matching` | `_upsert_address` and `_find_contact_address`: the row of this Shopware id, else one of the same place and name, else one of the same place and e-mail, else a new one |
| `Write`, `Filled` | what `_upsert_address` overwrites, which is everything; the customer's e-mail stands in for a missing one |
| `PairWritten`, `DefaultsWritten` | the order's addresses; the customer's defaults, which may be both, one or none |
| `ServesBoth`, `Settled` | the end of `_upsert_customer_block`: one address serves both purposes, defaults stand in for missing addresses and the other way round |
| `OrderArrives` | `upsert_from_shopware_order`, for everything in `ShopTells` |

`ShopTells` and `ErpTells`, what the other systems may tell, are parameters: any
sets of answers that `TellingsAssumption` allows.  `latest` remembers what the
last step has imported.  `CustomerRead` is the import from Microtech;
`MergeMovesOrders`, `MergeMovesAddress`, `MergeReplacesAddress`, `MergeEnds` are
`_merge_addresses` and its surroundings; `AddressesDeleted`, `DeleteChecks`,
`DeleteCascades` are the deletions.  One transaction is one action.

### AddressMirror

One customer: `entries` are the Address rows, `shopEntries` with `shopBill` the
addresses in Shopware, `erpEntries` those in Microtech (postal address with
contact), `shopLinked` whether `Customer.api_id` is set.  A `transfer` reads one
side once and then works through `todo`: An address says `spot` (street and postal code), `wording` (names, company, city),
`phone` and `rest` (country, department, e-mail).  `PullStarts`, `PullSaves`,
`PullEnds` is
`_shopware_to_django` (by id, by street and postal code, or a new row; at the end
the rows not seen are deleted); `SendStarts`, `SendPatches`, `SendCreates`,
`SendMisses`, `SendFails`, `SendEnds` is `_django_to_shopware`; `FetchStarts`,
`FetchSaves`, `FetchEnds` is `sync_from_microtech` with `_upsert_local_address`;
`DeletesInShop`, `Unlinks`, `Relinks` are `delete_shopware` and
`update_shopware_id`.  `Patched` is what an address of the shop says after a push: the spot and the
wording as they are converted (`Placed`, `Worded`: "." for what is missing, names
for other names), the phone if there is one, and its own rest; one that is created
(`NewOnes`) has the country of an address that was there.  `Carries` says that the
shop has what it was sent.  The conversions are parameters.

Not modelled: title and third name; spots that differ in case only (a push matches
them, a pull does not) or that lack only one of street and postal code.  The
contacts of a postal address are read together with it.

### VorgangUpsert and CustomerUpsert

The direct ways, in which a thread waits for every answer.  In `VorgangUpsert`,
`jobs` is the wrapper's queue, `belege` what is in Microtech, `stored` the
order's BelegNr: `Start`, `AsksForStored`, `Clears`, `Searches`, `Persists`,
`Updates`, `Creates`, `Ends`, `Breaks` follow `upsert_order`; the wrapper takes
jobs in their order, also those nobody waits for any longer.  In
`CustomerUpsert`, `mine` and `numbers` are the addresses and their
`erp_ans_nr`, `account` the postal addresses in Microtech: `StartsUpsert`,
`WritesAddress`, `AddressRefused`, `SavesNumber`, `EndsUpsert`, `ClientBreaks` are
`upsert_customer`, `StartsLinking`, `TransfersValues`, `SavesLinks` the page that
links an order's addresses by hand, `MovesIn` a merge and
`ChangesCustomerNumber` `update_erp_nr`.

### OrderRules

One rule as the flat list (`conditions`, `logic`) and as the tree (`root`,
`child`, `parted`).  `FlatMatches` and `TreeMatches` are the two engines,
`Backfill` the migration; every page that saves a condition, a group or the
rule's logic is an action.  `GraphqlPositions` and `ComPosted` are the two paths
from the rule's actions to positions.  What a condition says of an order is left
open: the property quantifies over all outcomes.

### PriceRoundTrip and PriceIncreases

`PriceRoundTrip`: one product's price in Django (`price`) and in `microtech`; the
writers `push`, `sync` and `expiry` each read, write later, and may fail or be
overtaken; `BatchReads` and `Imports` are the scheduled batch with its
continuation.  `PriceIncreases`: the increase, its position and the prices of two
channels; every request (`office`) keeps what it loaded, so a page opened before
an increase was applied may save after it.

### ShopProduct and VariantFamilies

Both follow a command call by call (`RunStep`, `Next`), with two runs at once and
runs that break.  `ShopProduct`: price rows and image relations in `shop`,
`imageHash` in Django.  `VariantFamilies`: `shopFamily` in Shopware (children with
their options, the parent's settings), `synced` the family's memory, which is
written only at the end.

### Categories and Shopware5Mapping

`Categories`: `shopRow` and `local` are the tree on both sides with the
assignments of one variant family; `import` reads page by page while Shopware is
edited, then writes the tree, the order and the assignments; `push` is the task
that makes Shopware's assignments equal to the local ones.  `Shopware5Mapping`:
`treeRow` are the local categories in the canonical and in the duplicate tree,
`mapper` and `merger` the two commands with the plan they made before their
transaction.

### LeaveRequests and WorkingTime

`LeaveRequests`: one employee's vacation requests, sick leaves, company and public
holidays over two years, days in half days; people fill in forms and decide at
`desk`s, which check on what they loaded and save the whole row.
`WorkingTime` has no state of its own: it defines the month's summary
(`MonthTarget`, `MonthLeave`, `MonthSick`, and `MonthCompany`, the company holidays
that count as vacation, bridge days or not) and the overview (`Reason`,
`ShownVacation`, `ShownPlan`, and `ShownClosed`, company holidays that are no
bridge days but count in the month) over the same rows, each as its service
computes it, with the rounding of half an odd number of minutes.

### MCBackground and MCRecords

Instances that hold several components side by side, which share no rows.  The
variable `focus`, chosen at the beginning, says which of them moves; the others
stay in one initial state.  A run is the union of the components' runs.
`MCBackground` has the focuses price, shop, translation, window, variants,
increase and mapping (Shopware 5); `MCRecords` workflow, chain, change,
addresses, vorgang, rules, categories, leave, upsert and mirror, of which the
first two are the order workflow from two places and leave includes the
definitions of `WorkingTime`.

## Runs

| Run | Properties | Instance and why it is enough |
|---|---|---|
| `sentinel_order` | `NoResurrection`, `KeepsPromise` (and with it `ContinuationNeedsSuccess`) | one job that is kept and that a person may cancel and delete, two threads, two attempts, a crash: every pair of handlers meets on the row |
| `sentinel_live` | `GivenUpOnlyWhenExhausted`, `NoForgottenRemoteJob`, `TrackedJobSettles`, `ContinuationConcludes` | under `FairSpec`, one disposable job, two attempts, two queued polls (so that a poll can be outdated by another), one crash or broken connection between any two steps |
| `orders_live` | `NobodyWaitsInVain`, `WaitingEnds` | under `LiveSpec`: the whole chain of a new customer, its repair from a refused writeback on, and, from a late failure on, a duplicate, an intervention and a fault |
| `product_sync` | `NoForgottenChange`, `QuietMeansCurrent`, `QueuedIsProcessed` | three threads, three changes, three jobs, a fault: two requests that race for a job while a worker claims it, and two workers on the same target |
| `background` | `TypesOK`; prices: `RebateSurvives`, `ExpiredSpecialLeaves`; shop: `HashTellsMedia`, `ShopCatchesUp`; translation: `SkippedIsTranslated`, `ShopIsTold`, `ChangesAreTranslated`; window: `FlagTellsWindow`, `FlagIsCleared`; catalogue: `VariantsMatch`, `IncreasedOnce`, `IdsAreKept` | seven components, with fairness for those that beat keeps going.  440 000 states |
| `records` | `TypesOK`; workflow: `ChainIsCarriedOut`, `OneCallRepeatedPerAct`; customers: `LatestRequestWins`, `ImportSettlesAddresses`, `OrdersAreNotLost`, `MirrorHolds`, `UpsertLands`; orders: `OneVorgang`, `EnginesAgree`, `PathsAgree`; categories: `TreeStaysATree`, `SyncsAgree`; leave: `NoDayIsChargedTwice`, `YearsAddUp`, `OverviewAgrees` | nine components, the workflow from two places, without fairness.  600 000 states |
| `sentinel_twice` | `DispatchedOnce` is violated | finding 1 |
| `orders_twice` | `CreatedOnce` is violated | finding 2 |
| `orders_resume` | `CreatedOnce` is violated | finding 3 |
| `orders_abort` | `AbortIsFinal` is violated | finding 4 |
| `orders_failed` | `FailedCanBeResumed` is violated | finding 5 |
| `backup_stuck` | `OverdueFlagIsCleared` is violated | finding 6 |

Every property of a passing run has a mutant in `PROJECT.json`: a definition of
the code changed the way a plausible bug would change it, under which the run
finds the property violated.

### Bounds

Rows of one table do not influence each other except through the number of free
threads and the beat's batch, so one job shows what two would, as long as a
thread is free: the instances have two or three.  Counts above the bound of a
queue (`MaxQueue`) are not distinguished; a second message is enough to be a
duplicate of the first.  Crashes, broker outages, refusals and lost connections
share the bound `MaxFaults` (`MaxMishaps`, `MaxOutages`, `MaxBreaks` ...); each
may strike at every step.  People's interventions have a bound of their own.

The workflow with interventions *and* faults begins in the state a person finds
after a late failure (`LateInit`: the wrapper refused `set_default_addresses`),
because the states before repeat those of the shorter chain; this state is
reachable from `Init` and its history (jobs, verdicts, step log) is set
accordingly.  `orders_live` has the whole chain besides, undisturbed
(`FreshInit`), and its repair by a person after a refused writeback (`EarlyInit`).
`OneCallRepeatedPerAct` speaks of runs without duplicates and faults; the part
`chain` of `records` checks it with `CalmNext` (the steps that are neither) from
the middle of the chain (`MiddleInit`: it waits for
`clear_default_billing_address`) to its end, with one intervention at any point
and a second workflow after an abort.

* *Customer upsert*: two addresses and two numbers (`MaxNumbers`).  A Microtech
  that is full refuses like any other refusal.
* *Leave*: a calendar of three days with the end of the year after the second;
  two requests, two desks, one half day; the first request is approved at the
  beginning, from before the last day up to it, the second does not exist yet.
  Longer leave repeats the same combinations of a day's kind with the days at
  either end.
* *Working time*: a day of five minutes stands for any odd number, whose half
  Python rounds to the even neighbour.
* *Price increase*: two prices, two percentages, three page visits and one
  movement of the price by others: enough for a page that is loaded, applied
  under, and saved.
* *Categories*: three categories and pages of two, so that the tree takes two
  pages; two events on either side.  It begins with the second category below
  the third and this below the root; events bring the other trees and orders.
* *Addresses*: one order, three rows and three errands (imports, merges,
  deletions), so that an import finds what two others left.  Two addresses told are
  of one place and name and differ in the rest, a third is there under another name
  with an e-mail of its own, one is elsewhere; orders with one address, two or none,
  with both defaults, one or none.
* *Transfers*: two spots, so that two addresses may share one, an address without,
  and the "." the shop is sent for it; a wording that comes back as another, with
  and without phone, and three rests of two countries.  What people write and what there is
  at first is a part of these (`MCTyped`).  A person's edit or a failing call; the customer begins with at most two rows, the first
  linked to either side, both or none, two addresses in Shopware (contacts in
  Microtech only where the shop has none; the transfers bring the rest).
* *Shopware 5 ids*: one canonical category, one in either tree and room
  for a third, which an edit may fill; two ids, one edit.
* *Vorgang*: two commands, three starts, three outcomes: a timeout, its retry and
  a change in between.

The theorems below remove the bounds for the properties they cover.
`CHECK_DEADLOCK` is off everywhere: an idle system whose bounded resources are
used up stops, and rightly so.

### Fairness

Threads finish what they start (`WF` of `Continues(t)`, `ClerkWorks(c)`,
`DeskWorks(s)`, `RunStep(r)`, `Writes(w)`): Celery has no time limit here and every
call has a timeout.  Celery serves queues in order with as many workers as
configured, so a message that stays in a queue is taken although free threads
come and go (`SF` of the message's start); the same holds for the tasks that beat
sends (`poll_due_jobs`, `reconcile_failures`, the scan, the watchdog, the product
sync).  A time in the future comes (`WF` of `Elapse`, `DeadlinePasses`).  Nothing
is assumed about the wrapper or about webhooks in `JobSentinel`, and nothing about
people anywhere.  Faults are finitely many.  `OrderSyncWorkflow` assumes of the
sentinel what `sentinel_live` checks: a job ends, and its continuation is sent
until a handler has run.  `MCBackground` assumes less than the modules do: `WF`
everywhere except for `TakeUp` (`SF`), because that is all its instances need,
and nothing of variants, increases and Shopware 5.  `MCRecords` assumes nothing.


## Findings

1. *A continuation is dispatched twice.*  The design
   (`docs/superpowers/specs/2026-07-02-sentinel-orders-customers-design.md`)
   says the claim prevents it.  `handle_webhook` commits SUCCEEDED with a pending
   continuation and an old `next_poll_at`, and dispatches afterwards; a beat tick
   between the two claims the row and dispatches too.
   `process_continuation` itself takes no claim.
2. *`createVorgang` is submitted twice* after such a duplicate: `advance` releases
   its lock after applying the result, and `current_step` changes only after the
   next submission.
3. *Resuming is not idempotent for `write_vorgang`*: if only the answer of the
   first call was lost, the resumed step creates the Vorgang again.
4. *An aborted workflow goes on* if its job had already succeeded: `advance`
   checks `current_step`, not the status.
5. *A failed workflow disappears*: if a result cannot be applied, `advance`
   returns normally, `delete_job` runs, and deletes the FAILED workflow that
   still refers to the job.
6. *The watchdog can be kept out for ever.*  It refuses while a maintenance job is
   active, and nothing ends the row of a worker that died with one, so the flag
   stays although its deadline is past.

Also met while modelling.  No document says otherwise, so no run is made of them;
where a property is concerned, a history variable or an exception names the case.

*Jobs and workflows*

* a worker that dies between CANCEL_REQUESTED and the end of `delete_job` leaves a
  row that no beat task and no `cancel_job` looks at again;
* a QUEUED job that a person deletes while its submission is under way leaves a
  job in the wrapper that no row knows (`ByHand`);
* `_handle_poll_failure` is an UPDATE that does not look at the status: the last
  failing poll makes a job FAILED that a webhook has just completed.  `JobPromise`
  permits it.  What may not come of it is checked in the order workflow, where
  `PollsExhausted` strikes a job that SUCCEEDED: the workflow is not left waiting
  (`WaitingEnds`) and takes no step too early (`ChainIsCarriedOut`);
* continuations are claimed only with what due polls leave of the limit of 50;
* a workflow whose first thread dies while it is RUNNING is not reconciled;
* if `_upsert_queued_job` meets an IntegrityError and the job is claimed before it
  looks again, DoesNotExist ends the loop and the remaining targets are not
  enqueued (`dropped`); two jobs of one product and target may run at once
  (`mixed`); a message lost with its worker, or a worker that dies in a command,
  leaves a job that nobody takes up;
* `microtech_update_prices`, `microtech_update_product` and
  `shopware_sync_products` log errors instead of raising them, so the product
  job counts as succeeded although the other side refused;
* an open backup window uses up poll attempts (FAILED after about 15 minutes,
  while the window's default is 90); a call that took effect without its answer
  leaves a flag that contradicts the window, and nothing repairs it.

*Translations and customer changes*

* a worker that dies while it asks leaves a RUNNING row with the current hash,
  which the scan passes over and the admin does not retry (`Abandoned`); a scan
  with an old snapshot sets a RUNNING row back, so that two workers ask; a hand
  edit during the call is overwritten;
* `apply_result` checks for newer requests outside its transaction, so a request
  made while an older one is being applied is reverted (`crossed`); an answer
  dropped for a request that fails later is lost.

*Customers and addresses*

* orders share Address rows, so a later import changes what an older order says;
  an order without a delivery leaves two shipping defaults;
* rows are matched by place and name, but everything is overwritten: an order's
  row may say the company, department, phone and country of another address of the
  same import, because the customer's defaults are written last.  Where an address
  has an e-mail of its own, even the name may be another's (`Says`);
* a push to Shopware sends no country, department, e-mail or title, the phone only
  if there is one, and "." for what is missing; an address it creates has the
  country of the customer's first one there, and none if there is no other.  The
  next pull brings what the shop has back into Django (`Patched`);
* `delete_django` counts orders and deletes later, so an order imported between is
  cascaded away (`raced`); `promote_new_order_to_in_progress` is not retried;
* merging as "new" clears `erp_combined_id`, but `Address.save()` computes it
  again from the old numbers, and a later import of the source customer fails; the
  kept `erp_ans_nr` then overwrites the address of that number; merging with both
  flags leaves two defaults;
* a pull from Shopware deletes addresses that a merge moved in or that orders use;
  of two Django addresses at one street and postal code, a push and a pull lose
  one; a push that matches by place keeps a stale id and may patch an address
  another row is linked to (`Meet`); deleting addresses on the customer page
  ignores errors of the other systems, and the next pull brings them back;
* `update_erp_nr` calls a method its class does not have, and swallows the error;
* the customer upsert sends filled fields only; if it breaks after creating the
  customer, the retry no longer writes the number back to Shopware; an address
  whose number Microtech lacks is refused for ever.

*Orders*

* the COM path forgets a stored BelegNr that is gone without searching by
  AuftrNr; two upserts at once create two Vorgänge (`overlapped`);
* the engines differ on unknown fields and on operators only one of them has; a
  rule made after the migration has no root group, so the tree engine matches
  every order; an empty group is not neutral below an ANY group; the GraphQL path
  ignores SET_FIELD actions and sends a price for "%" units.

*Products and categories*

* a percentage special whose push failed is renewed by each import; an edit
  between batch read and import is overwritten, and its own push then writes the
  overwritten value (`overtaken`);
* an increase is put back to draft by a form opened before; a reload or target
  saved late is applied again by a restore; apply uses the percentage that was
  loaded with the page; a crash after the commit leaves other channels old until
  a restore;
* the image hash is not cleared before the images are purged: when images go back
  to an earlier version after a run broke, they never return (`reverted`);
* an article that joined in a run that broke and then left stays a child for
  ever (`forgotten`); one invalid family stops `--all`;
* a page size that does not divide the limit makes the last page read earlier
  rows again; assignments beyond 500 are deleted as stale; a push for a category
  deleted in Shopware makes it again without a parent;
* mapping Shopware 5 ids rolls everything back when the duplicate tree holds one
  of them; both commands plan outside their transaction, and a plan that an edit of
  a page has overtaken meanwhile is carried out all the same: `IdsAreKept` excepts
  such runs (`overtakenPlan`).

*Leave*

* forms save whole rows they loaded earlier, which undoes a decision made
  meanwhile and even brings back a deleted row (`rushed`); half a company holiday
  declared over approved vacation is charged one and a half times; month and
  overview treat half holidays over leave, and public holidays within company
  holidays, differently (`Clashing`);
* a company holiday with `counts_as_vacation` that is no bridge day is in the
  month's vacation, as `docs/source/hr_mitarbeiterverwaltung.rst` (426-431, 928)
  says, but the overview shows it as company holiday and the yearly account, which
  asks for `is_bridge_day`, is not charged for it (`ShownClosed`).

*In parts without a model*

* a database dump contains its own row as RUNNING, so a restored backup stays
  RUNNING; `pg_restore` runs without a single transaction; AI rewriting applies
  without comparing; an e-mail queued again loses its SENT; documents publish the
  layout before the PDF, and an upload deletes other media of its file name.


## Proofs

Every theorem is of the specification a module states, for every value of its
constants that its named `ASSUME`s allow, without fairness.  The argument is the
same everywhere: an inductive invariant (`IInv`, or `ChainIInv`, `PriceIInv` ...)
holds initially and is kept by every action, with one lemma per action or per
group of actions, and implies the property.  What makes the proofs long is that
the properties are not inductive: what a thread may do now depends on what it
read some steps ago, so the invariants say, for each place in the code, what is
left of what was read there.  Most invariants were runs of TLC before they were
proved.  The theorems that a reader should know of are listed in `PROJECT.json`.

### JobSentinelProofs

`TypeCorrect`, `NoEarlyContinuation` (`ContinuationNeedsSuccess`),
`NothingForgotten` (`NoForgottenRemoteJob`), `EndedStaysEnded` (`NoResurrection`),
`PromiseIsKept` (`KeepsPromise`) and `GivenUpRightly`
(`GivenUpOnlyWhenExhausted`), for any jobs and threads, any kinds of jobs and
any bounds; in particular for jobs without a continuation and with an
unregistered one, which no run has.  `IInv` (`Invariance`) says, per row
(`RowInv`), that a status the wrapper had a part in implies a stored id and that
SUCCEEDED implies its verdict; per thread (`TaskInv`), what the place in the code
implies for the row as it is *now* (a thread about to apply "done" has a
completed job; one about to enter the handler has a row that has ended; one
about to submit has a row that nobody else can have moved beyond QUEUED or
CANCEL_REQUESTED); and that a job has one submitter (`OneSubmitter`).  Most
actions end in one of three lemmas: `Quiet` (no status), `StatusStep` (one status
that may be changed) or `Preserve`.  `PromiseIsKept` is the refinement: with
`IInv` every step is a step of `JobPromise` under the mapping of
`JobSentinel!KeepsPromise`, or leaves its variables alone.

### OrderProofs

*`OrderSyncWorkflow`.*  `WorkflowTypeCorrect` and `ChainIsAlwaysCarriedOut`
(`ChainIsCarriedOut`): what the wrapper has carried out stays so (`Grows`), so it
is enough that whatever is written down anywhere, in a row, in a thread's copy
of it or in a job, was carried out when it was written (`RowGood`, `TaskGood`,
`JobGood`).  This holds with duplicates, interventions and faults.

`WaitersAreTold` (`NobodyWaitsInVain`) is the safety half of `WaitingEnds`, under the
same faults: `reconcile_failures` looks only at workflows whose job is missing or
has failed, so the job of any other must be open in the wrapper, or its
continuation undelivered or in hand.  `WaitInv` says it of every job, linked or
not, because `submit_step` may link a job whose continuation has come already:
one that is open was handed over (`OpenIsSent`); one whose handler was entered has
ended (`HeardHasEnded`) and, while it counts as successful, has its handler at
work (`HeardIsInHand`); and no row refers to a job that is gone (`LinksExist`).

`OneCallPerStep` (`OneCallRepeatedPerAct`) is about runs without duplicates and
faults and with at most one intervention (`Calm`).  Then a workflow is handed on
like a baton: one thread carries it, or one job that has not been heard of
(`OneCarrier`), nobody handles a job that somebody else handles
(`HandlersApart`), and but for one job `k` the jobs of a workflow are of the steps
before the carrier's (`Stands(k)`).  Before the intervention there is no such `k`
and the carrier's place is known from the row (`Alone`).  The statement itself
came out of this proof.  The first version, that the Vorgang is never created
twice without duplicates and faults, is false: if the wrapper is so fast that the
continuation arrives before `submit_step` has linked the job, `advance` ignores
it as late, the linked job is deleted with its workflow left FAILED, and a
`resume` submits the same call again, although nothing has failed.  So the
property now says what is true: one intervention repeats at most one call.

*`VorgangUpsert`.*  `VorgangTypeCorrect` and `OrderHasOneVorgang` (`OneVorgang`): as
long as no two commands were under way at once, a job somebody waits for is the
last in the queue, and a create job stands for a Vorgang that does not exist and
that nobody else makes (`VorgangInv`).

*`OrderRules`.*  `RuleTypeCorrect`; `EnginesAgreeAlways` (`EnginesAgree`): until a
page is saved that only one engine sees, the tree is the flat list (`SameRule`);
`PathsAlwaysAgree` (`PathsAgree`): the COM path and the GraphQL path are two folds
over the rule's actions.  A fold is a recursive function, about which the prover
knows nothing: that it exists (`FoldExists`) and that the two agree after every
prefix (`PathsMeet`) follow from the least prefix at which they would not.

### CustomerChangeProofs

*`CustomerChange`.*  `NewestChoiceStands` (`LatestRequestWins`): as long as nothing
has crossed, an applied request succeeded, and an agent about to apply has
nothing newer that is applied (`Uncrossed`).

*`AddressBook`.*  `AddressTypeCorrect`, `ImportSettles`
(`ImportSettlesAddresses`), `OrdersStay` (`OrdersAreNotLost`): every order has an
owner (`OrdersOwned`), and a customer that waits to be deleted owns none
(`DoomedOwnNothing`).  The import is one transaction, so most of the proof is
about what its matching, overwriting and setting of defaults do in this order.  A
row bears an address if it says it, or says another of the import's of the same
place and name (`Bears`); a row that is overwritten was matched, by id, by place and
name or by e-mail, so what it bore it still bears (`Passes`), and what was written
first is borne to the end.

*`CustomerUpsert`.*  `UpsertTypeCorrect` and `UpsertsLand` (`UpsertLands`): a
process that is alone knows the numbers of what is left, and what it has written
is there where nothing was put over it (`LonelyGood`); the number of an address
that is clear of doubt means it and nothing else (`NumbersMean`).

*`AddressMirror`.*  `MirrorTypeCorrect` and `TransfersBringOver` (`MirrorHolds`): how
far an undisturbed transfer has brought the other side, for each direction
(`PullGood`, `PushGood`, `ImportGood`).  Of the conversions of a push only the types
are assumed: what was sent last to an address of the shop is what it carries
(`PatchedCarries`), and unless two went to the same one, nothing was sent there
after it.

### CatalogProofs

*`Shopware5Mapping`.*  `Sw5TypeCorrect`, `NoIdIsLost` (`IdsAreKept`): a plan still
fits the rows it was made from (`MapHolds`, `MergeHolds`) unless an edit has
overtaken it.

*`VariantFamilies`.*  `VariantTypeCorrect`, `FamilyMatches` (`VariantsMatch`): how
far a run has let go of who left, and how far one that is alone has brought
Shopware (`RunHolds`), and what remains of it afterwards (`ReachedHolds`).

*`PriceRoundTrip`.*  `PriceTypeCorrect`, `RebateIsKept` (`RebateSurvives`): the
property is about Django, but what goes wrong there was read from Microtech
before, and written there before that; so `RebateInv` says what Microtech, every
payload and the batch hold of the rebate.

*`PriceIncreases`.*  `IncreaseTypeCorrect`, `NeverIncreasedTwice`
(`IncreasedOnce`): as long as no page loaded before has been saved, an applied
increase has written what its position and percentage give (`Promises`), and
such pages are all that could reopen it (`OfficeInv`).

*`ShopProduct`.*  `ShopTypeCorrect`, `HashIsTrue` (`HashTellsMedia`): what each
place of a run says of the images in Shopware (`MediaInv`).

*`Categories`.*  `NoCircleOfCategories` (`TreeStaysATree`).  An import reads pages
at different moments, so the parents it has read may well go round in a circle.
That none gets into the local tree follows from the root: it hangs from nothing
(`RootStands`, `RootRead`), and what is kept is what is reached from it (`Below`,
a recursive function, unfolded by the least step at which a category would be
reached): in a set of kept categories the one that was reached first has its
parent outside.

`CategoriesTyped` (`CatTypeOK`) and `BothSidesAgree` (`SyncsAgree`): `SyncIInv` says what
an import that nobody disturbs has read so far (`ReadSoFar`: the rows of the pages
before, as they still are), what it knows of the products (`LinksRead`,
`LocalRead`), what an undisturbed push knows (`PushAlone`), and that Shopware keeps
the siblings of every parent in one chain (`Chains`), whoever moves or deletes a
category.  The rest is about two recursive functions.  The pages are disjoint and
cover the rows (`NextRows`), since a row is on the page its number in the order
says.  `InOrder`, the walk of `_sort_orders`, comes to its end within the steps it
has, and gives every sibling once (`Walked`): that is the type of a place.  And
when the siblings are one chain, whoever follows a row comes directly behind it
(`Fronted`), which is the last part of `SyncsAgree`.  As with `Below`, each is
unrolled step by step, and what holds after every step follows from the first at
which it would not.

### LeaveProofs

*`LeaveRequests`.*  `LeaveTypeCorrect`, `ADayIsChargedOnce` (`NoDayIsChargedTwice`)
and `TheYearsAddUp` (`YearsAddUp`).  Nothing locks, so the rows a form was checked
against may change before it is saved; `DesksOK` says what is left of the check on
every desk (it stands if nobody has saved since the form was loaded, because
deleting a row and importing a holiday create no conflict), `Apart` that no two
rows saved in turn are about the same day.  The sum over a request's days is
split at the turn of the year by cardinalities of sets of days.

*`WorkingTime`.*  `OverviewIsTrue` (`OverviewAgrees`).  The summary adds up row by
row, the overview day by day.  Since the rows are apart, a day has at most one row
of each table, and it is the one that is shown (`ShownRows`); so the two agree on
every day (`DaysAgree`), up to the rounding of a half day and with the company
holidays that count as vacation without being bridge days on both sides
(`ClosedFacts`), and the double sums may
be taken in either order (`SumSwaps`).  The library's sum is a fold that takes out
the element CHOOSE takes; that it adds, grows, counts and swaps follows by
unrolling it over the subsets in that order (`SumUnrolls`, `SetsFrom`).

### ProductAutoSyncProofs

`TypeCorrect`, `ChangesReachAJob` (`NoForgottenChange`), `QueuedIsDispatched`
(`NoStrandedJob`, the safety half of the run's `QueuedIsProcessed`) and
`QuietIsCurrent` (`QuietMeansCurrent`).  `IInv` adds that a thread which processes
a job has taken it out of the queue and has nothing else to enqueue (`Workers`),
and that a row has a target (`Rows`).  For `QuietIsCurrent`, `QuietInv` says what a
worker holds (`Hands`), that a target has one (`OneWorker`) and that what a
target lacks is queued or in a worker's hands (`NothingMissing`).

### BackupModeProofs and AiTranslationProofs

`BackupModeProofs`: `TypeCorrect` and `FlagIsRight` (`FlagTellsWindow`).  The
property speaks of moments of rest; what makes it true is what a thread may rely
on before: two jobs under way at once are both remembered as having met
(`Meetings`), a thread that met nobody and is about to mark finds the window as
its call left it (`MarksTruth`), and without a doubt the flag is right or somebody
is about to set it right (`FlagOrMark`).

`AiTranslationProofs`: `TypeCorrect`, `PassedOverIsTranslated`
(`SkippedIsTranslated`) and `ShopHears` (`ShopIsTold`).  The first is inductive when
it is said of the row's own hash (`Translated`) instead of the current one, which
may come back to it.

### Assumptions, and what is not proved

The assumptions are the named `ASSUME`s of the components: bounds are naturals
(`...Bound`, `...Bounds`, `...Assumption`), "no job", "no target" and the parent's
id are none of the things they stand beside, there is a thread, the set of
categories is finite and has the root, and the calendar's days are as
`CalendarAssumption` says; a working day has more than one minute
(`DayAssumption`); the conversions of a push are functions from spots to spots,
wordings to wordings and rests to rests (`MirrorBounds`), "no address" is not one
(`ContactsAssumption`), and the answers of Shopware and Microtech have the form the
import takes them apart by (`TellingsAssumption`).  For the categories, the variants are products, and a page holds
at least one row: `sync_from_shopware` raises a smaller page size to one.  TLC evaluates all of them.

Only model-checked:

* all liveness (`TrackedJobSettles`, `ContinuationConcludes`, `WaitingEnds`,
  `QueuedIsProcessed`, `ShopCatchesUp`, `ChangesAreTranslated`, `FlagIsCleared`,
  `ExpiredSpecialLeaves`), because fairness and ENABLED are beyond the prover; of
  `WaitingEnds` and `QueuedIsProcessed` the safety halves are proved
  (`WaitersAreTold`, `QueuedIsDispatched`), of `TrackedJobSettles` that no job is
  forgotten (`NothingForgotten`);
* `TypesOK` of `MCBackground` and `MCRecords` as wholes: each is the conjunction of
  the type invariants of the components that the module puts side by side, and
  every one of those has its theorem.


## Not modelled

Admin pages (lists, filters, forms without a protocol), record definitions
without behaviour, HTTP clients and payload builders (their answers and errors
are inputs of the models), settings, templates and rendering, documents, e-mails,
newsletter recipients, the time account and the locking of months, AI rewriting,
issues, database backups, live events, dashboards, QR codes, telephone, packaging
reports, scrapers.  They are most of the lines of the repository, which is why
the map covers about 15 % of them: a part listed as *partly* in `PROJECT.json`
says what of it is left out.


## Plan

Every component of the table above has its module, and every safety property of
its runs a proof.  What is left, in this order:

1. The publication of documents (PDF, layout and media in three calls), the
   locking of months with the time account, and the newsletter's recipients.
2. The batch limit of `poll_due_jobs` as a parameter, for the starvation of
   continuations by polls.
